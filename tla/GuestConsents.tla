---------------------------- MODULE GuestConsents ----------------------------
(* GuestService.record_consent(), withdraw_consent() of one guest profile:   *)
(* a call reads the latest row of its purpose, appends one that is later,    *)
(* and other calls see it when its transaction, which holds this one call,   *)
(* has committed.  The servers that run the calls read clocks of their own.  *)
EXTENDS Naturals, FiniteSets

CONSTANTS
  Purpose, Giver, Nothing,
  MaxClock, MaxConsents        \* bounds: the clocks, the rows

VARIABLES
  consents,   \* rows, those of open transactions included
  giving,     \* per caller: the call it makes
  said,       \* history: what the last call for the purpose to commit said,
              \* Nothing if another call for it overlapped that one
  refused     \* history: a call was refused although none overlapped it

vars == <<consents, giving, said, refused>>

State == {"granted", "withdrawn"}

(* giver: whose transaction has not committed it yet. *)
GuestConsent ==
  [purpose : Purpose, granted_at : Nat, state : State, giver : Giver \cup {Nothing}]

Init ==
  /\ consents = {}
  /\ giving = [c \in Giver |-> Nothing]
  /\ said = [p \in Purpose |-> Nothing]
  /\ refused = FALSE

Committed(p) == {r \in consents : r.purpose = p /\ r.giver = Nothing}

current_consent(p) ==
  IF Committed(p) = {} THEN Nothing
  ELSE CHOOSE r \in Committed(p) : \A q \in Committed(p) : q.granted_at =< r.granted_at

has_active_consent(p) ==
  current_consent(p) # Nothing /\ current_consent(p).state = "granted"

next_granted_at(p, now) ==
  IF current_consent(p) # Nothing /\ now =< current_consent(p).granted_at
  THEN current_consent(p).granted_at + 1
  ELSE now

-----------------------------------------------------------------------------
For(c, p) == giving[c] # Nothing /\ giving[c].purpose = p
At(c, step) == giving[c] # Nothing /\ giving[c].step = step

Give(c, p, state, now) ==
  /\ giving[c] = Nothing
  /\ Cardinality(consents) < MaxConsents
  /\ giving' = [d \in Giver |->
       IF d = c
       THEN [step |-> "insert", purpose |-> p, state |-> state,
             granted_at |-> next_granted_at(p, now), alone |-> \A e \in Giver : ~For(e, p)]
       ELSE IF For(d, p) THEN [giving[d] EXCEPT !.alone = FALSE] ELSE giving[d]]
  /\ UNCHANGED <<consents, said, refused>>

SameKey(c) ==
  {r \in consents : r.purpose = giving[c].purpose /\ r.granted_at = giving[c].granted_at}

(* The key of an open transaction is waited for, that of a row refuses. *)
Insert(c) ==
  /\ At(c, "insert")
  /\ \A r \in SameKey(c) : r.giver = Nothing
  /\ IF SameKey(c) = {}
     THEN /\ consents' = consents \cup
               {[purpose |-> giving[c].purpose, granted_at |-> giving[c].granted_at,
                 state |-> giving[c].state, giver |-> c]}
          /\ giving' = [giving EXCEPT ![c].step = "commit"]
          /\ UNCHANGED refused
     ELSE /\ giving' = [giving EXCEPT ![c] = Nothing]
          /\ refused' = (refused \/ giving[c].alone)
          /\ UNCHANGED consents
  /\ UNCHANGED said

Own(c) == {r \in consents : r.giver = c}

Commit(c) ==
  /\ At(c, "commit")
  /\ consents' = (consents \ Own(c)) \cup {[r EXCEPT !.giver = Nothing] : r \in Own(c)}
  /\ said' = [said EXCEPT ![giving[c].purpose] =
       IF giving[c].alone THEN giving[c].state ELSE Nothing]
  /\ giving' = [giving EXCEPT ![c] = Nothing]
  /\ UNCHANGED refused

(* The request fails or its process dies. *)
Rollback(c) ==
  /\ giving[c] # Nothing
  /\ consents' = consents \ Own(c)
  /\ giving' = [giving EXCEPT ![c] = Nothing]
  /\ UNCHANGED <<said, refused>>

Next ==
  \E c \in Giver :
    \/ \E p \in Purpose, state \in State, now \in 0..MaxClock : Give(c, p, state, now)
    \/ Insert(c) \/ Commit(c) \/ Rollback(c)

Spec == Init /\ [][Next]_vars

-----------------------------------------------------------------------------
TypeOK ==
  /\ consents \subseteq GuestConsent
  /\ said \in [Purpose -> State \cup {Nothing}]
  /\ refused \in BOOLEAN
  /\ \A c \in Giver : giving[c] # Nothing =>
       giving[c].step \in {"insert", "commit"} /\ giving[c].purpose \in Purpose

(* models.py:191, one row per instant: the latest of a purpose is one row.   *)
KeysDistinct ==
  \A r, q \in consents : r.purpose = q.purpose /\ r.granted_at = q.granted_at => r = q

(* services.py:105, "never rewinds": what a guest last said is what counts,  *)
(* however the clocks of the servers differ and however soon one call        *)
(* follows another, and no call is refused for a key unless another runs.    *)
LastWordStands ==
  /\ ~refused
  /\ \A p \in Purpose : said[p] # Nothing => has_active_consent(p) = (said[p] = "granted")

ConsentsStand == KeysDistinct /\ LastWordStands
=============================================================================
