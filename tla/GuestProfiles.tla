--------------------------- MODULE GuestProfiles ---------------------------
(* apps/guests: resolve() finds or makes the profile of a contact, two      *)
(* profiles are merged by hand, a profile is erased on request.  A call     *)
(* reads, then writes; between the two anything may happen.  One tenant.    *)
EXTENDS Naturals, FiniteSets, FiniteSetsExt

CONSTANTS Caller, Email, Phone, Nothing,
          MaxProfile,     \* bound: profile ids ever issued
          MaxVersion      \* bound: saves of one profile

VARIABLES
  issued,      \* the profile id sequence
  profile,     \* GuestProfile rows by id, Nothing for an id without a row
  inserting,   \* rows of transactions that have not ended
  call         \* per caller: the call it is making, or made last

vars == <<issued, profile, inserting, call>>

Id == 1..MaxProfile
Row ==
  [email : Email \cup {Nothing}, phone : Phone \cup {Nothing}, version : 0..MaxVersion,
   status : {"active", "merged", "closed"}, merged_into : Id \cup {Nothing}, erased : BOOLEAN]

Idle == [op |-> "none", at |-> "answered"]
Working(c, op, at) == call[c].op = op /\ call[c].at = at
Ready(c) == call[c].at = "answered"

Init ==
  /\ issued = 0
  /\ profile = [p \in Id |-> Nothing]
  /\ inserting = {}
  /\ call = [c \in Caller |-> Idle]

-----------------------------------------------------------------------------
(* resolve().  A profile is live unless it is merged or erased; a row of a  *)
(* transaction that has not ended is seen by the unique constraints only.   *)

Live == {p \in Id : profile[p] # Nothing /\ ~profile[p].erased /\ profile[p].merged_into = Nothing}
Committed == {p \in Id : profile[p] # Nothing} \ inserting

Holding(email, phone) ==
  {p \in Live : \/ email # Nothing /\ profile[p].email = email
                \/ phone # Nothing /\ profile[p].phone = phone}

find_by_identity(email, phone) == Holding(email, phone) \cap Committed

Resolve(c) ==
  /\ Ready(c)
  /\ \E email \in Email \cup {Nothing}, phone \in Phone \cup {Nothing} :
       LET found == find_by_identity(email, phone)
       IN
       /\ {email, phone} # {Nothing}
       /\ call' = [call EXCEPT ![c] =
            [op |-> "resolve", email |-> email, phone |-> phone,
             at |-> IF found = {} THEN "insert" ELSE "answered",
             answer |-> IF found = {} THEN Nothing ELSE Min(found)]]
  /\ UNCHANGED <<issued, profile, inserting>>

(* A definition whose name carries a suffix is the one it is named after    *)
(* with a slip in it, for the properties to catch; nothing else uses it.    *)
Conflicting_AsSeen(email, phone) == find_by_identity(email, phone)

(* What the unique constraints compare a new row with. *)
Conflicting(email, phone) == Holding(email, phone)

(* The insert waits for a transaction that has inserted the same contact. *)
Insert(c) ==
  LET taken == Conflicting(call[c].email, call[c].phone)
      p == issued + 1
  IN
  /\ Working(c, "resolve", "insert")
  /\ taken \cap inserting = {}
  /\ IF taken # {}
     THEN /\ call' = [call EXCEPT ![c].at = "look_again"]
          /\ UNCHANGED <<issued, profile, inserting>>
     ELSE /\ issued < MaxProfile
          /\ issued' = p
          /\ profile' = [profile EXCEPT ![p] =
               [email |-> call[c].email, phone |-> call[c].phone, version |-> 0,
                status |-> "active", merged_into |-> Nothing, erased |-> FALSE]]
          /\ inserting' = inserting \cup {p}
          /\ call' = [call EXCEPT ![c].at = "commit", ![c].answer = p]

LookAgain(c) ==
  LET found == find_by_identity(call[c].email, call[c].phone)
  IN
  /\ Working(c, "resolve", "look_again")
  /\ call' = [call EXCEPT ![c] =
       IF found = {} THEN Idle ELSE [@ EXCEPT !.at = "answered", !.answer = Min(found)]]
  /\ UNCHANGED <<issued, profile, inserting>>

(* The request that resolved the guest ends: committed, or rolled back. *)
RequestEnds(c) ==
  LET p == call[c].answer
  IN
  /\ Working(c, "resolve", "commit")
  /\ inserting' = inserting \ {p}
  /\ \/ call' = [call EXCEPT ![c].at = "answered"] /\ UNCHANGED profile
     \/ call' = [call EXCEPT ![c] = Idle] /\ profile' = [profile EXCEPT ![p] = Nothing]
  /\ UNCHANGED issued

-----------------------------------------------------------------------------
(* merge() and erase() write the row they were given, as it was read, if    *)
(* its version has not moved; merge() looks at both statuses it was given.  *)

MergeRead(c) ==
  /\ Ready(c)
  /\ \E from, into \in Committed :
       /\ from # into
       /\ profile[from].status = "active" /\ profile[into].status = "active"
       /\ call' = [call EXCEPT ![c] =
            [op |-> "merge", at |-> "save", id |-> from, into |-> into, row |-> profile[from]]]
  /\ UNCHANGED <<issued, profile, inserting>>

EraseRead(c) ==
  /\ Ready(c)
  /\ \E p \in Committed :
       call' = [call EXCEPT ![c] = [op |-> "erase", at |-> "save", id |-> p, row |-> profile[p]]]
  /\ UNCHANGED <<issued, profile, inserting>>

Saveable_Unversioned(c) == TRUE
Saveable(c) == profile[call[c].id].version = call[c].row.version
Bounded(c) == call[c].row.version < MaxVersion

Written(c) ==
  [ IF call[c].op = "merge"
    THEN [call[c].row EXCEPT !.merged_into = call[c].into, !.status = "merged"]
    ELSE [call[c].row EXCEPT !.email = Nothing, !.phone = Nothing, !.status = "closed",
                             !.erased = TRUE]
    EXCEPT !.version = @ + 1]

Save(c) ==
  /\ call[c].op \in {"merge", "erase"} /\ call[c].at = "save" /\ Bounded(c)
  /\ profile' = IF Saveable(c) THEN [profile EXCEPT ![call[c].id] = Written(c)] ELSE profile
  /\ call' = [call EXCEPT ![c] = Idle]
  /\ UNCHANGED <<issued, inserting>>

-----------------------------------------------------------------------------
Next ==
  \E c \in Caller :
    \/ Resolve(c) \/ Insert(c) \/ LookAgain(c) \/ RequestEnds(c)
    \/ MergeRead(c) \/ EraseRead(c) \/ Save(c)

Spec == Init /\ [][Next]_vars

-----------------------------------------------------------------------------
TypeOK ==
  /\ issued \in 0..MaxProfile
  /\ profile \in [Id -> Row \cup {Nothing}]
  /\ inserting \subseteq Id
  /\ \A c \in Caller : call[c].op \in {"none", "resolve", "merge", "erase"}

(* One profile has the email that is asked for and another the phone.       *)
StandApart(a, b, email, phone) ==
  /\ {email, phone} \cap {Nothing} = {}
  /\ profile[a].email = email /\ profile[b].phone = phone

(* resolve(): "two concurrent resolves for the same identity converge on    *)
(* one profile", unless one of the answers was merged or erased since.  The *)
(* exception to what resolve() says is an identity of both contacts, as     *)
(* reserve() asks for, when these are of two profiles: a request that could *)
(* not yet see the older of the two was answered with the other one.        *)
AnswersConverge ==
  \A c, d \in Caller :
    LET a == call[c].answer
        b == call[d].answer
    IN
    /\ Working(c, "resolve", "answered") /\ Working(d, "resolve", "answered")
    /\ call[c].email = call[d].email /\ call[c].phone = call[d].phone
    /\ {a, b} \subseteq Live
    => \/ a = b
       \/ StandApart(a, b, call[c].email, call[c].phone)
       \/ StandApart(b, a, call[c].email, call[c].phone)

(* An erased profile stays erased and without a contact: no call that read  *)
(* it before the erasure brings it back with the row it then writes.        *)
ErasureIsFinal ==
  [][\A p \in Id :
       profile[p] # Nothing /\ profile[p].erased
       => /\ profile'[p] # Nothing /\ profile'[p].erased
          /\ profile'[p].email = Nothing /\ profile'[p].phone = Nothing]_vars
=============================================================================
