----------------------- MODULE EventProjection_proofs -----------------------
(***************************************************************************)
(* What crashes, overlaps and refusals cannot do to the events, for every  *)
(* set of rooms, relays and projectors and any horizon.                    *)
(***************************************************************************)
EXTENDS EventProjection, FiniteSetTheorems, WellFoundedInduction, SequenceTheorems, TLAPS

Committed(e) == outbox[e] \notin {"absent", "inserted"}

Folded(e) == \E i \in DOMAIN applied : applied[i] = e

-----------------------------------------------------------------------------
(* The smallest of a set of numbers.                                        *)
LEMMA LeastExists ==
  ASSUME NEW S \in SUBSET Nat, S # {}
  PROVE  \E x \in S : \A y \in S : x <= y
<1> DEFINE R == OpToRel(<, Nat)
<1>1. IsWellFoundedOn(R, Nat)
  BY NatLessThanWellFounded
<1>2. \A x, y \in Nat : <<x, y>> \in R <=> x < y
  BY DEF OpToRel
<1> HIDE DEF R
<1>3. PICK x \in S : \A y \in S : ~ (<<y, x>> \in R)
  BY <1>1, WFMin
<1>4. ASSUME NEW y \in S
      PROVE  x <= y
  <2>1. x \in Nat /\ y \in Nat /\ ~ (y < x)
    BY <1>2, <1>3
  <2>2. QED
    BY <2>1
<1>5. QED
  BY <1>4

LEMMA MinIsLeast ==
  ASSUME NEW S \in SUBSET Event, S # {}
  PROVE  Min(S) \in S /\ \A y \in S : Min(S) <= y
<1>1. S \in SUBSET Nat
  BY EventAssumption DEF Event
<1>2. \E x \in S : \A y \in S : x <= y
  BY <1>1, LeastExists
<1>3. QED
  BY <1>2 DEF Min

LEMMA OldestIsMember ==
  ASSUME NEW rows, rows # {}, \A x \in rows : x.row \in Event
  PROVE  Oldest(rows) \in rows
<1> DEFINE S == {x.row : x \in rows}
<1>1. S \in SUBSET Nat /\ S # {}
  BY EventAssumption DEF Event
<1>2. PICK n \in S : \A y \in S : n <= y
  BY <1>1, LeastExists
<1>3. PICK x \in rows : x.row = n
  BY <1>2
<1>4. \A y \in rows : x.row <= y.row
  BY <1>2, <1>3
<1>5. QED
  BY <1>4 DEF Oldest

-----------------------------------------------------------------------------
(* The inductive invariant.                                                 *)

(* Rows are numbered by insertion, an open transaction has a row of its own, *)
(* and what relays hold and the log contains was committed.                  *)
RowsSound ==
  /\ \A e \in Event : e > Len(event) => outbox[e] = "absent"
  /\ \A r \in Room : writing[r] # 0 => outbox[writing[r]] = "inserted"
  /\ \A r, q \in Room : writing[r] = writing[q] => writing[r] = 0 \/ r = q
  /\ \A p \in Relay : \A x \in relay[p] : Committed(x.row) /\ x.attempts <= attempts[x.row]
  /\ \A e \in log : Committed(e)
  /\ \A e \in Event : attempts[e] <= failures

(* Checkpoint and batches are made of events of the log. *)
CursorSound ==
  /\ checkpoint # 0 => checkpoint \in log
  /\ \A p \in Projector : run[p] \subseteq log
  /\ \A i \in DOMAIN applied : applied[i] \in log

(* A batch passes over no event of the log that was not late. *)
NothingPassed ==
  \A p \in Projector : \A x \in run[p] : \A e \in log :
    e < x => e \in run[p] \/ e \in late \/ Folded(e)

Ind ==
  /\ TypeOK /\ RowsSound /\ PublishedIffLogged /\ DeadOnlyAfterMax
  /\ CursorSound /\ NothingPassed /\ SkippedOnlyIfLate

LEMMA InitInd == Init => Ind
<1> SUFFICES ASSUME Init
             PROVE  Ind
  OBVIOUS
<1>1. 0..(Horizon - 1) \subseteq Date
  BY EventAssumption DEF Date
<1>2. TypeOK
  BY <1>1, EventAssumption DEF Init, TypeOK, OutboxStatus
<1>3. RowsSound /\ PublishedIffLogged /\ DeadOnlyAfterMax
  BY EventAssumption DEF Init, RowsSound, PublishedIffLogged, DeadOnlyAfterMax, Committed
<1>4. CursorSound /\ NothingPassed /\ SkippedOnlyIfLate
  BY DEF Init, CursorSound, NothingPassed, SkippedOnlyIfLate
<1>5. QED
  BY <1>2, <1>3, <1>4 DEF Ind

LEMMA LoggedRecorded ==
  ASSUME TypeOK, RowsSound, NEW e \in log
  PROVE  e \in DOMAIN event /\ event[e].delta \in {-1, 1}
<1>1. e \in Event /\ ~ (e > Len(event))
  BY DEF TypeOK, RowsSound, Committed
<1>2. e \in 1..Len(event)
  BY <1>1, EventAssumption DEF Event, TypeOK
<1>3. event \in Seq([room : Room, delta : {-1, 1}])
  BY DEF TypeOK
<1>4. e \in DOMAIN event /\ event[e] \in [room : Room, delta : {-1, 1}]
  BY <1>2, <1>3, ElementOfSeq, LenProperties
<1>5. QED
  BY <1>4

LEMMA RelayRow ==
  ASSUME TypeOK, NEW p \in Relay, relay[p] # {}
  PROVE  /\ Oldest(relay[p]) \in relay[p]
         /\ Oldest(relay[p]).row \in Event
         /\ Oldest(relay[p]).attempts \in Nat
<1>1. relay[p] \subseteq [row : Event, attempts : 0..MaxFailures]
  BY DEF TypeOK
<1>2. Oldest(relay[p]) \in relay[p]
  BY <1>1, OldestIsMember
<1>3. QED
  BY <1>1, <1>2, EventAssumption

-----------------------------------------------------------------------------
LEMMA TypeStep ==
  ASSUME TypeOK, RowsSound, CursorSound, [Next]_vars
  PROVE  TypeOK'
<1> USE EventAssumption
<1>1. CASE NextDay
  BY <1>1 DEF NextDay, TypeOK, roomVars, outboxVars, projectorVars
<1>2. CASE InitializeHorizon
  <2>1. today..(today + Horizon - 1) \subseteq Date
    BY DEF TypeOK, Date
  <2>2. QED
    BY <1>2, <2>1 DEF InitializeHorizon, TypeOK, roomVars, outboxVars, projectorVars
<1>3. ASSUME NEW r \in Room, RecordEvent(r)
      PROVE  TypeOK'
  <2>1. [room |-> r, delta |-> IF r \in out THEN -1 ELSE 1] \in [room : Room, delta : {-1, 1}]
    OBVIOUS
  <2>2. event' \in Seq([room : Room, delta : {-1, 1}])
    BY <1>3, <2>1 DEF RecordEvent, TypeOK
  <2>3. Len(event) + 1 \in Event
    BY <1>3 DEF RecordEvent
  <2>4. writing' \in [Room -> 0..MaxEvent]
    BY <1>3, <2>3 DEF RecordEvent, TypeOK, Event
  <2>5. outbox' \in [Event -> OutboxStatus]
    BY <1>3, <2>3 DEF RecordEvent, TypeOK, OutboxStatus
  <2>6. QED
    BY <1>3, <2>2, <2>4, <2>5 DEF RecordEvent, TypeOK, projectorVars
<1>4. ASSUME NEW r \in Room, CommitChange(r) \/ AbortChange(r)
      PROVE  TypeOK'
  <2>1. writing' \in [Room -> 0..MaxEvent]
    <3>1. writing' = [writing EXCEPT ![r] = 0] /\ 0 \in 0..MaxEvent
      BY <1>4 DEF CommitChange, AbortChange
    <3>2. QED
      BY <3>1 DEF TypeOK
  <2>2. outbox' \in [Event -> OutboxStatus]
    BY <1>4 DEF CommitChange, AbortChange, TypeOK, OutboxStatus
  <2>3. out' \subseteq Room
    BY <1>4 DEF CommitChange, AbortChange, TypeOK
  <2>4. QED
    BY <1>4, <2>1, <2>2, <2>3 DEF CommitChange, AbortChange, TypeOK, projectorVars
<1>5. ASSUME NEW p \in Relay, ReadOutbox(p)
      PROVE  TypeOK'
  <2>1. {[row |-> e, attempts |-> attempts[e]] : e \in pending}
          \subseteq [row : Event, attempts : 0..MaxFailures]
    BY DEF TypeOK, pending
  <2>2. QED
    BY <1>5, <2>1 DEF ReadOutbox, TypeOK, roomVars, projectorVars
<1>6. ASSUME NEW p \in Relay, Promote(p)
      PROVE  TypeOK'
  <2>1. Oldest(relay[p]).row \in Event
    BY <1>6, RelayRow DEF Promote
  <2>2. QED
    BY <1>6, <2>1 DEF Promote, TypeOK, roomVars, projectorVars, OutboxStatus
<1>7. ASSUME NEW p \in Relay, DeadLetter(p)
      PROVE  TypeOK'
  <2>1. Oldest(relay[p]).row \in Event
    BY <1>7, RelayRow DEF DeadLetter
  <2> DEFINE x == Oldest(relay[p])
  <2>2. /\ failures < MaxFailures /\ failures' = failures + 1
        /\ attempts' = [attempts EXCEPT ![x.row] = @ + 1]
        /\ outbox' = [outbox EXCEPT ![x.row] =
                        IF @ = "pending" /\ x.attempts + 1 >= max_attempts THEN "dead_lettered" ELSE @]
        /\ relay' = [relay EXCEPT ![p] = @ \ {x}]
        /\ UNCHANGED <<today, roomVars, log, projectorVars, slots, claimed, late>>
    BY <1>7 DEF DeadLetter
  <2> HIDE DEF x
  <2>3. attempts' \in [Event -> 0..MaxFailures]
    <3>1. attempts[x.row] <= failures /\ attempts[x.row] \in Nat /\ failures \in Nat
      BY <2>1 DEF RowsSound, TypeOK, x
    <3>2. attempts[x.row] + 1 \in 0..MaxFailures
      BY <2>2, <3>1
    <3>3. QED
      BY <2>2, <3>2 DEF TypeOK
  <2>4. outbox' \in [Event -> OutboxStatus]
    BY <2>2 DEF TypeOK, OutboxStatus
  <2>5. relay' \in [Relay -> SUBSET [row : Event, attempts : 0..MaxFailures]]
    BY <2>2 DEF TypeOK
  <2>6. failures' \in 0..MaxFailures
    BY <2>2 DEF TypeOK
  <2>7. QED
    BY <2>2, <2>3, <2>4, <2>5, <2>6 DEF TypeOK, roomVars, projectorVars
<1>8. ASSUME NEW p \in Relay, RelayCrash(p)
      PROVE  TypeOK'
  BY <1>8 DEF RelayCrash, TypeOK, roomVars, projectorVars
<1>9. ASSUME NEW p \in Projector, ReadEvents(p) \/ ProjectorCrash(p)
      PROVE  TypeOK'
  BY <1>9 DEF ReadEvents, ProjectorCrash, TypeOK, roomVars, outboxVars, pending_events
<1>10. ASSUME NEW p \in Projector, ProcessEvent(p)
       PROVE  TypeOK'
  <2> DEFINE e == Min(run[p])
  <2>1. e \in run[p] /\ e \in log /\ e \in Event
    BY <1>10, MinIsLeast DEF ProcessEvent, TypeOK, CursorSound
  <2>2. event[e].delta \in {-1, 1}
    BY <2>1, LoggedRecorded
  <2> HIDE DEF e
  <2>3. CASE Fits(Adjusted(event[e].delta))
    <3>1. Apply(p, e) /\ UNCHANGED <<today, roomVars, outboxVars, slots, claimed, late>>
      BY <1>10, <2>3 DEF ProcessEvent, e
    <3>2. out_of_service' \in [Date -> 0..total_units]
      <4>1. out_of_service' = Adjusted(event[e].delta)
        BY <3>1 DEF Apply
      <4>2. ASSUME NEW d \in Date
            PROVE  Adjusted(event[e].delta)[d] \in Int
        <5>1. out_of_service[d] \in Int /\ event[e].delta \in Int
          BY <2>2 DEF TypeOK
        <5>2. Adjusted(event[e].delta)[d] \in {out_of_service[d], out_of_service[d] + event[e].delta}
          BY DEF Adjusted
        <5>3. QED
          BY <5>1, <5>2
      <4>3. \A d \in Date : Adjusted(event[e].delta)[d] >= 0
                             /\ claimed[d] + Adjusted(event[e].delta)[d] <= total_units
        BY <2>3 DEF Fits
      <4>4. \A d \in Date : Adjusted(event[e].delta)[d] \in 0..total_units
        BY <4>2, <4>3 DEF TypeOK
      <4>5. QED
        BY <4>1, <4>4 DEF Adjusted
    <3>3. applied' \in Seq(Event)
      BY <2>1, <3>1 DEF Apply, TypeOK
    <3>4. checkpoint' \in 0..MaxEvent
      BY <2>1, <3>1 DEF Apply, Event
    <3>5. QED
      BY <3>1, <3>2, <3>3, <3>4 DEF Apply, TypeOK, roomVars, outboxVars
  <2>4. CASE ~ Fits(Adjusted(event[e].delta))
    <3>1. Stop(p) /\ UNCHANGED <<today, roomVars, outboxVars, slots, claimed, late>>
      BY <1>10, <2>4 DEF ProcessEvent, e
    <3>2. QED
      BY <3>1 DEF Stop, TypeOK, roomVars, outboxVars
  <2>5. QED
    BY <2>3, <2>4
<1>11. ASSUME NEW d \in Date, Claim(d) \/ Release(d)
       PROVE  TypeOK'
  <2>1. claimed[d] \in 0..total_units /\ out_of_service[d] \in 0..total_units
    BY DEF TypeOK
  <2>2. claimed' \in [Date -> 0..total_units]
    <3>1. CASE Claim(d)
      <4>1. claimed[d] + 1 \in 0..total_units
        BY <3>1, <2>1 DEF Claim
      <4>2. QED
        BY <3>1, <4>1 DEF Claim, TypeOK
    <3>2. CASE Release(d)
      <4>1. claimed[d] - 1 \in 0..total_units
        BY <3>2, <2>1 DEF Release
      <4>2. QED
        BY <3>2, <4>1 DEF Release, TypeOK
    <3>3. QED
      BY <1>11, <3>1, <3>2
  <2>3. QED
    BY <1>11, <2>2 DEF Claim, Release, TypeOK, roomVars, outboxVars, projectorVars
<1>12. CASE UNCHANGED vars
  BY <1>12 DEF TypeOK, vars, roomVars, outboxVars, projectorVars
<1>13. QED
  BY <1>1, <1>2, <1>3, <1>4, <1>5, <1>6, <1>7, <1>8, <1>9, <1>10, <1>11, <1>12 DEF Next

-----------------------------------------------------------------------------
(* Rows, relays and log.                                                    *)
RowsInd == RowsSound /\ PublishedIffLogged /\ DeadOnlyAfterMax

(* Only changes of rooms and the relays touch what RowsInd is about.        *)
LEMMA RowsUntouched ==
  ASSUME RowsInd, UNCHANGED <<writing, event, outbox, attempts, log, relay, failures>>
  PROVE  RowsInd'
BY DEF RowsInd, RowsSound, PublishedIffLogged, DeadOnlyAfterMax, Committed

LEMMA ChangeKeepsRows ==
  ASSUME TypeOK, RowsInd, NEW r \in Room, RecordEvent(r) \/ CommitChange(r) \/ AbortChange(r)
  PROVE  RowsInd'
<1> USE EventAssumption DEF Event
<1>1. CASE RecordEvent(r)
  <2> DEFINE n == Len(event) + 1
  <2>1. /\ n \in Event /\ writing[r] = 0
        /\ writing' = [writing EXCEPT ![r] = n]
        /\ outbox' = [outbox EXCEPT ![n] = "inserted"]
        /\ UNCHANGED <<attempts, log, relay, failures>>
    BY <1>1 DEF RecordEvent
  <2>2. Len(event) \in Nat /\ Len(event') = n
    BY <1>1 DEF RecordEvent, TypeOK
  <2>3. outbox[n] = "absent" /\ outbox'[n] = "inserted"
    BY <2>1, <2>2 DEF RowsInd, RowsSound, TypeOK
  <2>4. \A e \in Event : e # n => outbox'[e] = outbox[e]
    BY <2>1 DEF TypeOK
  <2>5. \A q \in Room : q # r => writing'[q] = writing[q] /\ writing[q] # n
    <3>1. n # 0
      BY <2>2
    <3>2. \A q \in Room : writing[q] # n
      BY <2>3, <3>1 DEF RowsInd, RowsSound
    <3>3. \A q \in Room : q # r => writing'[q] = writing[q]
      BY <2>1 DEF TypeOK
    <3>4. QED
      BY <3>2, <3>3
  <2>6. writing'[r] = n
    BY <2>1 DEF TypeOK
  <2> HIDE DEF n
  <2>7. ASSUME NEW e \in Event, e > Len(event')
        PROVE  outbox'[e] = "absent"
    <3>1. e > Len(event) /\ e # n
      BY <2>2, <2>7 DEF n
    <3>2. QED
      BY <2>4, <3>1 DEF RowsInd, RowsSound
  <2>8. ASSUME NEW q \in Room, writing'[q] # 0
        PROVE  outbox'[writing'[q]] = "inserted"
    <3>1. CASE q = r
      BY <2>3, <2>6, <3>1
    <3>2. CASE q # r
      <4>1. writing'[q] = writing[q] /\ writing[q] # n
        BY <2>5, <3>2
      <4>2. writing[q] \in Event /\ outbox[writing[q]] = "inserted"
        BY <2>8, <4>1 DEF RowsInd, RowsSound, TypeOK
      <4>3. QED
        BY <2>4, <4>1, <4>2
    <3>3. QED
      BY <3>1, <3>2
  <2>9. \A q, s \in Room : writing'[q] = writing'[s] => writing'[q] = 0 \/ q = s
    BY <2>5, <2>6 DEF RowsInd, RowsSound
  <2>10. \A e \in Event : Committed(e) => Committed(e)'
    BY <2>3, <2>4 DEF Committed
  <2>11. RowsSound'
    BY <2>1, <2>7, <2>8, <2>9, <2>10 DEF RowsInd, RowsSound, TypeOK
  <2>12. PublishedIffLogged' /\ DeadOnlyAfterMax'
    BY <2>1, <2>3, <2>4 DEF RowsInd, PublishedIffLogged, DeadOnlyAfterMax
  <2>13. QED
    BY <2>11, <2>12 DEF RowsInd
<1>2. CASE CommitChange(r) \/ AbortChange(r)
  <2> DEFINE w == writing[r]
  <2>1. /\ w # 0 /\ w \in Event
        /\ writing' = [writing EXCEPT ![r] = 0]
        /\ UNCHANGED <<event, attempts, log, relay, failures>>
    BY <1>2 DEF CommitChange, AbortChange, TypeOK
  <2>2. outbox[w] = "inserted" /\ outbox'[w] \in {"pending", "absent"}
    BY <1>2, <2>1 DEF CommitChange, AbortChange, RowsInd, RowsSound, TypeOK
  <2>3. \A e \in Event : e # w => outbox'[e] = outbox[e]
    BY <1>2 DEF CommitChange, AbortChange, TypeOK
  <2>4. \A q \in Room : q # r => writing'[q] = writing[q] /\ writing[q] # w
    BY <2>1 DEF RowsInd, RowsSound, TypeOK
  <2>5. writing'[r] = 0
    BY <2>1 DEF TypeOK
  <2>6. ~ (w > Len(event))
    BY <2>1, <2>2 DEF RowsInd, RowsSound
  <2> HIDE DEF w
  <2>7. \A e \in Event : e > Len(event') => outbox'[e] = "absent"
    BY <2>1, <2>3, <2>6 DEF RowsInd, RowsSound
  <2>8. \A q \in Room : writing'[q] # 0 => outbox'[writing'[q]] = "inserted"
    BY <2>3, <2>4, <2>5 DEF RowsInd, RowsSound, TypeOK
  <2>9. \A q, s \in Room : writing'[q] = writing'[s] => writing'[q] = 0 \/ q = s
    BY <2>4, <2>5 DEF RowsInd, RowsSound
  <2>10. \A e \in Event : Committed(e) => Committed(e)'
    BY <2>2, <2>3 DEF Committed
  <2>11. RowsSound'
    BY <2>1, <2>7, <2>8, <2>9, <2>10 DEF RowsInd, RowsSound, TypeOK
  <2>12. PublishedIffLogged' /\ DeadOnlyAfterMax'
    BY <2>1, <2>2, <2>3 DEF RowsInd, PublishedIffLogged, DeadOnlyAfterMax
  <2>13. QED
    BY <2>11, <2>12 DEF RowsInd
<1>3. QED
  BY <1>1, <1>2

LEMMA RelayKeepsRows ==
  ASSUME TypeOK, RowsInd, NEW p \in Relay,
         ReadOutbox(p) \/ Promote(p) \/ DeadLetter(p) \/ RelayCrash(p)
  PROVE  RowsInd'
<1> USE EventAssumption
<1>1. CASE ReadOutbox(p)
  <2>1. \A q \in Relay : \A x \in relay'[q] : Committed(x.row) /\ x.attempts <= attempts[x.row]
    <3>1. \A x \in relay'[p] : Committed(x.row) /\ x.attempts <= attempts[x.row]
      BY <1>1 DEF ReadOutbox, pending, Committed, TypeOK
    <3>2. \A q \in Relay : q # p => relay'[q] = relay[q]
      BY <1>1 DEF ReadOutbox, TypeOK
    <3>3. QED
      BY <3>1, <3>2 DEF RowsInd, RowsSound
  <2>2. QED
    BY <1>1, <2>1 DEF ReadOutbox, roomVars, RowsInd, RowsSound, PublishedIffLogged,
                      DeadOnlyAfterMax, Committed
<1>2. CASE Promote(p)
  <2> DEFINE x == Oldest(relay[p])
  <2>1. x \in relay[p] /\ x.row \in Event /\ Committed(x.row)
    BY <1>2, RelayRow DEF Promote, RowsInd, RowsSound
  <2>2. /\ log' = log \cup {x.row}
        /\ outbox' = [outbox EXCEPT ![x.row] = IF @ = "pending" THEN "published" ELSE @]
        /\ relay' = [relay EXCEPT ![p] = @ \ {x}]
        /\ UNCHANGED <<writing, event, attempts, failures>>
    BY <1>2 DEF Promote, roomVars
  <2> HIDE DEF x
  <2>3. outbox'[x.row] \notin {"absent", "inserted", "pending"}
    BY <2>1, <2>2 DEF Committed, TypeOK
  <2>4. \A e \in Event : e # x.row => outbox'[e] = outbox[e]
    BY <2>2 DEF TypeOK
  <2>5. outbox'[x.row] # outbox[x.row] => outbox'[x.row] = "published"
    BY <2>1, <2>2 DEF TypeOK
  <2>6. \A e \in Event : Committed(e) => Committed(e)'
    BY <2>1, <2>3, <2>4 DEF Committed
  <2>7. RowsSound'
    <3>1. \A e \in Event : e > Len(event') => outbox'[e] = "absent"
      BY <2>1, <2>2, <2>4 DEF RowsInd, RowsSound, Committed
    <3>2. \A r \in Room : writing'[r] # 0 => outbox'[writing'[r]] = "inserted"
      BY <2>1, <2>2, <2>4 DEF RowsInd, RowsSound, Committed, TypeOK, Event
    <3>3. \A q \in Relay : relay'[q] \subseteq relay[q] /\ relay[q] \subseteq [row : Event, attempts : 0..MaxFailures]
      BY <2>2 DEF TypeOK
    <3>4. ASSUME NEW e \in log'
          PROVE  Committed(e)'
      <4>1. e \in Event /\ Committed(e)
        BY <2>1, <2>2 DEF RowsInd, RowsSound, TypeOK
      <4>2. QED
        BY <2>6, <4>1
    <3>5. ASSUME NEW q \in Relay, NEW y \in relay'[q]
          PROVE  Committed(y.row)' /\ y.attempts <= attempts'[y.row]
      <4>1. y.row \in Event /\ Committed(y.row) /\ y.attempts <= attempts[y.row]
        BY <3>3, <3>5 DEF RowsInd, RowsSound
      <4>2. QED
        BY <2>2, <2>6, <4>1
    <3>6. QED
      BY <2>2, <3>1, <3>2, <3>4, <3>5 DEF RowsInd, RowsSound
  <2>8. PublishedIffLogged'
    BY <2>2, <2>3, <2>4 DEF RowsInd, PublishedIffLogged
  <2>9. DeadOnlyAfterMax'
    BY <2>2, <2>4, <2>5 DEF RowsInd, DeadOnlyAfterMax
  <2>10. QED
    BY <2>7, <2>8, <2>9 DEF RowsInd
<1>3. CASE DeadLetter(p)
  <2> DEFINE x == Oldest(relay[p])
  <2>1. /\ x \in relay[p] /\ x.row \in Event /\ x.attempts \in Nat
        /\ Committed(x.row) /\ x.attempts <= attempts[x.row]
    BY <1>3, RelayRow DEF DeadLetter, RowsInd, RowsSound
  <2>2. /\ failures' = failures + 1
        /\ attempts' = [attempts EXCEPT ![x.row] = @ + 1]
        /\ outbox' = [outbox EXCEPT ![x.row] =
                        IF @ = "pending" /\ x.attempts + 1 >= max_attempts THEN "dead_lettered" ELSE @]
        /\ relay' = [relay EXCEPT ![p] = @ \ {x}]
        /\ UNCHANGED <<writing, event, log>>
    BY <1>3 DEF DeadLetter, roomVars
  <2> HIDE DEF x
  <2>3. \A e \in Event : e # x.row => outbox'[e] = outbox[e] /\ attempts'[e] = attempts[e]
    BY <2>2 DEF TypeOK
  <2>4. attempts'[x.row] = attempts[x.row] + 1
    BY <2>1, <2>2 DEF TypeOK
  <2>11. ASSUME NEW e \in Event
         PROVE  /\ attempts[e] \in Nat /\ attempts'[e] \in Nat
                /\ attempts[e] <= attempts'[e] /\ attempts'[e] <= attempts[e] + 1
    <3>1. attempts[e] \in Nat
      BY DEF TypeOK
    <3>2. attempts'[e] = attempts[e] \/ attempts'[e] = attempts[e] + 1
      BY <2>3, <2>4
    <3>3. QED
      BY <3>1, <3>2
  <2>5. \/ outbox'[x.row] = outbox[x.row]
        \/ /\ outbox[x.row] = "pending" /\ outbox'[x.row] = "dead_lettered"
           /\ x.attempts + 1 >= max_attempts
    BY <2>1, <2>2 DEF TypeOK
  <2>6. \A e \in Event : Committed(e) => Committed(e)'
    BY <2>3, <2>5 DEF Committed
  <2>7. RowsSound'
    <3>1. \A e \in Event : e > Len(event') => outbox'[e] = "absent"
      BY <2>1, <2>2, <2>3 DEF RowsInd, RowsSound, Committed
    <3>2. \A r \in Room : writing'[r] # 0 => outbox'[writing'[r]] = "inserted"
      BY <2>1, <2>2, <2>3 DEF RowsInd, RowsSound, Committed, TypeOK, Event
    <3>3. \A q \in Relay : relay'[q] \subseteq relay[q] /\ relay[q] \subseteq [row : Event, attempts : 0..MaxFailures]
      BY <2>2 DEF TypeOK
    <3>4. \A e \in log' : Committed(e)'
      BY <2>2, <2>6 DEF RowsInd, RowsSound, TypeOK
    <3>5. ASSUME NEW q \in Relay, NEW y \in relay'[q]
          PROVE  Committed(y.row)' /\ y.attempts <= attempts'[y.row]
      <4>1. y.row \in Event /\ y.attempts \in Nat /\ Committed(y.row) /\ y.attempts <= attempts[y.row]
        BY <3>3, <3>5 DEF RowsInd, RowsSound
      <4>2. attempts[y.row] \in Nat /\ attempts'[y.row] \in Nat
        BY <2>11, <4>1
      <4>3. QED
        BY <2>6, <2>11, <4>1, <4>2
    <3>6. ASSUME NEW e \in Event
          PROVE  attempts'[e] <= failures'
      <4>1. attempts[e] <= failures /\ failures \in Nat
        BY DEF RowsInd, RowsSound, TypeOK
      <4>2. QED
        BY <2>2, <2>11, <4>1
    <3>7. QED
      BY <2>2, <3>1, <3>2, <3>4, <3>5, <3>6 DEF RowsInd, RowsSound
  <2>8. PublishedIffLogged'
    BY <2>2, <2>3, <2>5 DEF RowsInd, PublishedIffLogged
  <2>9. ASSUME NEW e \in Event, outbox'[e] = "dead_lettered"
        PROVE  attempts'[e] >= max_attempts
    <3>1. CASE outbox[e] = "dead_lettered"
      <4>1. attempts[e] >= max_attempts
        BY <3>1 DEF RowsInd, DeadOnlyAfterMax
      <4>2. QED
        BY <2>11, <4>1
    <3>2. CASE outbox[e] # "dead_lettered"
      <4>1. e = x.row /\ x.attempts + 1 >= max_attempts
        BY <2>3, <2>5, <2>9, <3>2
      <4>2. attempts[x.row] \in Nat
        BY <2>1, <2>11
      <4>3. QED
        BY <2>1, <2>4, <4>1, <4>2
    <3>3. QED
      BY <3>1, <3>2
  <2>10. QED
    BY <2>7, <2>8, <2>9 DEF RowsInd, DeadOnlyAfterMax
<1>4. CASE RelayCrash(p)
  <2>1. \A q \in Relay : relay'[q] \subseteq relay[q]
    BY <1>4 DEF RelayCrash, TypeOK
  <2>2. QED
    BY <1>4, <2>1 DEF RelayCrash, roomVars, RowsInd, RowsSound, PublishedIffLogged,
                      DeadOnlyAfterMax, Committed
<1>5. QED
  BY <1>1, <1>2, <1>3, <1>4

LEMMA RowsStep ==
  ASSUME TypeOK, RowsInd, [Next]_vars
  PROVE  RowsInd'
<1>1. CASE \E r \in Room : RecordEvent(r) \/ CommitChange(r) \/ AbortChange(r)
  BY <1>1, ChangeKeepsRows
<1>2. CASE \E p \in Relay : ReadOutbox(p) \/ Promote(p) \/ DeadLetter(p) \/ RelayCrash(p)
  BY <1>2, RelayKeepsRows
<1>3. CASE \/ NextDay \/ InitializeHorizon \/ UNCHANGED vars
           \/ \E p \in Projector : ReadEvents(p) \/ ProcessEvent(p) \/ ProjectorCrash(p)
           \/ \E d \in Date : Claim(d) \/ Release(d)
  <2>1. UNCHANGED <<writing, event, outbox, attempts, log, relay, failures>>
    BY <1>3 DEF NextDay, InitializeHorizon, ReadEvents, ProcessEvent, ProjectorCrash, Claim,
                Release, vars, roomVars, outboxVars
  <2>2. QED
    BY <2>1, RowsUntouched
<1>4. QED
  BY <1>1, <1>2, <1>3 DEF Next

-----------------------------------------------------------------------------
(* The projector and what it has folded.                                    *)
CursorInd == CursorSound /\ NothingPassed /\ SkippedOnlyIfLate

LEMMA CursorUntouched ==
  ASSUME CursorInd, UNCHANGED <<log, checkpoint, run, applied, late>>
  PROVE  CursorInd'
BY DEF CursorInd, CursorSound, NothingPassed, SkippedOnlyIfLate, Folded

LEMMA PromoteKeepsCursor ==
  ASSUME TypeOK, CursorInd, NEW p \in Relay, Promote(p)
  PROVE  CursorInd'
<1> DEFINE e == Oldest(relay[p]).row
<1>1. /\ log' = log \cup {e}
      /\ late' = IF e \notin log /\ PassedBy(e) THEN late \cup {e} ELSE late
      /\ UNCHANGED <<checkpoint, run, applied>>
  BY DEF Promote, projectorVars
<1>2. e \in Event /\ late \subseteq late'
  BY <1>1, RelayRow DEF Promote
<1> HIDE DEF e
<1>3. CursorSound'
  BY <1>1 DEF CursorInd, CursorSound
<1>4. CASE e \in log
  <2>1. log' = log /\ late' = late
    BY <1>1, <1>4
  <2>2. QED
    BY <1>1, <2>1, CursorUntouched
<1>5. CASE e \notin log
  <2>1. ASSUME PassedBy(e)
        PROVE  e \in late'
    BY <1>1, <1>5, <2>1
  <2>2. NothingPassed'
    <3>1. ASSUME NEW q \in Projector, NEW x \in run[q], NEW f \in log', f < x
          PROVE  f \in run[q] \/ f \in late' \/ Folded(f)
      <4>1. CASE f = e
        <5>1. x > e
          BY <1>2, <3>1, <4>1 DEF TypeOK, Event
        <5>2. QED
          BY <2>1, <4>1, <5>1 DEF PassedBy
      <4>2. CASE f # e
        BY <1>1, <1>2, <3>1, <4>2 DEF CursorInd, NothingPassed
      <4>3. QED
        BY <4>1, <4>2
    <3>2. QED
      BY <1>1, <3>1 DEF NothingPassed, Folded
  <2>3. SkippedOnlyIfLate'
    <3>1. ASSUME NEW f \in log', f <= checkpoint
          PROVE  f \in late' \/ Folded(f)
      <4>1. CASE f = e
        <5>1. checkpoint \in Nat /\ e \in Nat /\ e # 0
          BY <1>2, EventAssumption DEF TypeOK, Event
        <5>2. checkpoint # e
          BY <1>5, <5>1 DEF CursorInd, CursorSound
        <5>3. checkpoint > e
          BY <3>1, <4>1, <5>1, <5>2
        <5>4. QED
          BY <2>1, <4>1, <5>3 DEF PassedBy
      <4>2. CASE f # e
        BY <1>1, <1>2, <3>1, <4>2 DEF CursorInd, SkippedOnlyIfLate, Folded
      <4>3. QED
        BY <4>1, <4>2
    <3>2. QED
      BY <1>1, <3>1 DEF SkippedOnlyIfLate, Folded
  <2>4. QED
    BY <1>3, <2>2, <2>3 DEF CursorInd
<1>6. QED
  BY <1>4, <1>5

LEMMA AppendFolds ==
  ASSUME TypeOK, NEW e \in Event, applied' = Append(applied, e)
  PROVE  /\ \A f : Folded(f)' <=> Folded(f) \/ f = e
         /\ \A i \in DOMAIN applied' : Folded(applied'[i]) \/ applied'[i] = e
<1>1. applied \in Seq(Event)
  BY DEF TypeOK
<1>2. /\ DOMAIN applied = 1..Len(applied) /\ Len(applied) \in Nat
      /\ DOMAIN applied' = 1..(Len(applied) + 1)
      /\ applied'[Len(applied) + 1] = e
      /\ \A i \in 1..Len(applied) : applied'[i] = applied[i]
  BY <1>1, AppendProperties, LenProperties
<1>3. ASSUME NEW f, Folded(f)'
      PROVE  Folded(f) \/ f = e
  <2>1. PICK i \in 1..(Len(applied) + 1) : applied'[i] = f
    BY <1>2, <1>3 DEF Folded
  <2>2. i \in 1..Len(applied) \/ i = Len(applied) + 1
    BY <1>2
  <2>3. QED
    BY <1>2, <2>1, <2>2 DEF Folded
<1>4. ASSUME NEW f, Folded(f) \/ f = e
      PROVE  Folded(f)'
  <2>1. CASE Folded(f)
    <3>1. PICK i \in 1..Len(applied) : applied[i] = f
      BY <1>2, <2>1 DEF Folded
    <3>2. i \in 1..(Len(applied) + 1) /\ applied'[i] = f
      BY <1>2, <3>1
    <3>3. QED
      BY <1>2, <3>2 DEF Folded
  <2>2. CASE f = e
    <3>1. Len(applied) + 1 \in 1..(Len(applied) + 1)
      BY <1>2
    <3>2. QED
      BY <1>2, <2>2, <3>1 DEF Folded
  <2>3. QED
    BY <1>4, <2>1, <2>2
<1>5. ASSUME NEW i \in DOMAIN applied'
      PROVE  Folded(applied'[i]) \/ applied'[i] = e
  <2>1. i \in 1..Len(applied) \/ i = Len(applied) + 1
    BY <1>2
  <2>2. QED
    BY <1>2, <2>1 DEF Folded
<1>6. QED
  BY <1>3, <1>4, <1>5

LEMMA ProjectorKeepsCursor ==
  ASSUME TypeOK, CursorInd, NEW p \in Projector,
         ReadEvents(p) \/ ProcessEvent(p) \/ ProjectorCrash(p)
  PROVE  CursorInd'
<1> USE EventAssumption DEF Event
<1>1. CASE ReadEvents(p)
  <2>1. /\ run' = [run EXCEPT ![p] = pending_events]
        /\ UNCHANGED <<log, checkpoint, applied, late>>
    BY <1>1 DEF ReadEvents, outboxVars
  <2>2. run'[p] = pending_events /\ \A q \in Projector : q # p => run'[q] = run[q]
    BY <2>1 DEF TypeOK
  <2>3. CursorSound'
    BY <2>1, <2>2 DEF CursorInd, CursorSound, pending_events
  <2>4. ASSUME NEW e \in log, e \notin pending_events
        PROVE  e \in late \/ Folded(e)
    <3>1. e \in Nat /\ checkpoint \in Nat /\ ~ (e > checkpoint)
      BY <2>4 DEF pending_events, TypeOK
    <3>2. e <= checkpoint
      BY <3>1
    <3>3. QED
      BY <3>2 DEF CursorInd, SkippedOnlyIfLate, Folded
  <2>5. NothingPassed'
    BY <2>1, <2>2, <2>4 DEF CursorInd, NothingPassed, Folded
  <2>6. SkippedOnlyIfLate'
    BY <2>1 DEF CursorInd, SkippedOnlyIfLate
  <2>7. QED
    BY <2>3, <2>5, <2>6 DEF CursorInd
<1>2. ASSUME \A q \in Projector : run'[q] = run[q] \/ run'[q] = {},
             UNCHANGED <<log, checkpoint, applied, late>>
      PROVE  CursorInd'
  BY <1>2 DEF CursorInd, CursorSound, NothingPassed, SkippedOnlyIfLate, Folded
<1>3. CASE ProcessEvent(p)
  <2> DEFINE e == Min(run[p])
  <2>1. e \in run[p] /\ e \in log /\ e \in Event /\ \A y \in run[p] : e <= y
    <3>1. run[p] \in SUBSET (1..MaxEvent) /\ run[p] # {}
      BY <1>3 DEF ProcessEvent, TypeOK
    <3>2. QED
      BY <3>1, MinIsLeast DEF CursorInd, CursorSound
  <2> HIDE DEF e
  <2>2. CASE Fits(Adjusted(event[e].delta))
    <3>1. /\ run' = [run EXCEPT ![p] = @ \ {e}] /\ checkpoint' = e
          /\ applied' = Append(applied, e) /\ log' = log /\ late' = late
      BY <1>3, <2>2 DEF ProcessEvent, Apply, outboxVars, e
    <3>2. \A f : Folded(f)' <=> Folded(f) \/ f = e
      BY <2>1, <3>1, AppendFolds
    <3>3. run'[p] = run[p] \ {e} /\ \A q \in Projector : q # p => run'[q] = run[q]
      BY <3>1 DEF TypeOK
    <3>4. CursorSound'
      <4>1. \A i \in DOMAIN applied' : applied'[i] \in log
        <5>1. \A f : Folded(f) => f \in log
          BY DEF CursorInd, CursorSound, Folded
        <5>2. \A i \in DOMAIN applied' : Folded(applied'[i]) \/ applied'[i] = e
          BY <2>1, <3>1, AppendFolds
        <5>3. QED
          BY <2>1, <5>1, <5>2
      <4>2. QED
        BY <2>1, <3>1, <3>3, <4>1 DEF CursorInd, CursorSound
    <3>5. NothingPassed'
      <4>1. ASSUME NEW q \in Projector, NEW x \in run'[q], NEW f \in log, f < x
            PROVE  f \in run'[q] \/ f \in late \/ Folded(f)'
        <5>1. x \in run[q]
          BY <3>3, <4>1
        <5>2. f \in run[q] \/ f \in late \/ Folded(f)
          BY <4>1, <5>1 DEF CursorInd, NothingPassed
        <5>3. QED
          BY <3>2, <3>3, <5>2
      <4>2. QED
        BY <3>1, <4>1 DEF NothingPassed
    <3>6. SkippedOnlyIfLate'
      <4>1. ASSUME NEW f \in log, f <= e
            PROVE  f \in late \/ Folded(f)'
        <5>1. CASE f = e
          BY <3>2, <5>1
        <5>2. CASE f # e
          <6>1. f \in Nat /\ e \in Nat /\ f < e
            BY <2>1, <4>1, <5>2 DEF TypeOK
          <6>2. f \notin run[p]
            BY <2>1, <6>1
          <6>3. f \in late \/ Folded(f)
            BY <2>1, <6>1, <6>2 DEF CursorInd, NothingPassed
          <6>4. QED
            BY <3>2, <6>3
        <5>3. QED
          BY <5>1, <5>2
      <4>2. QED
        BY <3>1, <4>1 DEF SkippedOnlyIfLate, Folded
    <3>7. QED
      BY <3>4, <3>5, <3>6 DEF CursorInd
  <2>3. CASE ~ Fits(Adjusted(event[e].delta))
    <3>1. run' = [run EXCEPT ![p] = {}] /\ UNCHANGED <<log, checkpoint, applied, late>>
      BY <1>3, <2>3 DEF ProcessEvent, Stop, outboxVars, e
    <3>2. \A q \in Projector : run'[q] = run[q] \/ run'[q] = {}
      BY <3>1 DEF TypeOK
    <3>3. QED
      BY <1>2, <3>1, <3>2
  <2>4. QED
    BY <2>2, <2>3
<1>4. CASE ProjectorCrash(p)
  <2>1. run' = [run EXCEPT ![p] = {}] /\ UNCHANGED <<log, checkpoint, applied, late>>
    BY <1>4 DEF ProjectorCrash, outboxVars
  <2>2. \A q \in Projector : run'[q] = run[q] \/ run'[q] = {}
    BY <2>1 DEF TypeOK
  <2>3. QED
    BY <1>2, <2>1, <2>2
<1>5. QED
  BY <1>1, <1>3, <1>4

LEMMA CursorStep ==
  ASSUME TypeOK, CursorInd, [Next]_vars
  PROVE  CursorInd'
<1>1. CASE \E p \in Relay : Promote(p)
  BY <1>1, PromoteKeepsCursor
<1>2. CASE \E p \in Projector : ReadEvents(p) \/ ProcessEvent(p) \/ ProjectorCrash(p)
  BY <1>2, ProjectorKeepsCursor
<1>3. CASE \/ NextDay \/ InitializeHorizon \/ UNCHANGED vars
           \/ \E r \in Room : RecordEvent(r) \/ CommitChange(r) \/ AbortChange(r)
           \/ \E p \in Relay : ReadOutbox(p) \/ DeadLetter(p) \/ RelayCrash(p)
           \/ \E d \in Date : Claim(d) \/ Release(d)
  <2>1. UNCHANGED <<log, checkpoint, run, applied, late>>
    BY <1>3 DEF NextDay, InitializeHorizon, RecordEvent, CommitChange, AbortChange, ReadOutbox,
                DeadLetter, RelayCrash, Claim, Release, vars, outboxVars, projectorVars
  <2>2. QED
    BY <2>1, CursorUntouched
<1>4. QED
  BY <1>1, <1>2, <1>3 DEF Next

-----------------------------------------------------------------------------
(* The theorems.                                                            *)

(* The inductive invariant of rows, log and cursor. *)
THEOREM ProjectionSound == Spec => []Ind
<1>1. Ind /\ [Next]_vars => Ind'
  <2> SUFFICES ASSUME Ind, [Next]_vars
               PROVE  Ind'
    OBVIOUS
  <2>1. TypeOK /\ RowsInd /\ CursorInd
    BY DEF Ind, RowsInd, CursorInd
  <2>2. TypeOK'
    BY <2>1, TypeStep DEF RowsInd, CursorInd
  <2>3. RowsInd' /\ CursorInd'
    BY <2>1, RowsStep, CursorStep
  <2>4. QED
    BY <2>2, <2>3 DEF Ind, RowsInd, CursorInd
<1>2. QED
  BY <1>1, InitInd, PTL DEF Spec

(* Every table, list and counter is well-formed; no slot is adjusted below   *)
(* zero or above its capacity.                                               *)
THEOREM ProjectionTypeCorrect == Spec => []TypeOK
<1>1. Ind => TypeOK
  BY DEF Ind
<1>2. QED
  BY <1>1, ProjectionSound, PTL

(* _promote(): a row is published exactly with its event, whatever relays    *)
(* overlap, fail or die.                                                     *)
THEOREM PublishedWithEvent == Spec => []PublishedIffLogged
<1>1. Ind => PublishedIffLogged
  BY DEF Ind
<1>2. QED
  BY <1>1, ProjectionSound, PTL

(* _dead_letter(): no row is given up before max_attempts failures.          *)
THEOREM GivenUpOnlyAfterMax == Spec => []DeadOnlyAfterMax
<1>1. Ind => DeadOnlyAfterMax
  BY DEF Ind
<1>2. QED
  BY <1>1, ProjectionSound, PTL

(* process_batch(): refusals, crashes and overlapping runs cost no event;    *)
(* only one that was promoted late is passed over.                           *)
THEOREM OnlyLateEventsSkipped == Spec => []SkippedOnlyIfLate
<1>1. Ind => SkippedOnlyIfLate
  BY DEF Ind
<1>2. QED
  BY <1>1, ProjectionSound, PTL

-----------------------------------------------------------------------------
(* One projector folds events at most once and in order.                    *)
InOrder ==
  /\ \A i \in DOMAIN applied : applied[i] <= checkpoint
  /\ \A p \in Projector : \A x \in run[p] : x > checkpoint

LEMMA InOrderStep ==
  ASSUME \A p, q \in Projector : p = q,
         Ind, InOrder, [Next]_vars
  PROVE  InOrder'
<1> USE EventAssumption DEF Event
<1>1. CASE \E p \in Projector : ReadEvents(p)
  <2>1. PICK p \in Projector : ReadEvents(p)
    BY <1>1
  <2>2. run'[p] = pending_events /\ UNCHANGED <<checkpoint, applied>>
    BY <2>1 DEF ReadEvents, Ind, TypeOK
  <2>3. QED
    BY <2>2 DEF InOrder, pending_events
<1>2. CASE \E p \in Projector : ProcessEvent(p)
  <2>1. PICK p \in Projector : ProcessEvent(p)
    BY <1>2
  <2> DEFINE e == Min(run[p])
  <2>2. e \in run[p] /\ e \in Event /\ (\A y \in run[p] : e <= y) /\ run[p] \subseteq Nat
    <3>1. run[p] \in SUBSET (1..MaxEvent) /\ run[p] # {}
      BY <2>1 DEF ProcessEvent, Ind, TypeOK
    <3>2. QED
      BY <3>1, MinIsLeast
  <2> HIDE DEF e
  <2>3. CASE Fits(Adjusted(event[e].delta))
    <3>1. /\ run' = [run EXCEPT ![p] = @ \ {e}] /\ checkpoint' = e
          /\ applied' = Append(applied, e)
      BY <2>1, <2>3 DEF ProcessEvent, Apply, e
    <3>2. \A i \in DOMAIN applied' : Folded(applied'[i]) \/ applied'[i] = e
      BY <2>2, <3>1, AppendFolds DEF Ind
    <3>3. \A f : Folded(f) => f <= e
      <4>1. ASSUME NEW f, Folded(f)
            PROVE  f <= e
        <5>1. PICK i \in DOMAIN applied : applied[i] = f
          BY <4>1 DEF Folded
        <5>2. f \in log /\ f <= checkpoint /\ checkpoint < e
          BY <2>2, <5>1 DEF InOrder, Ind, CursorSound
        <5>3. f \in Nat /\ checkpoint \in Nat /\ e \in Nat
          BY <2>2, <5>2 DEF Ind, TypeOK
        <5>4. QED
          BY <5>2, <5>3
      <4>2. QED
        BY <4>1
    <3>4. \A i \in DOMAIN applied' : applied'[i] <= checkpoint'
      <4>1. e <= e
        BY <2>2
      <4>2. QED
        BY <3>1, <3>2, <3>3, <4>1
    <3>5. run'[p] = run[p] \ {e}
      BY <3>1 DEF Ind, TypeOK
    <3>6. \A x \in run'[p] : x > checkpoint'
      BY <2>2, <3>1, <3>5
    <3>7. QED
      BY <3>4, <3>6 DEF InOrder
  <2>4. CASE ~ Fits(Adjusted(event[e].delta))
    <3>1. run' = [run EXCEPT ![p] = {}] /\ UNCHANGED <<checkpoint, applied>>
      BY <2>1, <2>4 DEF ProcessEvent, Stop, e
    <3>2. QED
      BY <3>1 DEF InOrder, Ind, TypeOK
  <2>5. QED
    BY <2>3, <2>4
<1>3. CASE \E p \in Projector : ProjectorCrash(p)
  BY <1>3 DEF ProjectorCrash, InOrder, Ind, TypeOK
<1>4. CASE \/ NextDay \/ InitializeHorizon \/ UNCHANGED vars
           \/ \E r \in Room : RecordEvent(r) \/ CommitChange(r) \/ AbortChange(r)
           \/ \E p \in Relay : ReadOutbox(p) \/ Promote(p) \/ DeadLetter(p) \/ RelayCrash(p)
           \/ \E d \in Date : Claim(d) \/ Release(d)
  <2>1. UNCHANGED <<checkpoint, run, applied>>
    BY <1>4 DEF NextDay, InitializeHorizon, RecordEvent, CommitChange, AbortChange, ReadOutbox,
                Promote, DeadLetter, RelayCrash, Claim, Release, vars, projectorVars
  <2>2. QED
    BY <2>1 DEF InOrder
<1>5. QED
  BY <1>1, <1>2, <1>3, <1>4 DEF Next

LEMMA MapsToDelivery ==
  ASSUME \A p, q \in Projector : p = q,
         Ind, InOrder, [Next]_vars
  PROVE  [Delivery!Next]_(Delivery!vars)
<1> DEFINE recorded == {e \in Event : outbox[e] \notin {"absent", "inserted"}}
<1>1. CASE \E r \in Room : CommitChange(r)
  <2>1. PICK r \in Room : CommitChange(r)
    BY <1>1
  <2>2. PICK w \in Event : w = writing[r]
    BY <2>1 DEF CommitChange, Ind, TypeOK, Event
  <2>3. outbox[w] = "inserted" /\ outbox' = [outbox EXCEPT ![w] = "pending"]
    BY <2>1, <2>2 DEF CommitChange, Ind, RowsSound
  <2>4. w \notin recorded /\ recorded' = recorded \cup {w}
    BY <2>3 DEF Ind, TypeOK
  <2>5. applied' = applied
    BY <2>1 DEF CommitChange, projectorVars
  <2>6. Delivery!Record(w)
    BY <2>4, <2>5 DEF Delivery!Record
  <2>7. QED
    BY <2>6 DEF Delivery!Next
<1>2. CASE \E p \in Projector : ProcessEvent(p)
  <2>1. PICK p \in Projector : ProcessEvent(p)
    BY <1>2
  <2> DEFINE e == Min(run[p])
  <2>2. e \in run[p] /\ e \in Event /\ e \in recorded
    <3>1. run[p] \in SUBSET Event /\ run[p] # {}
      BY <2>1 DEF ProcessEvent, Ind, TypeOK
    <3>2. e \in run[p] /\ e \in Event
      BY <3>1, MinIsLeast
    <3>3. QED
      BY <3>2 DEF Ind, CursorSound, RowsSound, Committed
  <2>3. outbox' = outbox
    BY <2>1 DEF ProcessEvent, outboxVars
  <2>4. \A i \in DOMAIN applied : applied[i] < e
    <3>1. ASSUME NEW i \in DOMAIN applied
          PROVE  applied[i] < e
      <4>1. applied[i] <= checkpoint /\ checkpoint < e
        BY <2>2 DEF InOrder, Ind, TypeOK, Event
      <4>2. applied[i] \in Nat /\ checkpoint \in Nat /\ e \in Nat
        BY <2>2, EventAssumption DEF Ind, TypeOK, CursorSound, Event
      <4>3. QED
        BY <4>1, <4>2
    <3>2. QED
      BY <3>1
  <2> HIDE DEF e
  <2>5. CASE Fits(Adjusted(event[e].delta))
    <3>1. applied' = Append(applied, e)
      BY <2>1, <2>5 DEF ProcessEvent, Apply, e
    <3>2. Delivery!Deliver(e)
      BY <2>2, <2>3, <2>4, <3>1 DEF Delivery!Deliver
    <3>3. QED
      BY <2>2, <3>2 DEF Delivery!Next
  <2>6. CASE ~ Fits(Adjusted(event[e].delta))
    <3>1. applied' = applied
      BY <2>1, <2>6 DEF ProcessEvent, Stop, e
    <3>2. QED
      BY <2>3, <3>1 DEF Delivery!vars
  <2>7. QED
    BY <2>5, <2>6
<1>3. ASSUME recorded' = recorded, applied' = applied
      PROVE  UNCHANGED Delivery!vars
  BY <1>3 DEF Delivery!vars
<1>4. ASSUME NEW r \in Room, RecordEvent(r)
      PROVE  recorded' = recorded /\ applied' = applied
  <2>1. /\ Len(event) + 1 \in Event
        /\ outbox' = [outbox EXCEPT ![Len(event) + 1] = "inserted"]
        /\ applied' = applied
    BY <1>4 DEF RecordEvent, projectorVars
  <2>2. Len(event) + 1 > Len(event)
    BY DEF Ind, TypeOK
  <2>3. outbox[Len(event) + 1] = "absent"
    BY <2>1, <2>2 DEF Ind, RowsSound
  <2>4. QED
    BY <2>1, <2>3 DEF Ind, TypeOK
<1>5. ASSUME NEW r \in Room, AbortChange(r)
      PROVE  recorded' = recorded /\ applied' = applied
  <2>1. outbox[writing[r]] = "inserted"
    BY <1>5 DEF AbortChange, Ind, RowsSound
  <2>2. QED
    BY <1>5, <2>1 DEF AbortChange, projectorVars, Ind, TypeOK
<1>6. ASSUME NEW p \in Relay, Promote(p)
      PROVE  recorded' = recorded /\ applied' = applied
  <2> DEFINE e == Oldest(relay[p]).row
  <2>1. e \in recorded
    BY <1>6, RelayRow DEF Promote, Ind, RowsSound, Committed
  <2>2. outbox' = [outbox EXCEPT ![e] = IF @ = "pending" THEN "published" ELSE @]
    BY <1>6 DEF Promote
  <2> HIDE DEF e
  <2>3. recorded' = recorded
    BY <2>1, <2>2 DEF Ind, TypeOK
  <2>4. QED
    BY <1>6, <2>3 DEF Promote, projectorVars
<1>7. ASSUME NEW p \in Relay, DeadLetter(p)
      PROVE  recorded' = recorded /\ applied' = applied
  <2> DEFINE x == Oldest(relay[p])
  <2>1. x.row \in recorded
    BY <1>7, RelayRow DEF DeadLetter, Ind, RowsSound, Committed
  <2>2. outbox' = [outbox EXCEPT ![x.row] =
                     IF @ = "pending" /\ x.attempts + 1 >= max_attempts THEN "dead_lettered" ELSE @]
    BY <1>7 DEF DeadLetter
  <2> HIDE DEF x
  <2>3. recorded' = recorded
    BY <2>1, <2>2 DEF Ind, TypeOK
  <2>4. QED
    BY <1>7, <2>3 DEF DeadLetter, projectorVars
<1>8. CASE \/ NextDay \/ InitializeHorizon \/ UNCHANGED vars
           \/ \E p \in Relay : ReadOutbox(p) \/ RelayCrash(p)
           \/ \E p \in Projector : ReadEvents(p) \/ ProjectorCrash(p)
           \/ \E d \in Date : Claim(d) \/ Release(d)
  <2>1. outbox' = outbox /\ applied' = applied
    BY <1>8 DEF NextDay, InitializeHorizon, ReadOutbox, RelayCrash, ReadEvents, ProjectorCrash,
                Claim, Release, vars, outboxVars, projectorVars
  <2>2. QED
    BY <1>3, <2>1
<1>9. QED
  BY <1>1, <1>2, <1>3, <1>4, <1>5, <1>6, <1>7, <1>8 DEF Next

(* What a single projector folds is a delivery of the recorded changes: each *)
(* at most once and in the order of their times, through every crash.        *)
THEOREM ImplementsDelivery ==
  ASSUME \A p, q \in Projector : p = q
  PROVE  Spec => DeliverySpec
<1>1. Init => InOrder /\ Delivery!Init
  BY DEF Init, InOrder, Delivery!Init
<1>2. Ind /\ InOrder /\ [Next]_vars => InOrder' /\ [Delivery!Next]_(Delivery!vars)
  BY InOrderStep, MapsToDelivery
<1>3. QED
  BY <1>1, <1>2, ProjectionSound, PTL DEF Spec, DeliverySpec, Delivery!Spec

-----------------------------------------------------------------------------
(* What the slots say, in events: those that took a room out, less those    *)
(* that put one back.  The slots have folded the events applied, the rooms  *)
(* out are what the committed events make them.                             *)
Net(ev, S) == Cardinality({e \in S : ev[e].delta = 1}) - Cardinality({e \in S : ev[e].delta = -1})

CommittedEvents == {e \in Event : Committed(e)}
FoldedEvents == {e \in Event : Folded(e)}

RoomsAccounted ==
  /\ IsFiniteSet(out)
  /\ \A r \in Room : writing[r] # 0 => event[writing[r]].delta = IF r \in out THEN -1 ELSE 1
  /\ Net(event, CommittedEvents) = Cardinality(out)

SlotsAccounted ==
  /\ Cardinality(FoldedEvents) = Len(applied)
  /\ today = 0 => /\ slots = 0..(Horizon - 1)
                  /\ \A d \in 0..(Horizon - 1) : out_of_service[d] = Net(event, FoldedEvents)

LEMMA EventsFinite ==
  ASSUME NEW S \in SUBSET Event
  PROVE  IsFiniteSet(S) /\ Cardinality(S) \in Nat
<1>1. IsFiniteSet(Event)
  BY EventAssumption, FS_Interval DEF Event
<1>2. QED
  BY <1>1, FS_Subset, FS_CardinalityType

LEMMA NetOfNone ==
  ASSUME NEW ev
  PROVE  Net(ev, {}) = 0
<1>1. {e \in {} : ev[e].delta = 1} = {} /\ {e \in {} : ev[e].delta = -1} = {}
  OBVIOUS
<1>2. Cardinality({}) = 0
  BY FS_EmptySet
<1>3. QED
  BY <1>1, <1>2 DEF Net

LEMMA NetSame ==
  ASSUME NEW ev, NEW fv, NEW S, \A e \in S : ev[e] = fv[e]
  PROVE  Net(ev, S) = Net(fv, S)
<1>1. /\ {e \in S : ev[e].delta = 1} = {e \in S : fv[e].delta = 1}
      /\ {e \in S : ev[e].delta = -1} = {e \in S : fv[e].delta = -1}
  OBVIOUS
<1>2. QED
  BY <1>1 DEF Net

LEMMA NetAdd ==
  ASSUME NEW ev, NEW S \in SUBSET Event, NEW e \in Event, e \notin S, ev[e].delta \in {-1, 1}
  PROVE  Net(ev, S \cup {e}) = Net(ev, S) + ev[e].delta
<1> DEFINE Up(T) == {f \in T : ev[f].delta = 1}
           Down(T) == {f \in T : ev[f].delta = -1}
<1>1. /\ Net(ev, S) = Cardinality(Up(S)) - Cardinality(Down(S))
      /\ Net(ev, S \cup {e}) = Cardinality(Up(S \cup {e})) - Cardinality(Down(S \cup {e}))
  BY DEF Net
<1>2. /\ IsFiniteSet(Up(S)) /\ Cardinality(Up(S)) \in Nat
      /\ IsFiniteSet(Down(S)) /\ Cardinality(Down(S)) \in Nat
      /\ e \notin Up(S) /\ e \notin Down(S)
  BY EventsFinite
<1>3. CASE ev[e].delta = 1
  <2>1. Up(S \cup {e}) = Up(S) \cup {e} /\ Down(S \cup {e}) = Down(S)
    BY <1>3
  <2> HIDE DEF Up, Down
  <2>2. Cardinality(Up(S) \cup {e}) = Cardinality(Up(S)) + 1
    BY <1>2, FS_AddElement
  <2>3. /\ Net(ev, S) = Cardinality(Up(S)) - Cardinality(Down(S))
        /\ Net(ev, S \cup {e}) = (Cardinality(Up(S)) + 1) - Cardinality(Down(S))
    BY <1>1, <2>1, <2>2
  <2>4. PICK a \in Nat, b \in Nat : a = Cardinality(Up(S)) /\ b = Cardinality(Down(S))
    BY <1>2
  <2>5. Net(ev, S) = a - b /\ Net(ev, S \cup {e}) = (a + 1) - b
    BY <2>3, <2>4
  <2>6. QED
    BY <1>3, <2>5
<1>4. CASE ev[e].delta = -1
  <2>1. Up(S \cup {e}) = Up(S) /\ Down(S \cup {e}) = Down(S) \cup {e}
    BY <1>4
  <2> HIDE DEF Up, Down
  <2>2. Cardinality(Down(S) \cup {e}) = Cardinality(Down(S)) + 1
    BY <1>2, FS_AddElement
  <2>3. /\ Net(ev, S) = Cardinality(Up(S)) - Cardinality(Down(S))
        /\ Net(ev, S \cup {e}) = Cardinality(Up(S)) - (Cardinality(Down(S)) + 1)
    BY <1>1, <2>1, <2>2
  <2>4. PICK a \in Nat, b \in Nat : a = Cardinality(Up(S)) /\ b = Cardinality(Down(S))
    BY <1>2
  <2>5. Net(ev, S) = a - b /\ Net(ev, S \cup {e}) = a - (b + 1)
    BY <2>3, <2>4
  <2>6. QED
    BY <1>4, <2>5
<1>5. QED
  BY <1>3, <1>4

LEMMA NetIsInt ==
  ASSUME NEW ev, NEW S \in SUBSET Event
  PROVE  Net(ev, S) \in Int
<1> DEFINE Up == {f \in S : ev[f].delta = 1}
           Down == {f \in S : ev[f].delta = -1}
<1>1. Up \in SUBSET Event /\ Down \in SUBSET Event
  OBVIOUS
<1>2. Net(ev, S) = Cardinality(Up) - Cardinality(Down)
  BY DEF Net
<1> HIDE DEF Up, Down
<1>3. QED
  BY <1>1, <1>2, EventsFinite

LEMMA AccountedInit == Init => RoomsAccounted /\ SlotsAccounted
<1> SUFFICES ASSUME Init
             PROVE  RoomsAccounted /\ SlotsAccounted
  OBVIOUS
<1>1. CommittedEvents = {}
  BY DEF Init, CommittedEvents, Committed
<1>2. FoldedEvents = {} /\ Len(applied) = 0
  BY DEF Init, FoldedEvents, Folded
<1>3. \A d \in 0..(Horizon - 1) : d \in Date
  BY EventAssumption DEF Date
<1>4. Cardinality({}) = 0 /\ IsFiniteSet({})
  BY FS_EmptySet
<1>5. RoomsAccounted
  BY <1>1, <1>4, NetOfNone DEF Init, RoomsAccounted
<1>6. SlotsAccounted
  BY <1>2, <1>3, <1>4, NetOfNone DEF Init, SlotsAccounted
<1>7. QED
  BY <1>5, <1>6

(* The events a step may read keep their change. *)
LEMMA EventsKept ==
  ASSUME Ind, NEW r \in Room, RecordEvent(r)
  PROVE  /\ event'[Len(event) + 1].delta = IF r \in out THEN -1 ELSE 1
         /\ \A e \in Event : outbox[e] # "absent" => event'[e] = event[e]
<1>1. /\ event \in Seq([room : Room, delta : {-1, 1}])
      /\ event' = Append(event, [room |-> r, delta |-> IF r \in out THEN -1 ELSE 1])
  BY DEF RecordEvent, Ind, TypeOK
<1>2. /\ Len(event) \in Nat
      /\ event'[Len(event) + 1] = [room |-> r, delta |-> IF r \in out THEN -1 ELSE 1]
      /\ \A i \in 1..Len(event) : event'[i] = event[i]
  BY <1>1
<1>3. ASSUME NEW e \in Event, outbox[e] # "absent"
      PROVE  event'[e] = event[e]
  <2>1. e \in Nat \ {0} /\ ~ (e > Len(event))
    BY <1>3, EventAssumption DEF Event, Ind, RowsSound
  <2>2. e \in 1..Len(event)
    BY <1>2, <2>1
  <2>3. QED
    BY <1>2, <2>2
<1>4. QED
  BY <1>2, <1>3

LEMMA RoomsStayAccounted ==
  ASSUME Ind, RoomsAccounted, [Next]_vars
  PROVE  RoomsAccounted'
<1>1. ASSUME NEW r \in Room, RecordEvent(r)
      PROVE  RoomsAccounted'
  <2> DEFINE n == Len(event) + 1
  <2>1. /\ n \in Event /\ writing[r] = 0 /\ out' = out
        /\ writing' = [writing EXCEPT ![r] = n]
        /\ outbox' = [outbox EXCEPT ![n] = "inserted"]
    BY <1>1 DEF RecordEvent
  <2>2. n > Len(event)
    BY DEF Ind, TypeOK
  <2>3. outbox[n] = "absent"
    BY <2>1, <2>2 DEF Ind, RowsSound
  <2>4. event'[n].delta = IF r \in out THEN -1 ELSE 1
    BY <1>1, EventsKept
  <2>5. \A e \in Event : outbox[e] # "absent" => event'[e] = event[e]
    BY <1>1, EventsKept
  <2> HIDE DEF n
  <2>6. CommittedEvents' = CommittedEvents
    BY <2>1, <2>3 DEF CommittedEvents, Committed, Ind, TypeOK
  <2>7. Net(event', CommittedEvents) = Net(event, CommittedEvents)
    <3>1. \A e \in CommittedEvents : event'[e] = event[e]
      BY <2>5 DEF CommittedEvents, Committed
    <3>2. QED
      BY <3>1, NetSame
  <2>8. ASSUME NEW q \in Room, writing'[q] # 0
        PROVE  event'[writing'[q]].delta = IF q \in out THEN -1 ELSE 1
    <3>1. CASE q = r
      BY <2>1, <2>4, <3>1 DEF Ind, TypeOK
    <3>2. CASE q # r
      <4>1. writing'[q] = writing[q] /\ writing[q] # 0
        BY <2>1, <2>8, <3>2 DEF Ind, TypeOK
      <4>2. writing[q] \in Event /\ outbox[writing[q]] = "inserted"
        BY <4>1, EventAssumption DEF Ind, TypeOK, RowsSound, Event
      <4>3. event'[writing[q]] = event[writing[q]]
        BY <2>5, <4>2
      <4>4. QED
        BY <4>1, <4>3 DEF RoomsAccounted
    <3>3. QED
      BY <3>1, <3>2
  <2>9. QED
    BY <2>1, <2>6, <2>7, <2>8 DEF RoomsAccounted
<1>2. ASSUME NEW r \in Room, CommitChange(r)
      PROVE  RoomsAccounted'
  <2>1. PICK w \in Event : w = writing[r] /\ w # 0
    BY <1>2, EventAssumption DEF CommitChange, Ind, TypeOK, Event
  <2>2. /\ out' = IF r \in out THEN out \ {r} ELSE out \cup {r}
        /\ outbox' = [outbox EXCEPT ![w] = "pending"]
        /\ writing' = [writing EXCEPT ![r] = 0]
        /\ event' = event
    BY <1>2, <2>1 DEF CommitChange
  <2>3. outbox[w] = "inserted" /\ event[w].delta = IF r \in out THEN -1 ELSE 1
    BY <2>1 DEF RoomsAccounted, Ind, RowsSound
  <2>4. w \notin CommittedEvents /\ CommittedEvents' = CommittedEvents \cup {w}
    BY <2>2, <2>3 DEF CommittedEvents, Committed, Ind, TypeOK
  <2>5. Net(event, CommittedEvents \cup {w}) = Cardinality(out) + event[w].delta
    <3>1. CommittedEvents \in SUBSET Event /\ event[w].delta \in {-1, 1}
      BY <2>3 DEF CommittedEvents
    <3>2. QED
      BY <2>4, <3>1, NetAdd DEF RoomsAccounted
  <2>6. IsFiniteSet(out') /\ Cardinality(out') = Cardinality(out) + event[w].delta
    <3>1. IsFiniteSet(out) /\ Cardinality(out) \in Nat
      BY FS_CardinalityType DEF RoomsAccounted
    <3>2. CASE r \in out
      <4>1. IsFiniteSet(out \ {r}) /\ Cardinality(out \ {r}) = Cardinality(out) - 1
        BY <3>1, <3>2, FS_RemoveElement
      <4>2. QED
        BY <2>2, <2>3, <3>1, <3>2, <4>1
    <3>3. CASE r \notin out
      <4>1. IsFiniteSet(out \cup {r}) /\ Cardinality(out \cup {r}) = Cardinality(out) + 1
        BY <3>1, <3>3, FS_AddElement
      <4>2. QED
        BY <2>2, <2>3, <3>3, <4>1
    <3>4. QED
      BY <3>2, <3>3
  <2>7. ASSUME NEW q \in Room, writing'[q] # 0
        PROVE  event'[writing'[q]].delta = IF q \in out' THEN -1 ELSE 1
    <3>1. q # r /\ writing'[q] = writing[q]
      BY <2>2, <2>7 DEF Ind, TypeOK
    <3>2. q \in out' <=> q \in out
      BY <2>2, <3>1
    <3>3. QED
      BY <2>2, <2>7, <3>1, <3>2 DEF RoomsAccounted
  <2>8. QED
    BY <2>2, <2>4, <2>5, <2>6, <2>7 DEF RoomsAccounted
<1>3. ASSUME out' = out, event' = event, CommittedEvents' = CommittedEvents,
             \A r \in Room : writing'[r] \in {0, writing[r]}
      PROVE  RoomsAccounted'
  BY <1>3 DEF RoomsAccounted
<1>4. ASSUME NEW r \in Room, AbortChange(r)
      PROVE  RoomsAccounted'
  <2>1. outbox[writing[r]] = "inserted"
    BY <1>4 DEF AbortChange, Ind, RowsSound
  <2>2. /\ out' = out /\ event' = event /\ writing' = [writing EXCEPT ![r] = 0]
        /\ outbox' = [outbox EXCEPT ![writing[r]] = "absent"]
    BY <1>4 DEF AbortChange
  <2>3. CommittedEvents' = CommittedEvents
    BY <2>1, <2>2 DEF CommittedEvents, Committed, Ind, TypeOK
  <2>4. \A q \in Room : writing'[q] \in {0, writing[q]}
    BY <2>2 DEF Ind, TypeOK
  <2>5. QED
    BY <1>3, <2>2, <2>3, <2>4
<1>5. ASSUME NEW p \in Relay, Promote(p) \/ DeadLetter(p)
      PROVE  RoomsAccounted'
  <2>1. PICK e \in Event : e = Oldest(relay[p]).row /\ Committed(e)
    BY <1>5, RelayRow DEF Promote, DeadLetter, Ind, RowsSound
  <2>2. PICK s \in OutboxStatus : outbox' = [outbox EXCEPT ![e] = s] /\ s \notin {"absent", "inserted"}
    <3>1. \A s : outbox[e] = s => s \in OutboxStatus /\ s \notin {"absent", "inserted"}
      BY <2>1 DEF Ind, TypeOK, Committed
    <3>2. "published" \in OutboxStatus /\ "dead_lettered" \in OutboxStatus
      BY DEF OutboxStatus
    <3>3. CASE Promote(p)
      <4>1. outbox' = [outbox EXCEPT ![e] = IF outbox[e] = "pending" THEN "published" ELSE outbox[e]]
        BY <2>1, <3>3 DEF Promote
      <4>2. QED
        BY <3>1, <3>2, <4>1
    <3>4. CASE DeadLetter(p)
      <4>1. PICK b \in BOOLEAN : outbox' = [outbox EXCEPT ![e] = IF b THEN "dead_lettered" ELSE outbox[e]]
        BY <2>1, <3>4 DEF DeadLetter
      <4>2. QED
        BY <3>1, <3>2, <4>1
    <3>5. QED
      BY <1>5, <3>3, <3>4
  <2>3. CommittedEvents' = CommittedEvents
    BY <2>1, <2>2 DEF CommittedEvents, Committed, Ind, TypeOK
  <2>4. UNCHANGED <<out, event, writing>>
    BY <1>5 DEF Promote, DeadLetter, roomVars
  <2>5. QED
    BY <1>3, <2>3, <2>4
<1>6. CASE \/ NextDay \/ InitializeHorizon \/ UNCHANGED vars
           \/ \E p \in Relay : ReadOutbox(p) \/ RelayCrash(p)
           \/ \E p \in Projector : ReadEvents(p) \/ ProcessEvent(p) \/ ProjectorCrash(p)
           \/ \E d \in Date : Claim(d) \/ Release(d)
  <2>1. UNCHANGED <<out, writing, event, outbox>>
    BY <1>6 DEF NextDay, InitializeHorizon, ReadOutbox, RelayCrash, ReadEvents, ProcessEvent,
                ProjectorCrash, Claim, Release, vars, roomVars, outboxVars
  <2>2. CommittedEvents' = CommittedEvents
    BY <2>1 DEF CommittedEvents, Committed
  <2>3. QED
    BY <1>3, <2>1, <2>2
<1>7. QED
  BY <1>1, <1>2, <1>4, <1>5, <1>6 DEF Next

LEMMA SlotsStayAccounted ==
  ASSUME \A p, q \in Projector : p = q,
         Ind, InOrder, SlotsAccounted, [Next]_vars
  PROVE  SlotsAccounted'
<1>1. today \in Nat /\ FoldedEvents \in SUBSET Event
  BY EventAssumption DEF Ind, TypeOK, FoldedEvents
<1>2. ASSUME applied' = applied, \A e \in FoldedEvents : event'[e] = event[e],
             today' = 0 => today = 0 /\ UNCHANGED <<slots, out_of_service>>
      PROVE  SlotsAccounted'
  <2>1. FoldedEvents' = FoldedEvents
    BY <1>2 DEF FoldedEvents, Folded
  <2>2. Net(event', FoldedEvents) = Net(event, FoldedEvents)
    BY <1>2, NetSame
  <2>3. QED
    BY <1>2, <2>1, <2>2 DEF SlotsAccounted
<1>3. ASSUME NEW r \in Room, RecordEvent(r)
      PROVE  SlotsAccounted'
  <2>1. \A e \in Event : outbox[e] # "absent" => event'[e] = event[e]
    BY <1>3, EventsKept
  <2>2. \A e \in FoldedEvents : outbox[e] # "absent"
    BY DEF FoldedEvents, Folded, Ind, CursorSound, RowsSound, Committed
  <2>3. UNCHANGED <<applied, today, slots, out_of_service>>
    BY <1>3 DEF RecordEvent, projectorVars
  <2>4. QED
    BY <1>1, <1>2, <2>1, <2>2, <2>3
<1>4. CASE NextDay
  <2>1. today' = today + 1 /\ UNCHANGED <<applied, event>>
    BY <1>4 DEF NextDay, projectorVars, roomVars
  <2>2. today' # 0
    BY <1>1, <2>1
  <2>3. QED
    BY <1>2, <2>1, <2>2
<1>5. CASE InitializeHorizon
  <2>1. UNCHANGED <<today, applied, event>> /\ ~ (today..(today + Horizon - 1) \subseteq slots)
    BY <1>5 DEF InitializeHorizon, projectorVars, roomVars
  <2>2. today # 0
    BY <2>1, EventAssumption DEF SlotsAccounted
  <2>3. QED
    BY <1>2, <2>1, <2>2
<1>6. ASSUME NEW p \in Projector, ProcessEvent(p)
      PROVE  SlotsAccounted'
  <2> DEFINE e == Min(run[p])
  <2>1. e \in run[p] /\ e \in log /\ e \in Event
    <3>1. run[p] \in SUBSET Event /\ run[p] # {} /\ run[p] \subseteq log
      BY <1>6 DEF ProcessEvent, Ind, TypeOK, CursorSound
    <3>2. QED
      BY <3>1, MinIsLeast
  <2>2. event[e].delta \in {-1, 1}
    BY <2>1, LoggedRecorded DEF Ind
  <2>3. UNCHANGED <<event, today, slots>>
    BY <1>6 DEF ProcessEvent, roomVars
  <2> HIDE DEF e
  <2>4. CASE Fits(Adjusted(event[e].delta))
    <3>1. out_of_service' = Adjusted(event[e].delta) /\ applied' = Append(applied, e)
      BY <1>6, <2>4 DEF ProcessEvent, Apply, e
    <3>2. \A f : Folded(f)' <=> Folded(f) \/ f = e
      BY <2>1, <3>1, AppendFolds DEF Ind
    <3>3. FoldedEvents' = FoldedEvents \cup {e}
      BY <2>1, <3>2 DEF FoldedEvents
    <3>4. e \notin FoldedEvents
      <4>1. SUFFICES ASSUME Folded(e)
                     PROVE  FALSE
        BY DEF FoldedEvents
      <4>2. e <= checkpoint /\ e > checkpoint
        BY <2>1, <4>1 DEF Folded, InOrder
      <4>3. e \in Nat /\ checkpoint \in Nat
        BY <2>1, EventAssumption DEF Event, Ind, TypeOK
      <4>4. QED
        BY <4>2, <4>3
    <3>5. Cardinality(FoldedEvents') = Len(applied')
      <4>1. IsFiniteSet(FoldedEvents)
        BY <1>1, EventsFinite
      <4>2. Cardinality(FoldedEvents \cup {e}) = Cardinality(FoldedEvents) + 1
        BY <3>4, <4>1, FS_AddElement
      <4>3. Len(applied') = Len(applied) + 1
        BY <3>1 DEF Ind, TypeOK
      <4>4. QED
        BY <3>3, <4>2, <4>3 DEF SlotsAccounted
    <3>6. Net(event, FoldedEvents \cup {e}) = Net(event, FoldedEvents) + event[e].delta
      BY <1>1, <2>1, <2>2, <3>4, NetAdd
    <3>7. ASSUME today = 0, NEW d \in 0..(Horizon - 1)
          PROVE  out_of_service'[d] = Net(event, FoldedEvents \cup {e})
      <4>1. d \in Window /\ d \in Date
        BY <3>7, EventAssumption DEF SlotsAccounted, Window, Date
      <4>2. out_of_service'[d] = out_of_service[d] + event[e].delta
        BY <3>1, <4>1 DEF Adjusted
      <4>3. QED
        BY <3>6, <3>7, <4>2 DEF SlotsAccounted
    <3>8. QED
      BY <2>3, <3>3, <3>5, <3>7 DEF SlotsAccounted
  <2>5. CASE ~ Fits(Adjusted(event[e].delta))
    <3>1. UNCHANGED <<out_of_service, applied>>
      BY <1>6, <2>5 DEF ProcessEvent, Stop, e
    <3>2. QED
      BY <1>2, <2>3, <3>1
  <2>6. QED
    BY <2>4, <2>5
<1>7. CASE \/ UNCHANGED vars
           \/ \E r \in Room : CommitChange(r) \/ AbortChange(r)
           \/ \E p \in Relay : ReadOutbox(p) \/ Promote(p) \/ DeadLetter(p) \/ RelayCrash(p)
           \/ \E p \in Projector : ReadEvents(p) \/ ProjectorCrash(p)
           \/ \E d \in Date : Claim(d) \/ Release(d)
  <2>1. UNCHANGED <<applied, event, today, slots, out_of_service>>
    BY <1>7 DEF CommitChange, AbortChange, ReadOutbox, Promote, DeadLetter, RelayCrash, ReadEvents,
                ProjectorCrash, Claim, Release, vars, roomVars, projectorVars
  <2>2. QED
    BY <1>2, <2>1
<1>8. QED
  BY <1>3, <1>4, <1>5, <1>6, <1>7 DEF Next

LEMMA AccountsAgree ==
  ASSUME Ind, RoomsAccounted, SlotsAccounted
  PROVE  ExactWhileWindowStands
<1> SUFFICES ASSUME today = 0, log = {e \in Event : outbox[e] # "absent"},
                    Len(applied) = Cardinality(log), NEW d \in Window
             PROVE  out_of_service[d] = Cardinality(out)
  BY DEF ExactWhileWindowStands, OutOfServiceMatchesRooms
<1>1. log = CommittedEvents
  BY DEF CommittedEvents, Committed, Ind, RowsSound
<1>2. FoldedEvents \subseteq log
  BY DEF FoldedEvents, Folded, Ind, CursorSound
<1>3. IsFiniteSet(log)
  BY EventsFinite DEF Ind, TypeOK
<1>4. FoldedEvents = log
  <2>1. Cardinality(FoldedEvents) = Cardinality(log)
    BY DEF SlotsAccounted
  <2>2. QED
    BY <1>2, <1>3, <2>1, FS_Subset
<1>5. d \in 0..(Horizon - 1)
  BY DEF Window, SlotsAccounted
<1>6. QED
  BY <1>1, <1>4, <1>5 DEF SlotsAccounted, RoomsAccounted

(* docs/domain-model-specification.md:278: while the window of slots stands  *)
(* still and one projector folds the events, every night counts exactly the  *)
(* rooms that are out once all there is has been applied, whatever relays    *)
(* overlap, retry and crash.                                                 *)
THEOREM WindowCountsRooms ==
  ASSUME \A p, q \in Projector : p = q
  PROVE  Spec => []ExactWhileWindowStands
<1>1. Init => InOrder /\ RoomsAccounted /\ SlotsAccounted
  BY AccountedInit DEF Init, InOrder
<1>2. Ind /\ InOrder /\ RoomsAccounted /\ SlotsAccounted /\ [Next]_vars
        => InOrder' /\ RoomsAccounted' /\ SlotsAccounted'
  BY InOrderStep, RoomsStayAccounted, SlotsStayAccounted
<1>3. Ind /\ RoomsAccounted /\ SlotsAccounted => ExactWhileWindowStands
  BY AccountsAgree
<1>4. QED
  BY <1>1, <1>2, <1>3, ProjectionSound, PTL DEF Spec
=============================================================================
