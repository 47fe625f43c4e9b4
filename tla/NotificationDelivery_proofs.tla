-------------------- MODULE NotificationDelivery_proofs ---------------------
(* The notification jobs agree with their attempts, with Celery's messages  *)
(* and with the checkpoint, and keep the promise made for them, for every   *)
(* number of events, workers, dispatchers and reapers.  The argument: the   *)
(* version of a row moves with its status, so what a worker has read is     *)
(* either still so or its save is refused; and a call of the provider       *)
(* belongs to one claim.                                                    *)
EXTENDS NotificationDelivery, FiniteSetTheorems, WellFoundedInduction, TLAPS

-----------------------------------------------------------------------------
(* The invariant.                                                           *)

(* The counters of a row, and what its status says of them. *)
RowSound(e) ==
  /\ failures[e] = retry_count[e]
  /\ successes[e] = IF job_status[e] = "delivered" THEN 1 ELSE 0
  /\ \A r \in Retries : queue[e][r] > 0 => r =< retry_count[e]
  /\ job_status[e] \in {"none", "pending"} => retry_count[e] = 0
  /\ retry_count[e] =< MAX_RETRIES
  /\ job_status[e] \in {"delivering", "delivered"} => retry_count[e] < MAX_RETRIES

RowsSound == \A e \in Event : RowSound(e)

(* What a worker has read stands as long as the version does. *)
WorkerSound(k) ==
  /\ job_status[k.job] # "none"
  /\ k.version =< version[k.job]
  /\ k.retries =< retry_count[k.job]
  /\ k.version = version[k.job] /\ k.step = "claim" => job_status[k.job] \in Retryable
  /\ k.version = version[k.job] /\ k.step = "record" => job_status[k.job] = "delivering"
  /\ k.step = "record" /\ k.ok => k.job \in accepted

WorkersSound == \A w \in Worker : worker[w] # Nothing => WorkerSound(worker[w])

(* What lies before an event in hand, or before the checkpoint, is done     *)
(* with, is in hand too, or was promoted late.                              *)
Noted(e) == job_status[e] # "none" \/ e \in withheld

Passed(e) == Noted(e) \/ e \in late

BatchSound(b) ==
  /\ b \subseteq log
  /\ \A x \in b : \A e \in log : e =< x => Passed(e) \/ e \in b

BatchesSound ==
  /\ \A d \in Dispatcher : run[d] # Nothing => BatchSound(run[d])
  /\ checkpoint \in log \cup {0}
  /\ \A e \in log : e =< checkpoint => Passed(e)

(* A call of the provider belongs to one try. *)
Sending(e) == {w \in Worker : worker[w] # Nothing /\ worker[w].step = "send" /\ worker[w].job = e}

CallsSound == \A e \in Event : calls[e] + Cardinality(Sending(e)) =< tries[e]

IInv == TypeOK /\ RowsSound /\ WorkersSound /\ BatchesSound /\ CallsSound

-----------------------------------------------------------------------------
(* The smallest of a set of numbers.                                        *)
LEMMA LeastExists ==
  ASSUME NEW S \in SUBSET Nat, S # {}
  PROVE  \E x \in S : \A y \in S : x <= y
<1> DEFINE R == OpToRel(<, Nat)
<1>1. IsWellFoundedOn(R, Nat)
  BY NatLessThanWellFounded
<1>2. \A x, y \in Nat : <<x, y>> \in R <=> x < y
  BY DEF OpToRel
<1> HIDE DEF R
<1>3. PICK x \in S : \A y \in S : ~ (<<y, x>> \in R)
  BY <1>1, WFMin
<1>4. ASSUME NEW y \in S
      PROVE  x <= y
  <2>1. x \in Nat /\ y \in Nat /\ ~ (y < x)
    BY <1>2, <1>3
  <2>2. QED
    BY <2>1
<1>5. QED
  BY <1>4

LEMMA EventNumber == \A e \in Event : e \in 0..MaxEvent /\ e \in Nat /\ e # 0
BY DeliveryAssumption DEF Event

LEMMA FoldsLeast ==
  ASSUME NEW S \in SUBSET Event, S # {}
  PROVE  Min(S) \in S /\ Min(S) \in Event /\ \A e \in S : Min(S) <= e
<1>1. S \in SUBSET Nat
  BY EventNumber
<1>2. \E x \in S : \A y \in S : x <= y
  BY <1>1, LeastExists
<1>3. QED
  BY <1>2 DEF Min

LEMMA TypeStep ==
  ASSUME TypeOK, [Next]_vars
  PROVE  TypeOK'
<1> USE DeliveryAssumption DEF TypeOK
<1>1. CASE Log
  <2>1. PICK e \in Event :
          /\ log' = log \cup {e} /\ late' = IF PassedBy(e) THEN late \cup {e} ELSE late
          /\ UNCHANGED <<checkpoint, withheld, run, rows, overdue, queue, worker, reaping, provider>>
    BY <1>1 DEF Log
  <2>2. log' \subseteq Event /\ late' \subseteq Event
    BY <2>1
  <2>3. QED
    BY <2>1, <2>2 DEF rows, provider
<1>2. ASSUME NEW d \in Dispatcher, Dispatch(d)
      PROVE  TypeOK'
  <2>1. CASE DispatchStarts(d)
    <3>1. PendingEvents \in SUBSET Event
      BY DEF PendingEvents
    <3>2. QED
      BY <2>1, <3>1 DEF DispatchStarts, rows, provider
  <2>2. CASE Fold(d)
    <3>1. run[d] \in SUBSET Event /\ run[d] # {}
      BY <2>2 DEF Fold
    <3>2. Min(run[d]) \in Event
      BY <3>1, FoldsLeast
    <3>3. Min(run[d]) \in 0..MaxEvent
      BY <3>2, EventNumber
    <3>4. run' \in [Dispatcher -> (SUBSET Event) \cup {Nothing}] /\ checkpoint' \in 0..MaxEvent
      BY <2>2, <3>1, <3>3 DEF Fold
    <3>5. job_status' \in [Event -> Status] /\ withheld' \subseteq Event
      BY <2>2, <3>2 DEF Fold, Status
    <3>6. UNCHANGED <<log, late, version, retry_count, failures, successes, overdue, queue, worker,
                      reaping, calls, accepted>>
      BY <2>2 DEF Fold, provider
    <3>7. QED
      BY <3>4, <3>5, <3>6
  <2>3. CASE FoldFails(d)
    <3>1. run' \in [Dispatcher -> (SUBSET Event) \cup {Nothing}]
      BY <2>3 DEF FoldFails
    <3>2. UNCHANGED <<log, late, checkpoint, withheld, rows, overdue, queue, worker, reaping, provider>>
      BY <2>3 DEF FoldFails
    <3>3. QED
      BY <3>1, <3>2 DEF rows, provider
  <2>4. CASE Enqueue(d)
    <3>1. 0 \in Retries
      BY DEF Retries
    <3>2. QED
      BY <2>4, <3>1 DEF Enqueue, rows, provider
  <2>5. CASE DispatcherCrash(d)
    BY <2>5 DEF DispatcherCrash, rows, provider
  <2>6. QED
    BY <1>2, <2>1, <2>2, <2>3, <2>4, <2>5 DEF Dispatch
<1>3. ASSUME NEW w \in Worker, Deliver(w)
      PROVE  TypeOK'
  <2>1. CASE ReadJob(w)
    <3>1. PICK e \in Event, r \in Retries :
            /\ queue' = [queue EXCEPT ![e][r] = @ - 1] /\ queue[e][r] > 0
            /\ worker' = [worker EXCEPT ![w] =
                 IF job_status[e] \in Retryable
                 THEN [job |-> e, retries |-> r, step |-> "claim", version |-> version[e], ok |-> FALSE]
                 ELSE Nothing]
            /\ UNCHANGED <<log, late, checkpoint, withheld, run, rows, overdue, reaping, provider>>
      BY <2>1 DEF ReadJob
    <3>2. queue' \in [Event -> [Retries -> Nat]]
      BY <3>1
    <3>3. [job |-> e, retries |-> r, step |-> "claim", version |-> version[e], ok |-> FALSE] \in Delivery
      BY <3>1 DEF Delivery
    <3>4. QED
      BY <3>1, <3>2, <3>3 DEF rows, provider
  <2>2. CASE Claim(w)
    <3>1. worker[w] \in Delivery
      BY <2>2 DEF Claim
    <3>2. [worker[w] EXCEPT !.step = "send"] \in Delivery /\ worker[w].job \in Event
      BY <3>1 DEF Delivery
    <3>3. QED
      BY <2>2, <3>2 DEF Claim, Save, provider, Status
  <2>3. CASE DeadLetter(w)
    <3>1. worker[w].job \in Event
      BY <2>3 DEF DeadLetter, Delivery
    <3>2. QED
      BY <2>3, <3>1 DEF DeadLetter, Save, provider, Status
  <2>4. CASE LostRace(w)
    BY <2>4 DEF LostRace, rows, provider
  <2>5. ASSUME NEW ok \in BOOLEAN, Answered(w, ok), worker[w] # Nothing
        PROVE  worker' \in [Worker -> Delivery \cup {Nothing}] /\ worker[w].job \in Event
    <3>1. worker[w] \in Delivery
      BY <2>5
    <3>2. worker[w].job \in Event
      BY <3>1 DEF Delivery
    <3>3. [worker[w] EXCEPT !.step = "record", !.version = version[worker[w].job], !.ok = ok] \in Delivery
      BY <3>1, <3>2 DEF Delivery
    <3>4. QED
      BY <2>5, <3>2, <3>3 DEF Answered
  <2>6. CASE Send(w)
    <3>1. worker' \in [Worker -> Delivery \cup {Nothing}] /\ worker[w].job \in Event
      BY <2>5, <2>6 DEF Send
    <3>2. /\ calls' = [calls EXCEPT ![worker[w].job] = @ + 1]
          /\ accepted' = accepted \/ accepted' = accepted \cup {worker[w].job}
      BY <2>6 DEF Send, Answered
    <3>3. UNCHANGED <<log, late, checkpoint, withheld, run, rows, overdue, queue, reaping>>
      BY <2>6 DEF Send
    <3>4. calls' \in [Event -> Nat] /\ accepted' \subseteq Event
      BY <3>1, <3>2
    <3>5. QED
      BY <3>1, <3>3, <3>4 DEF rows
  <2>7. CASE NothingToSend(w)
    <3>1. worker' \in [Worker -> Delivery \cup {Nothing}] /\ worker[w].job \in Event
      BY <2>5, <2>7 DEF NothingToSend
    <3>2. QED
      BY <2>7, <3>1 DEF NothingToSend, rows, provider
  <2>8. CASE RecordSuccess(w)
    <3>1. worker[w].job \in Event
      BY <2>8 DEF RecordSuccess, Delivery
    <3>2. /\ job_status' \in [Event -> Status] /\ version' \in [Event -> Nat]
          /\ overdue' \subseteq Event /\ successes' \in [Event -> Nat]
      BY <2>8, <3>1 DEF RecordSuccess, Save, Status
    <3>3. worker' \in [Worker -> Delivery \cup {Nothing}]
      BY <2>8 DEF RecordSuccess
    <3>4. UNCHANGED <<log, late, checkpoint, withheld, run, retry_count, failures, queue, reaping,
                      calls, accepted>>
      BY <2>8 DEF RecordSuccess, provider
    <3>5. QED
      BY <3>2, <3>3, <3>4
  <2>9. CASE RecordFailure(w)
    <3>1. worker[w].job \in Event /\ worker[w].retries \in Retries
      BY <2>9 DEF RecordFailure, Delivery
    <3>2. worker[w].retries =< MAX_RETRIES => worker[w].retries + 1 \in Retries
      BY <3>1 DEF Retries
    <3>3. queue' \in [Event -> [Retries -> Nat]]
      <4> DEFINE e == worker[w].job
                 r == worker[w].retries
      <4>1. CASE queue' = queue
        BY <4>1
      <4>2. CASE r =< MAX_RETRIES /\ queue' = [queue EXCEPT ![e][r + 1] = @ + 1]
        <5>1. e \in Event /\ r + 1 \in Retries
          BY <3>1, <3>2, <4>2
        <5>2. queue[e] \in [Retries -> Nat] /\ queue[e][r + 1] + 1 \in Nat
          BY <5>1
        <5>3. [queue[e] EXCEPT ![r + 1] = queue[e][r + 1] + 1] \in [Retries -> Nat]
          BY <5>1, <5>2
        <5>4. queue' = [queue EXCEPT ![e] = [queue[e] EXCEPT ![r + 1] = queue[e][r + 1] + 1]]
          BY <4>2
        <5>5. QED
          BY <5>1, <5>3, <5>4
      <4>3. QED
        BY <2>9, <4>1, <4>2 DEF RecordFailure
    <3>4. retry_count' \in [Event -> Nat] /\ failures' \in [Event -> Nat]
      <4>1. /\ retry_count' = [retry_count EXCEPT ![worker[w].job] = @ + 1]
            /\ failures' = [failures EXCEPT ![worker[w].job] = @ + 1]
        BY <2>9 DEF RecordFailure
      <4>2. QED
        BY <3>1, <4>1
    <3>5. /\ job_status' \in [Event -> Status] /\ version' \in [Event -> Nat]
          /\ overdue' \subseteq Event
      BY <2>9, <3>1 DEF RecordFailure, Save, Status
    <3>6. worker' \in [Worker -> Delivery \cup {Nothing}]
      BY <2>9 DEF RecordFailure
    <3>7. UNCHANGED <<log, late, checkpoint, withheld, run, successes, reaping, calls, accepted>>
      BY <2>9 DEF RecordFailure, provider
    <3>8. QED
      BY <3>3, <3>4, <3>5, <3>6, <3>7
  <2>10. CASE WorkerCrash(w)
    BY <2>10 DEF WorkerCrash, rows, provider
  <2>11. QED
    BY <1>3, <2>1, <2>2, <2>3, <2>4, <2>6, <2>7, <2>8, <2>9, <2>10 DEF Deliver
<1>4. ASSUME NEW e \in Event, Timeout(e)
      PROVE  TypeOK'
  BY <1>4 DEF Timeout, rows, provider
<1>5. ASSUME NEW p \in Reaper, ReapScan(p)
      PROVE  TypeOK'
  BY <1>5 DEF ReapScan, rows, provider
<1>6. ASSUME NEW p \in Reaper, Reap(p)
      PROVE  TypeOK'
  <2>1. PICK s \in reaping[p] :
          /\ reaping' = [reaping EXCEPT ![p] = @ \ {s}]
          /\ IF job_status[s.job] = "delivering" /\ version[s.job] = s.version
             THEN /\ Save(s.job, "failed")
                  /\ failures' = [failures EXCEPT ![s.job] = @ + 1]
                  /\ retry_count' = [retry_count EXCEPT ![s.job] = @ + 1]
                  /\ UNCHANGED successes
             ELSE UNCHANGED <<rows, overdue>>
          /\ UNCHANGED <<log, late, checkpoint, withheld, run, queue, worker, provider>>
    BY <1>6 DEF Reap
  <2>2. s.job \in Event
    OBVIOUS
  <2>3. /\ UNCHANGED <<log, late, checkpoint, withheld, run, queue, worker, calls, accepted>>
        /\ reaping' \in [Reaper -> SUBSET [job : Event, version : Nat]]
    BY <2>1 DEF provider
  <2>4. /\ job_status' \in [Event -> Status] /\ version' \in [Event -> Nat]
        /\ overdue' \subseteq Event /\ successes' \in [Event -> Nat]
        /\ failures' \in [Event -> Nat] /\ retry_count' \in [Event -> Nat]
    <3>1. CASE job_status[s.job] = "delivering" /\ version[s.job] = s.version
      <4>1. Save(s.job, "failed") /\ UNCHANGED successes
        BY <2>1, <3>1
      <4>2. /\ failures' = [failures EXCEPT ![s.job] = @ + 1]
            /\ retry_count' = [retry_count EXCEPT ![s.job] = @ + 1]
        BY <2>1, <3>1
      <4>3. QED
        BY <2>2, <4>1, <4>2 DEF Save, Status
    <3>2. CASE ~(job_status[s.job] = "delivering" /\ version[s.job] = s.version)
      BY <2>1, <3>2 DEF rows
    <3>3. QED
      BY <3>1, <3>2
  <2>5. QED
    BY <2>3, <2>4
<1>7. CASE UNCHANGED vars
  BY <1>7 DEF vars, rows, provider
<1>8. QED
  BY <1>1, <1>2, <1>3, <1>4, <1>5, <1>6, <1>7 DEF Next

-----------------------------------------------------------------------------
(* What a step can do to a row, with what it then knows of the row.         *)
Same(e) ==
  /\ job_status'[e] = job_status[e] /\ version'[e] = version[e]
  /\ retry_count'[e] = retry_count[e] /\ failures'[e] = failures[e]
  /\ successes'[e] = successes[e]

Moved(e, from, to, failed, succeeded) ==
  /\ job_status[e] \in from /\ job_status'[e] = to
  /\ version'[e] = version[e] + 1
  /\ retry_count'[e] = retry_count[e] + failed /\ failures'[e] = failures[e] + failed
  /\ successes'[e] = successes[e] + succeeded

Created(e) ==
  /\ job_status[e] = "none" /\ job_status'[e] = "pending"
  /\ version'[e] = version[e] /\ retry_count'[e] = retry_count[e]
  /\ failures'[e] = failures[e] /\ successes'[e] = successes[e]

Claimed(e) == Moved(e, Retryable, "delivering", 0, 0) /\ ~Exhausted(e)
Buried(e) == Moved(e, {"failed"}, "dead_lettered", 0, 0) /\ Exhausted(e)
Done(e) == Moved(e, {"delivering"}, "delivered", 0, 1) /\ e \in accepted
Missed(e) == Moved(e, {"delivering"}, "failed", 1, 0)

RowMove(e) ==
  Same(e) \/ Created(e) \/ Claimed(e) \/ Buried(e) \/ Done(e) \/ Missed(e)

LEMMA SameRows ==
  ASSUME UNCHANGED rows
  PROVE  \A e \in Event : Same(e)
BY DEF rows, Same

LEMMA SaveMoves ==
  ASSUME TypeOK, NEW e \in Event, NEW status, Save(e, status)
  PROVE  /\ job_status'[e] = status /\ version'[e] = version[e] + 1
         /\ \A f \in Event : f # e => job_status'[f] = job_status[f] /\ version'[f] = version[f]
BY DEF Save, TypeOK

LEMMA WorkerReads ==
  ASSUME TypeOK, WorkersSound, NEW w \in Worker, worker[w] # Nothing
  PROVE  /\ worker[w] \in Delivery /\ worker[w].job \in Event
         /\ worker[w].retries \in Retries /\ worker[w].version \in Nat
         /\ job_status[worker[w].job] # "none"
         /\ worker[w].retries =< retry_count[worker[w].job]
         /\ Fresh(w) /\ worker[w].step = "claim" => job_status[worker[w].job] \in Retryable
         /\ Fresh(w) /\ worker[w].step = "record" => job_status[worker[w].job] = "delivering"
         /\ worker[w].step = "record" /\ worker[w].ok => worker[w].job \in accepted
<1>1. worker[w] \in Delivery /\ WorkerSound(worker[w])
  BY DEF TypeOK, WorkersSound
<1>2. /\ worker[w].job \in Event /\ worker[w].retries \in Retries
      /\ worker[w].version \in Nat
  BY <1>1 DEF Delivery
<1>3. QED
  BY <1>1, <1>2 DEF WorkerSound, Fresh

LEMMA ClaimMoves ==
  ASSUME TypeOK, WorkersSound, NEW w \in Worker, Claim(w)
  PROVE  Claimed(worker[w].job) /\ \A f \in Event : f # worker[w].job => Same(f)
<1> DEFINE e == worker[w].job
<1>1. e \in Event /\ job_status[e] \in Retryable /\ ~Exhausted(e)
  BY WorkerReads DEF Claim
<1>2. Save(e, "delivering") /\ UNCHANGED <<retry_count, failures, successes>>
  BY DEF Claim
<1>3. /\ job_status'[e] = "delivering" /\ version'[e] = version[e] + 1
      /\ \A f \in Event : f # e => job_status'[f] = job_status[f] /\ version'[f] = version[f]
  BY <1>1, <1>2, SaveMoves
<1>4. retry_count[e] \in Nat /\ failures[e] \in Nat /\ successes[e] \in Nat
  BY <1>1 DEF TypeOK
<1>5. QED
  BY <1>1, <1>2, <1>3, <1>4 DEF Claimed, Moved, Same

LEMMA BuryMoves ==
  ASSUME TypeOK, NEW w \in Worker, DeadLetter(w)
  PROVE  Buried(worker[w].job) /\ \A f \in Event : f # worker[w].job => Same(f)
<1> DEFINE e == worker[w].job
<1>1. e \in Event /\ Exhausted(e) /\ job_status[e] = "failed"
  BY DEF DeadLetter, TypeOK, Delivery, Exhausted
<1>2. Save(e, "dead_lettered") /\ UNCHANGED <<retry_count, failures, successes>>
  BY DEF DeadLetter
<1>3. /\ job_status'[e] = "dead_lettered" /\ version'[e] = version[e] + 1
      /\ \A f \in Event : f # e => job_status'[f] = job_status[f] /\ version'[f] = version[f]
  BY <1>1, <1>2, SaveMoves
<1>4. retry_count[e] \in Nat /\ failures[e] \in Nat /\ successes[e] \in Nat
  BY <1>1 DEF TypeOK
<1>5. QED
  BY <1>1, <1>2, <1>3, <1>4 DEF Buried, Moved, Same

LEMMA SuccessMoves ==
  ASSUME TypeOK, WorkersSound, NEW w \in Worker, RecordSuccess(w)
  PROVE  Done(worker[w].job) /\ \A f \in Event : f # worker[w].job => Same(f)
<1> DEFINE e == worker[w].job
<1>1. e \in Event /\ job_status[e] = "delivering" /\ e \in accepted
  BY WorkerReads DEF RecordSuccess
<1>2. /\ Save(e, "delivered") /\ UNCHANGED <<retry_count, failures>>
      /\ successes' = [successes EXCEPT ![e] = @ + 1]
  BY DEF RecordSuccess
<1>3. /\ job_status'[e] = "delivered" /\ version'[e] = version[e] + 1
      /\ \A f \in Event : f # e => job_status'[f] = job_status[f] /\ version'[f] = version[f]
  BY <1>1, <1>2, SaveMoves
<1>4. retry_count[e] \in Nat /\ failures[e] \in Nat
  BY <1>1 DEF TypeOK
<1>5. successes'[e] = successes[e] + 1 /\ \A f \in Event : f # e => successes'[f] = successes[f]
  BY <1>1, <1>2 DEF TypeOK
<1>6. QED
  BY <1>1, <1>2, <1>3, <1>4, <1>5 DEF Done, Moved, Same

LEMMA FailureMoves ==
  ASSUME TypeOK, NEW e \in Event, job_status[e] = "delivering",
         Save(e, "failed"),
         failures' = [failures EXCEPT ![e] = @ + 1],
         retry_count' = [retry_count EXCEPT ![e] = @ + 1],
         UNCHANGED successes
  PROVE  Missed(e) /\ \A f \in Event : f # e => Same(f)
<1>1. /\ job_status'[e] = "failed" /\ version'[e] = version[e] + 1
      /\ \A f \in Event : f # e => job_status'[f] = job_status[f] /\ version'[f] = version[f]
  BY SaveMoves
<1>2. /\ failures'[e] = failures[e] + 1 /\ retry_count'[e] = retry_count[e] + 1
      /\ \A f \in Event : f # e => failures'[f] = failures[f] /\ retry_count'[f] = retry_count[f]
  BY DEF TypeOK
<1>3. successes[e] \in Nat
  BY DEF TypeOK
<1>4. QED
  BY <1>1, <1>2, <1>3 DEF Missed, Moved, Same

LEMMA RowsMove ==
  ASSUME TypeOK, WorkersSound, [Next]_vars
  PROVE  \A e \in Event : RowMove(e)
<1>1. CASE UNCHANGED rows
  BY <1>1, SameRows DEF RowMove
<1>2. ASSUME NEW d \in Dispatcher, Fold(d)
      PROVE  \A e \in Event : RowMove(e)
  <2>1. UNCHANGED <<version, retry_count, failures, successes>>
    BY <1>2 DEF Fold
  <2>2. \A e \in Event :
          \/ job_status'[e] = job_status[e]
          \/ job_status[e] = "none" /\ job_status'[e] = "pending"
    BY <1>2 DEF Fold, TypeOK
  <2>3. QED
    BY <2>1, <2>2 DEF RowMove, Same, Created
<1>3. ASSUME NEW w \in Worker, Deliver(w), ~UNCHANGED rows
      PROVE  \A e \in Event : RowMove(e)
  <2>1. CASE Claim(w)
    BY <2>1, ClaimMoves DEF RowMove
  <2>2. CASE DeadLetter(w)
    BY <2>2, BuryMoves DEF RowMove
  <2>3. CASE RecordSuccess(w)
    BY <2>3, SuccessMoves DEF RowMove
  <2>4. CASE RecordFailure(w)
    <3>1. worker[w].job \in Event /\ job_status[worker[w].job] = "delivering"
      BY <2>4, WorkerReads DEF RecordFailure
    <3>2. QED
      BY <2>4, <3>1, FailureMoves DEF RecordFailure, RowMove
  <2>5. QED
    BY <1>3, <2>1, <2>2, <2>3, <2>4
       DEF Deliver, ReadJob, LostRace, Send, NothingToSend, WorkerCrash
<1>4. ASSUME NEW p \in Reaper, Reap(p)
      PROVE  \A e \in Event : RowMove(e)
  <2>1. PICK s \in reaping[p] :
          IF job_status[s.job] = "delivering" /\ version[s.job] = s.version
          THEN /\ Save(s.job, "failed")
               /\ failures' = [failures EXCEPT ![s.job] = @ + 1]
               /\ retry_count' = [retry_count EXCEPT ![s.job] = @ + 1]
               /\ UNCHANGED successes
          ELSE UNCHANGED <<rows, overdue>>
    BY <1>4 DEF Reap
  <2>2. s.job \in Event
    BY DEF TypeOK
  <2>3. CASE job_status[s.job] = "delivering" /\ version[s.job] = s.version
    BY <2>1, <2>2, <2>3, FailureMoves DEF RowMove
  <2>4. CASE ~(job_status[s.job] = "delivering" /\ version[s.job] = s.version)
    BY <2>1, <2>4, SameRows DEF RowMove
  <2>5. QED
    BY <2>3, <2>4
<1>5. QED
  BY <1>1, <1>2, <1>3, <1>4
     DEF Next, vars, Log, Dispatch, DispatchStarts, FoldFails, Enqueue, DispatcherCrash, Timeout,
         ReapScan

-----------------------------------------------------------------------------
(* The rows, their counters and the queue.                                  *)

(* The only new message is Celery's retry, one above that of its worker,    *)
(* sent when the failure is counted, or the dispatcher's, which is 0.       *)
LEMMA QueueMoves ==
  ASSUME TypeOK, WorkersSound, [Next]_vars,
         NEW e \in Event, NEW r \in Retries, queue'[e][r] > 0
  PROVE  \/ queue[e][r] > 0 \/ r = 0
         \/ r =< retry_count[e] + 1 /\ retry_count'[e] = retry_count[e] + 1
<1>1. CASE UNCHANGED queue
  BY <1>1
<1>2. ASSUME NEW d \in Dispatcher, Enqueue(d)
      PROVE  queue[e][r] > 0 \/ r = 0
  BY <1>2 DEF Enqueue, TypeOK
<1>3. ASSUME NEW w \in Worker, ReadJob(w)
      PROVE  queue[e][r] > 0
  <2>1. PICK f \in Event, q \in Retries :
          queue[f][q] > 0 /\ queue' = [queue EXCEPT ![f][q] = @ - 1]
    BY <1>3 DEF ReadJob
  <2>2. QED
    BY <2>1 DEF TypeOK
<1>4. ASSUME NEW w \in Worker, RecordFailure(w), ~UNCHANGED queue
      PROVE  \/ queue[e][r] > 0
             \/ r =< retry_count[e] + 1 /\ retry_count'[e] = retry_count[e] + 1
  <2> DEFINE f == worker[w].job
             q == worker[w].retries
  <2>1. f \in Event /\ q \in Retries /\ q =< retry_count[f]
    BY <1>4, WorkerReads DEF RecordFailure
  <2>2. /\ queue' = [queue EXCEPT ![f][q + 1] = @ + 1]
        /\ retry_count' = [retry_count EXCEPT ![f] = @ + 1]
    BY <1>4 DEF RecordFailure
  <2>3. q \in Nat /\ retry_count[f] \in Nat
    BY <2>1, DeliveryAssumption DEF Retries, TypeOK
  <2>4. CASE e = f /\ r = q + 1
    BY <2>1, <2>2, <2>3, <2>4 DEF TypeOK
  <2>5. CASE ~(e = f /\ r = q + 1)
    BY <2>1, <2>2, <2>5 DEF TypeOK
  <2>6. QED
    BY <2>4, <2>5
<1>5. QED
  BY <1>1, <1>2, <1>3, <1>4
     DEF Next, vars, Log, Dispatch, DispatchStarts, Fold, FoldFails, DispatcherCrash, Deliver,
         Claim, DeadLetter, LostRace, Send, NothingToSend, RecordSuccess, WorkerCrash, Timeout,
         ReapScan, Reap

LEMMA RowsStep ==
  ASSUME TypeOK, TypeOK', RowsSound, WorkersSound, [Next]_vars
  PROVE  RowsSound'
<1> SUFFICES ASSUME NEW e \in Event
             PROVE  RowSound(e)'
  BY DEF RowsSound
<1>1. RowSound(e) /\ RowMove(e)
  BY RowsMove DEF RowsSound
<1>2. /\ retry_count[e] \in Nat /\ failures[e] \in Nat /\ successes[e] \in Nat
      /\ retry_count'[e] \in Nat /\ MAX_RETRIES \in Nat \ {0} /\ Retries \subseteq Nat
  BY DeliveryAssumption DEF TypeOK, Retries
<1>3. /\ failures'[e] = retry_count'[e]
      /\ successes'[e] = IF job_status'[e] = "delivered" THEN 1 ELSE 0
      /\ job_status'[e] \in {"none", "pending"} => retry_count'[e] = 0
      /\ retry_count'[e] =< MAX_RETRIES
      /\ job_status'[e] \in {"delivering", "delivered"} => retry_count'[e] < MAX_RETRIES
  BY <1>1, <1>2
     DEF RowSound, RowMove, Same, Created, Claimed, Buried, Done, Missed, Moved, Exhausted, Retryable
<1>4. retry_count[e] =< retry_count'[e]
  BY <1>1, <1>2 DEF RowMove, Same, Created, Claimed, Buried, Done, Missed, Moved
<1>5. ASSUME NEW r \in Retries, queue'[e][r] > 0
      PROVE  r =< retry_count'[e]
  <2>1. \/ queue[e][r] > 0 \/ r = 0
        \/ r =< retry_count[e] + 1 /\ retry_count'[e] = retry_count[e] + 1
    BY <1>5, QueueMoves
  <2>2. queue[e][r] > 0 => r =< retry_count[e]
    BY <1>1 DEF RowSound
  <2>3. QED
    BY <1>2, <1>4, <2>1, <2>2
<1>6. QED
  BY <1>3, <1>5 DEF RowSound

-----------------------------------------------------------------------------
(* The workers.                                                             *)

LEMMA AcceptedGrows ==
  ASSUME [Next]_vars
  PROVE  accepted \subseteq accepted'
BY DEF Next, vars, provider, Log, Dispatch, DispatchStarts, Fold, FoldFails, Enqueue,
       DispatcherCrash, Deliver, ReadJob, Claim, DeadLetter, LostRace, Send, NothingToSend,
       RecordSuccess, RecordFailure, WorkerCrash, Timeout, ReapScan, Reap

(* What a worker that does not move has read. *)
LEMMA ReadStands ==
  ASSUME TypeOK, WorkersSound, [Next]_vars, NEW k \in Delivery, WorkerSound(k)
  PROVE  WorkerSound(k)'
<1>1. k.job \in Event /\ k.version \in Nat /\ k.retries \in Nat
  BY DeliveryAssumption DEF Delivery, Retries
<1>2. RowMove(k.job) /\ accepted \subseteq accepted'
  BY <1>1, RowsMove, AcceptedGrows
<1>3. version[k.job] \in Nat /\ retry_count[k.job] \in Nat
  BY <1>1 DEF TypeOK
<1>4. /\ job_status'[k.job] # "none"
      /\ version[k.job] =< version'[k.job] /\ retry_count[k.job] =< retry_count'[k.job]
      /\ version'[k.job] = version[k.job] => job_status'[k.job] = job_status[k.job]
  BY <1>2, <1>3
     DEF WorkerSound, RowMove, Same, Created, Claimed, Buried, Done, Missed, Moved
<1>5. k.version =< version[k.job] /\ k.retries =< retry_count[k.job]
  BY DEF WorkerSound
<1>6. version'[k.job] \in Nat /\ retry_count'[k.job] \in Nat
  BY <1>2, <1>3 DEF RowMove, Same, Created, Claimed, Buried, Done, Missed, Moved
<1>7. /\ k.version =< version'[k.job] /\ k.retries =< retry_count'[k.job]
      /\ k.version = version'[k.job] => version'[k.job] = version[k.job]
  BY <1>1, <1>3, <1>4, <1>5, <1>6
<1>8. QED
  BY <1>2, <1>4, <1>7 DEF WorkerSound

(* The answer of the provider is kept with the row as it stands. *)
LEMMA AnswerStands ==
  ASSUME TypeOK, WorkersSound, NEW w \in Worker, worker[w] # Nothing, NEW ok \in BOOLEAN,
         Answered(w, ok), UNCHANGED <<job_status, version, retry_count>>,
         ok => worker[w].job \in accepted',
         NEW k \in Delivery, worker'[w] = k, k # Nothing
  PROVE  WorkerSound(k)'
<1> DEFINE e == worker[w].job
<1>1. /\ worker[w] \in Delivery /\ e \in Event
      /\ job_status[e] # "none" /\ worker[w].retries =< retry_count[e]
  BY WorkerReads
<1>2. /\ job_status[e] = "delivering"
      /\ k = [worker[w] EXCEPT !.step = "record", !.version = version[e], !.ok = ok]
  BY <1>1 DEF Answered, TypeOK
<1>3. /\ k.job = e /\ k.retries = worker[w].retries /\ k.step = "record"
      /\ k.version = version[e] /\ k.ok = ok
  BY <1>1, <1>2 DEF Delivery
<1>4. version[e] =< version[e]
  BY <1>1 DEF TypeOK
<1>5. QED
  BY <1>1, <1>2, <1>3, <1>4 DEF WorkerSound

LEMMA WorkersStep ==
  ASSUME TypeOK, TypeOK', RowsSound, WorkersSound, [Next]_vars
  PROVE  WorkersSound'
<1> SUFFICES ASSUME NEW x \in Worker, worker'[x] # Nothing
             PROVE  WorkerSound(worker[x])'
  BY DEF WorkersSound
<1>1. PICK k \in Delivery : k = worker'[x]
  BY DEF TypeOK
<1>2. SUFFICES WorkerSound(k)'
  BY <1>1 DEF WorkerSound
<1>3. CASE worker[x] = k
  BY <1>1, <1>3, ReadStands DEF WorkersSound
<1>4. ASSUME NEW w \in Worker, ReadJob(w), worker[x] # k
      PROVE  WorkerSound(k)'
  <2>1. PICK e \in Event, r \in Retries :
          /\ queue[e][r] > 0
          /\ worker' = [worker EXCEPT ![w] =
               IF job_status[e] \in Retryable
               THEN [job |-> e, retries |-> r, step |-> "claim", version |-> version[e], ok |-> FALSE]
               ELSE Nothing]
          /\ UNCHANGED rows
    BY <1>4 DEF ReadJob
  <2>2. /\ job_status[e] \in Retryable
        /\ k = [job |-> e, retries |-> r, step |-> "claim", version |-> version[e], ok |-> FALSE]
    BY <1>1, <1>4, <2>1 DEF TypeOK
  <2>3. /\ k.job = e /\ k.retries = r /\ k.step = "claim" /\ k.version = version[e]
    BY <2>2
  <2>4. r =< retry_count[e] /\ version[e] =< version[e]
    BY <2>1 DEF RowsSound, RowSound, TypeOK
  <2>5. QED
    BY <2>1, <2>2, <2>3, <2>4 DEF WorkerSound, rows, Retryable
<1>5. ASSUME NEW w \in Worker, Claim(w), worker[x] # k
      PROVE  WorkerSound(k)'
  <2>1. x = w /\ k = [worker[w] EXCEPT !.step = "send"]
    BY <1>1, <1>5 DEF Claim, TypeOK
  <2>2. worker[w] \in Delivery /\ WorkerSound(worker[w])
    BY <1>5 DEF Claim, TypeOK, WorkersSound
  <2>3. PICK l \in Delivery : l = worker[w]
    BY <2>2
  <2>4. WorkerSound(l)'
    BY <2>2, <2>3, ReadStands
  <2>5. /\ k.job = l.job /\ k.retries = l.retries /\ k.step = "send"
        /\ k.version = l.version
    BY <2>1, <2>3 DEF Delivery
  <2>6. QED
    BY <2>4, <2>5 DEF WorkerSound
<1>6. ASSUME NEW w \in Worker, Send(w), worker[x] # k
      PROVE  WorkerSound(k)'
  <2>1. PICK ok \in BOOLEAN : Answered(w, ok) /\ (ok => worker[w].job \in accepted')
    BY <1>6 DEF Send
  <2>2. x = w
    BY <1>1, <1>6, <2>1 DEF Answered, TypeOK
  <2>3. worker[w] # Nothing /\ UNCHANGED <<job_status, version, retry_count>>
    BY <1>6 DEF Send, rows
  <2>4. QED
    BY <1>1, <2>1, <2>2, <2>3, AnswerStands
<1>7. ASSUME NEW w \in Worker, NothingToSend(w), worker[x] # k
      PROVE  WorkerSound(k)'
  <2>1. Answered(w, FALSE)
    BY <1>7 DEF NothingToSend
  <2>2. x = w
    BY <1>1, <1>7, <2>1 DEF Answered, TypeOK
  <2>3. worker[w] # Nothing /\ UNCHANGED <<job_status, version, retry_count>>
    BY <1>7 DEF NothingToSend, rows
  <2>4. QED
    BY <1>1, <2>1, <2>2, <2>3, AnswerStands
<1>8. ASSUME NEW w \in Worker,
             DeadLetter(w) \/ LostRace(w) \/ RecordSuccess(w) \/ RecordFailure(w) \/ WorkerCrash(w)
      PROVE  worker[x] = k
  BY <1>1, <1>8
     DEF DeadLetter, LostRace, RecordSuccess, RecordFailure, WorkerCrash, TypeOK
<1>9. CASE UNCHANGED worker
  BY <1>1, <1>3, <1>9
<1>10. QED
  BY <1>3, <1>4, <1>5, <1>6, <1>7, <1>8, <1>9
     DEF Next, vars, Log, Dispatch, DispatchStarts, Fold, FoldFails, Enqueue, DispatcherCrash,
         Deliver, Timeout, ReapScan, Reap

-----------------------------------------------------------------------------
(* The batches and the checkpoint.                                          *)

LEMMA NotedStands ==
  ASSUME TypeOK, WorkersSound, [Next]_vars, NEW e \in Event, Noted(e)
  PROVE  Noted(e)'
<1>1. withheld \subseteq withheld'
  BY DEF Next, vars, Log, Dispatch, DispatchStarts, Fold, FoldFails, Enqueue, DispatcherCrash,
         Deliver, ReadJob, Claim, DeadLetter, LostRace, Send, NothingToSend, RecordSuccess,
         RecordFailure, WorkerCrash, Timeout, ReapScan, Reap
<1>2. job_status[e] # "none" => job_status'[e] # "none"
  BY RowsMove DEF RowMove, Same, Created, Claimed, Buried, Done, Missed, Moved
<1>3. QED
  BY <1>1, <1>2 DEF Noted

LEMMA PassedStands ==
  ASSUME TypeOK, WorkersSound, [Next]_vars, NEW e \in Event, Passed(e)
  PROVE  Passed(e)'
<1>1. late \subseteq late'
  BY DEF Next, vars, Log, Dispatch, DispatchStarts, Fold, FoldFails, Enqueue, DispatcherCrash,
         Deliver, ReadJob, Claim, DeadLetter, LostRace, Send, NothingToSend, RecordSuccess,
         RecordFailure, WorkerCrash, Timeout, ReapScan, Reap
<1>2. QED
  BY <1>1, NotedStands DEF Passed

(* What is before a batch or the checkpoint stays so while the log does.    *)
LEMMA BatchStands ==
  ASSUME TypeOK, WorkersSound, [Next]_vars, UNCHANGED log, NEW b \in SUBSET Event, BatchSound(b)
  PROVE  BatchSound(b)'
<1>1. \A e \in log : Passed(e) => Passed(e)'
  BY PassedStands DEF TypeOK
<1>2. QED
  BY <1>1 DEF BatchSound

LEMMA BatchesStand ==
  ASSUME TypeOK, WorkersSound, BatchesSound, [Next]_vars, UNCHANGED log
  PROVE  /\ \A d \in Dispatcher :
              run'[d] = run[d] /\ run[d] # Nothing => BatchSound(run[d])'
         /\ UNCHANGED checkpoint =>
              /\ checkpoint' \in log' \cup {0}
              /\ \A e \in log' : e =< checkpoint' => Passed(e)'
<1>1. ASSUME NEW d \in Dispatcher, run'[d] = run[d], run[d] # Nothing
      PROVE  BatchSound(run[d])'
  <2>1. PICK b \in SUBSET Event : b = run[d]
    BY <1>1 DEF TypeOK
  <2>2. BatchSound(b)'
    BY <1>1, <2>1, BatchStands DEF BatchesSound
  <2>3. QED
    BY <1>1, <2>1, <2>2 DEF BatchSound
<1>2. \A e \in log : Passed(e) => Passed(e)'
  BY PassedStands DEF TypeOK
<1>3. QED
  BY <1>1, <1>2 DEF BatchesSound

(* A new event is behind a batch or the checkpoint only if it is late.      *)
LEMMA BatchesLog ==
  ASSUME TypeOK, TypeOK', WorkersSound, BatchesSound, Log, [Next]_vars
  PROVE  BatchesSound'
<1>1. PICK n \in Event :
        /\ n \notin log /\ log' = log \cup {n}
        /\ late' = IF PassedBy(n) THEN late \cup {n} ELSE late
        /\ UNCHANGED <<checkpoint, run>>
  BY DEF Log
<1>2. \A e \in log : Passed(e) => Passed(e)'
  BY PassedStands DEF TypeOK
<1>3. \A e \in Event : e \in Nat
  BY EventNumber
<1>4. PassedBy(n) => Passed(n)'
  BY <1>1 DEF Passed
<1>5. ASSUME NEW d \in Dispatcher, run[d] # Nothing
      PROVE  BatchSound(run[d])'
  <2>1. PICK b \in SUBSET Event : b = run[d] /\ BatchSound(b)
    BY <1>5 DEF TypeOK, BatchesSound
  <2>2. ASSUME NEW x \in b, n =< x
        PROVE  PassedBy(n)
    <3>1. x \in log /\ n # x /\ x \in Nat /\ n \in Nat
      BY <1>1, <1>3, <2>1 DEF BatchSound
    <3>2. x > n
      BY <2>2, <3>1
    <3>3. QED
      BY <1>5, <2>1, <3>2 DEF PassedBy
  <2>3. BatchSound(b)'
    BY <1>1, <1>2, <1>4, <2>1, <2>2 DEF BatchSound
  <2>4. QED
    BY <1>1, <2>1, <2>3 DEF BatchSound
<1>6. n =< checkpoint => PassedBy(n)
  <2>1. checkpoint \in Nat /\ checkpoint # n
    BY <1>1, DeliveryAssumption, EventNumber DEF TypeOK, BatchesSound
  <2>2. QED
    BY <1>3, <2>1 DEF PassedBy
<1>7. QED
  BY <1>1, <1>2, <1>4, <1>5, <1>6 DEF BatchesSound

LEMMA BatchesStep ==
  ASSUME TypeOK, TypeOK', WorkersSound, BatchesSound, [Next]_vars
  PROVE  BatchesSound'
<1>1. CASE Log
  BY <1>1, BatchesLog
<1>2. CASE UNCHANGED <<log, checkpoint, run>>
  BY <1>2, BatchesStand DEF BatchesSound
<1>3. ASSUME NEW d \in Dispatcher, UNCHANGED <<log, checkpoint>>,
             run' = [run EXCEPT ![d] = Nothing] \/ run' = [run EXCEPT ![d] = {}]
      PROVE  BatchesSound'
  <2>1. \A c \in Dispatcher : run'[c] = run[c] \/ run'[c] = Nothing \/ run'[c] = {}
    BY <1>3 DEF TypeOK
  <2>2. ASSUME NEW c \in Dispatcher, run'[c] = {}
        PROVE  BatchSound(run[c])'
    BY <2>2 DEF BatchSound
  <2>3. QED
    BY <1>3, <2>1, <2>2, BatchesStand DEF BatchesSound
<1>4. ASSUME NEW d \in Dispatcher, DispatchStarts(d)
      PROVE  BatchesSound'
  <2>1. UNCHANGED <<log, checkpoint>> /\ \A c \in Dispatcher : c # d => run'[c] = run[c]
    BY <1>4 DEF DispatchStarts, TypeOK
  <2>2. PICK b \in SUBSET Event : b = PendingEvents /\ run'[d] = b
    BY <1>4 DEF DispatchStarts, PendingEvents, TypeOK
  <2>3. \A e \in log : e > checkpoint \/ e =< checkpoint
    BY DeliveryAssumption, EventNumber DEF TypeOK
  <2>4. BatchSound(b)
    BY <2>2, <2>3 DEF BatchSound, BatchesSound, PendingEvents
  <2>5. BatchSound(b)'
    BY <2>1, <2>4, BatchStands
  <2>6. BatchSound(run[d])'
    BY <2>2, <2>5 DEF BatchSound
  <2>7. QED
    BY <2>1, <2>6, BatchesStand DEF BatchesSound
<1>5. ASSUME NEW d \in Dispatcher, Fold(d)
      PROVE  BatchesSound'
  <2>1. PICK b \in SUBSET Event : b = run[d] /\ b # {} /\ BatchSound(b)
    BY <1>5 DEF Fold, TypeOK, BatchesSound
  <2>2. PICK m \in b : m = Min(b) /\ \A e \in b : m <= e
    BY <2>1, FoldsLeast
  <2>3. /\ checkpoint' = m /\ run'[d] = b \ {m} /\ UNCHANGED <<log, late>>
        /\ \A c \in Dispatcher : c # d => run'[c] = run[c]
    BY <1>5, <2>1, <2>2 DEF Fold, TypeOK
  <2>4. Passed(m)'
    BY <1>5, <2>1, <2>2 DEF Fold, Passed, Noted, TypeOK
  <2>5. \A e \in log : Passed(e) => Passed(e)'
    BY PassedStands DEF TypeOK
  <2>6. BatchSound(b \ {m})'
    BY <2>1, <2>3, <2>4, <2>5 DEF BatchSound
  <2>7. ASSUME NEW e \in log, e =< m
        PROVE  Passed(e)'
    <3>1. CASE e \in b
      <4>1. e = m
        BY <2>2, <2>7, <3>1, EventNumber
      <4>2. QED
        BY <2>4, <4>1
    <3>2. CASE e \notin b
      BY <2>1, <2>5, <2>7, <3>2 DEF BatchSound
    <3>3. QED
      BY <3>1, <3>2
  <2>8. BatchSound(run[d])'
    BY <2>3, <2>6 DEF BatchSound
  <2>9. m \in log
    BY <2>1 DEF BatchSound
  <2>10. \A c \in Dispatcher : run'[c] # Nothing => BatchSound(run[c])'
    BY <2>3, <2>8, BatchesStand
  <2>11. QED
    BY <2>3, <2>7, <2>9, <2>10 DEF BatchesSound
<1>6. QED
  BY <1>1, <1>2, <1>3, <1>4, <1>5
     DEF Next, vars, Dispatch, FoldFails, Enqueue, DispatcherCrash, Deliver, ReadJob, Claim,
         DeadLetter, LostRace, Send, NothingToSend, RecordSuccess, RecordFailure, WorkerCrash,
         Timeout, ReapScan, Reap

-----------------------------------------------------------------------------
(* The calls of the provider.                                               *)

LEMMA SendingFinite ==
  \A e \in Event : IsFiniteSet(Sending(e)) /\ Cardinality(Sending(e)) \in Nat
<1> TAKE e \in Event
<1>1. IsFiniteSet(Sending(e))
  BY FS_Subset, DeliveryAssumption DEF Sending
<1>2. QED
  BY <1>1, FS_CardinalityType

LEMMA TriesGrow ==
  ASSUME TypeOK, TypeOK', WorkersSound, [Next]_vars, NEW e \in Event
  PROVE  tries[e] \in Nat /\ tries'[e] \in Nat /\ tries[e] =< tries'[e]
<1>1. RowMove(e)
  BY RowsMove
<1>2. /\ retry_count[e] \in Nat /\ retry_count'[e] \in Nat
      /\ tries[e] = retry_count[e] + IF job_status[e] \in {"delivering", "delivered"} THEN 1 ELSE 0
      /\ tries'[e] = retry_count'[e] + IF job_status'[e] \in {"delivering", "delivered"} THEN 1 ELSE 0
  BY DEF TypeOK, tries
<1>3. QED
  BY <1>1, <1>2
     DEF RowMove, Same, Created, Claimed, Buried, Done, Missed, Moved, Retryable

LEMMA ClaimTries ==
  ASSUME TypeOK, WorkersSound, NEW w \in Worker, Claim(w)
  PROVE  /\ worker[w].job \in Event
         /\ tries'[worker[w].job] = tries[worker[w].job] + 1
         /\ \A e \in Event : e # worker[w].job => tries'[e] = tries[e]
<1>1. worker[w].job \in Event /\ job_status[worker[w].job] \in Retryable
  BY WorkerReads DEF Claim
<1>2. /\ job_status'[worker[w].job] = "delivering"
      /\ UNCHANGED retry_count
      /\ \A e \in Event : e # worker[w].job => job_status'[e] = job_status[e]
  BY <1>1, ClaimMoves DEF Claimed, Moved, Same, Claim
<1>3. retry_count[worker[w].job] \in Nat
  BY <1>1 DEF TypeOK
<1>4. QED
  BY <1>1, <1>2, <1>3 DEF tries, Retryable

LEMMA CallsStep ==
  ASSUME TypeOK, TypeOK', WorkersSound, CallsSound, [Next]_vars
  PROVE  CallsSound'
<1> SUFFICES ASSUME NEW e \in Event
             PROVE  calls'[e] + Cardinality(Sending(e)') =< tries'[e]
  BY DEF CallsSound
<1>1. /\ calls[e] \in Nat /\ tries[e] \in Nat /\ tries'[e] \in Nat /\ tries[e] =< tries'[e]
      /\ Cardinality(Sending(e)) \in Nat /\ IsFiniteSet(Sending(e))
      /\ calls[e] + Cardinality(Sending(e)) =< tries[e]
  BY TriesGrow, SendingFinite DEF CallsSound, TypeOK
<1>2. ASSUME Sending(e)' \subseteq Sending(e), calls'[e] = calls[e]
      PROVE  calls'[e] + Cardinality(Sending(e)') =< tries'[e]
  <2>1. Cardinality(Sending(e)') \in Nat /\ Cardinality(Sending(e)') =< Cardinality(Sending(e))
    BY <1>1, <1>2, FS_Subset, FS_CardinalityType
  <2>2. QED
    BY <1>1, <1>2, <2>1
<1>3. ASSUME NEW w \in Worker, Claim(w)
      PROVE  calls'[e] + Cardinality(Sending(e)') =< tries'[e]
  <2>1. UNCHANGED calls /\ worker[w] # Nothing /\ worker[w].step = "claim" /\ worker[w] \in Delivery
    BY <1>3 DEF Claim, provider, TypeOK
  <2>2. worker' = [worker EXCEPT ![w] = [worker[w] EXCEPT !.step = "send"]]
    BY <1>3 DEF Claim
  <2>3. /\ [worker[w] EXCEPT !.step = "send"].step = "send"
        /\ [worker[w] EXCEPT !.step = "send"].job = worker[w].job
        /\ [worker[w] EXCEPT !.step = "send"] \in Delivery
    BY <2>1 DEF Delivery
  <2>4. CASE worker[w].job = e
    <3>1. Sending(e)' \subseteq Sending(e) \cup {w}
      BY <2>2 DEF Sending, TypeOK
    <3>2. w \notin Sending(e) /\ IsFiniteSet(Sending(e) \cup {w})
      BY <1>1, <2>1, FS_AddElement DEF Sending
    <3>3. Cardinality(Sending(e) \cup {w}) = Cardinality(Sending(e)) + 1
      BY <1>1, <3>2, FS_AddElement
    <3>4. /\ Cardinality(Sending(e)') \in Nat
          /\ Cardinality(Sending(e)') =< Cardinality(Sending(e)) + 1
      BY <3>1, <3>2, <3>3, FS_Subset, FS_CardinalityType
    <3>5. tries'[e] = tries[e] + 1
      BY <1>3, <2>4, ClaimTries
    <3>6. QED
      BY <1>1, <2>1, <3>4, <3>5
  <2>5. CASE worker[w].job # e
    <3>1. Sending(e)' \subseteq Sending(e)
      BY <2>2, <2>3, <2>5 DEF Sending, TypeOK
    <3>2. QED
      BY <1>2, <2>1, <3>1
  <2>6. QED
    BY <2>4, <2>5
<1>4. ASSUME NEW w \in Worker, NEW ok \in BOOLEAN, Answered(w, ok), worker[w] # Nothing
      PROVE  Sending(e)' \subseteq Sending(e) \ {w}
  <2>1. worker[w] \in Delivery
    BY <1>4 DEF TypeOK
  <2>2. \/ worker'[w] = Nothing
        \/ worker'[w] = [worker[w] EXCEPT !.step = "record", !.version = version[worker[w].job], !.ok = ok]
    BY <1>4 DEF Answered, TypeOK
  <2>3. [worker[w] EXCEPT !.step = "record", !.version = version[worker[w].job], !.ok = ok].step = "record"
    BY <2>1 DEF Delivery
  <2>4. \A x \in Worker : x # w => worker'[x] = worker[x]
    BY <1>4 DEF Answered, TypeOK
  <2>5. QED
    BY <2>2, <2>3, <2>4 DEF Sending
<1>5. ASSUME NEW w \in Worker, Send(w)
      PROVE  calls'[e] + Cardinality(Sending(e)') =< tries'[e]
  <2>1. PICK ok \in BOOLEAN : Answered(w, ok)
    BY <1>5 DEF Send
  <2>2. /\ worker[w] # Nothing /\ worker[w].step = "send"
        /\ calls' = [calls EXCEPT ![worker[w].job] = @ + 1]
    BY <1>5 DEF Send
  <2>3. Sending(e)' \subseteq Sending(e) \ {w}
    BY <1>4, <2>1, <2>2
  <2>4. CASE worker[w].job = e
    <3>1. w \in Sending(e) /\ calls'[e] = calls[e] + 1
      BY <2>2, <2>4 DEF Sending, TypeOK
    <3>2. /\ IsFiniteSet(Sending(e) \ {w})
          /\ Cardinality(Sending(e) \ {w}) = Cardinality(Sending(e)) - 1
      BY <1>1, <3>1, FS_RemoveElement
    <3>3. /\ Cardinality(Sending(e)') \in Nat
          /\ Cardinality(Sending(e)') =< Cardinality(Sending(e)) - 1
      BY <2>3, <3>2, FS_Subset, FS_CardinalityType
    <3>4. QED
      BY <1>1, <3>1, <3>3
  <2>5. CASE worker[w].job # e
    <3>1. calls'[e] = calls[e]
      BY <2>2, <2>5 DEF TypeOK
    <3>2. QED
      BY <1>2, <2>3, <3>1
  <2>6. QED
    BY <2>4, <2>5
<1>6. ASSUME NEW w \in Worker, NothingToSend(w)
      PROVE  calls'[e] + Cardinality(Sending(e)') =< tries'[e]
  <2>1. UNCHANGED calls /\ worker[w] # Nothing /\ Answered(w, FALSE)
    BY <1>6 DEF NothingToSend, provider
  <2>2. QED
    BY <1>2, <1>4, <2>1
<1>7. ASSUME NEW w \in Worker, ReadJob(w)
      PROVE  calls'[e] + Cardinality(Sending(e)') =< tries'[e]
  <2>1. PICK f \in Event, r \in Retries :
          /\ worker' = [worker EXCEPT ![w] =
               IF job_status[f] \in Retryable
               THEN [job |-> f, retries |-> r, step |-> "claim", version |-> version[f], ok |-> FALSE]
               ELSE Nothing]
          /\ UNCHANGED provider
    BY <1>7 DEF ReadJob
  <2>2. Sending(e)' \subseteq Sending(e)
    BY <2>1 DEF Sending, TypeOK
  <2>3. QED
    BY <1>2, <2>1, <2>2 DEF provider
<1>8. ASSUME NEW w \in Worker, worker' = [worker EXCEPT ![w] = Nothing], UNCHANGED calls
      PROVE  calls'[e] + Cardinality(Sending(e)') =< tries'[e]
  <2>1. Sending(e)' \subseteq Sending(e)
    BY <1>8 DEF Sending, TypeOK
  <2>2. QED
    BY <1>2, <1>8, <2>1
<1>9. CASE UNCHANGED <<worker, calls>>
  BY <1>2, <1>9 DEF Sending
<1>10. QED
  BY <1>3, <1>5, <1>6, <1>7, <1>8, <1>9
     DEF Next, vars, provider, Log, Dispatch, DispatchStarts, Fold, FoldFails, Enqueue,
         DispatcherCrash, Deliver, DeadLetter, LostRace, RecordSuccess, RecordFailure, WorkerCrash,
         Timeout, ReapScan, Reap

-----------------------------------------------------------------------------
(* The theorems.                                                            *)

LEMMA InitIInv ==
  ASSUME Init
  PROVE  IInv
<1>1. TypeOK
  BY DeliveryAssumption DEF Init, TypeOK, Status
<1>2. RowsSound
  BY DeliveryAssumption DEF Init, RowsSound, RowSound
<1>3. WorkersSound /\ BatchesSound
  BY EventNumber DEF Init, WorkersSound, BatchesSound, Event
<1>4. CallsSound
  <2> SUFFICES ASSUME NEW e \in Event
               PROVE  calls[e] + Cardinality(Sending(e)) =< tries[e]
    BY DEF CallsSound
  <2>1. Sending(e) = {}
    BY DEF Init, Sending
  <2>2. Cardinality(Sending(e)) = 0
    BY <2>1, FS_EmptySet
  <2>3. calls[e] = 0 /\ tries[e] = 0
    BY DEF Init, tries
  <2>4. QED
    BY <2>2, <2>3
<1>5. QED
  BY <1>1, <1>2, <1>3, <1>4 DEF IInv

LEMMA StepIInv ==
  ASSUME IInv, [Next]_vars
  PROVE  IInv'
BY TypeStep, RowsStep, WorkersStep, BatchesStep, CallsStep DEF IInv

(* The invariant above holds of every behaviour of the delivery protocol    *)
(* (services.py, tasks.py, projectors.py of apps/notifications).            *)
THEOREM DeliverySound == Spec => []IInv
<1>1. Init => IInv
  BY InitIInv
<1>2. IInv /\ [Next]_vars => IInv'
  BY StepIInv
<1>3. QED
  BY <1>1, <1>2, PTL DEF Spec

(* Every variable has its type. *)
THEOREM DeliveryTypeCorrect == Spec => []TypeOK
<1>1. IInv => TypeOK
  BY DEF IInv
<1>2. QED
  BY <1>1, DeliverySound, PTL

LEMMA InvRecordsAgree ==
  ASSUME IInv
  PROVE  RecordsAgree
<1>1. ASSUME NEW e \in Event, NEW w \in Worker, worker[w] # Nothing, worker[w].job = e
      PROVE  worker[w].retries =< retry_count[e]
  BY <1>1 DEF IInv, WorkersSound, WorkerSound
<1>2. CountersAgree
  BY <1>1 DEF IInv, RowsSound, RowSound, CountersAgree, queued
<1>3. NothingDropped
  BY DEF IInv, BatchesSound, Passed, Noted, NothingDropped
<1>4. QED
  BY <1>2, <1>3 DEF RecordsAgree

(* The log, the checkpoint, the jobs, their attempts and Celery's messages  *)
(* tell one story of every event (projectors.py, services.py, tasks.py).    *)
THEOREM RecordsAlwaysAgree == Spec => []RecordsAgree
<1>1. IInv => RecordsAgree
  BY InvRecordsAgree
<1>2. QED
  BY <1>1, DeliverySound, PTL

-----------------------------------------------------------------------------
(* The promise.                                                             *)

Shown(status) ==
  CASE status = "none" -> "none"
    [] status = "delivered" -> "delivered"
    [] status = "dead_lettered" -> "dead"
    [] OTHER -> "open"

promised == [e \in Event |-> Shown(job_status[e])]

LEMMA ShownValues ==
  /\ Shown("none") = "none" /\ Shown("delivered") = "delivered"
  /\ Shown("dead_lettered") = "dead" /\ Shown("pending") = "open"
  /\ Shown("failed") = "open" /\ Shown("delivering") = "open"
BY DEF Shown

PromiseUnchanged == promised' = promised /\ tries' = tries /\ calls' = calls /\ accepted' = accepted

PromiseCreate(e) ==
  /\ promised[e] = "none" /\ promised' = [promised EXCEPT ![e] = "open"]
  /\ UNCHANGED <<tries, calls, accepted>>

PromiseTry(e) ==
  /\ promised[e] = "open" /\ tries[e] < MAX_RETRIES
  /\ tries' = [tries EXCEPT ![e] = @ + 1]
  /\ UNCHANGED <<promised, calls, accepted>>

PromiseCall(e) ==
  /\ calls[e] < tries[e]
  /\ calls' = [calls EXCEPT ![e] = @ + 1]
  /\ accepted' \in {accepted, accepted \cup {e}}
  /\ UNCHANGED <<promised, tries>>

PromiseDeliver(e) ==
  /\ promised[e] = "open" /\ e \in accepted
  /\ promised' = [promised EXCEPT ![e] = "delivered"]
  /\ UNCHANGED <<tries, calls, accepted>>

PromiseGiveUp(e) ==
  /\ promised[e] = "open" /\ tries[e] = MAX_RETRIES
  /\ promised' = [promised EXCEPT ![e] = "dead"]
  /\ UNCHANGED <<tries, calls, accepted>>

PromiseStep ==
  \/ PromiseUnchanged
  \/ \E e \in Event :
       PromiseCreate(e) \/ PromiseTry(e) \/ PromiseCall(e) \/ PromiseDeliver(e) \/ PromiseGiveUp(e)

(* A step that moves the row of one event only. *)
LEMMA OneShown ==
  ASSUME TypeOK, NEW e \in Event, \A f \in Event : f # e => Same(f)
  PROVE  promised' = [promised EXCEPT ![e] = Shown(job_status'[e])]
BY DEF promised, Same

LEMMA SameTries ==
  ASSUME TypeOK, NEW e \in Event, \A f \in Event : f # e => Same(f),
         Buried(e) \/ Done(e) \/ Missed(e)
  PROVE  tries' = tries
<1>1. /\ retry_count'[e] + (IF job_status'[e] \in {"delivering", "delivered"} THEN 1 ELSE 0)
           = retry_count[e] + (IF job_status[e] \in {"delivering", "delivered"} THEN 1 ELSE 0)
  <2>1. retry_count[e] \in Nat
    BY DEF TypeOK
  <2>2. QED
    BY <2>1 DEF Buried, Done, Missed, Moved
<1>2. \A f \in Event :
        retry_count'[f] + (IF job_status'[f] \in {"delivering", "delivered"} THEN 1 ELSE 0)
          = retry_count[f] + (IF job_status[f] \in {"delivering", "delivered"} THEN 1 ELSE 0)
  BY <1>1 DEF Same
<1>3. QED
  BY <1>2, Zenon DEF tries

LEMMA SameShown ==
  ASSUME \A f \in Event : Same(f)
  PROVE  promised' = promised /\ tries' = tries
BY DEF promised, tries, Same

LEMMA FailureShown ==
  ASSUME TypeOK, NEW e \in Event, Missed(e), \A f \in Event : f # e => Same(f)
  PROVE  promised' = promised /\ tries' = tries
<1>1. /\ job_status[e] = "delivering" /\ job_status'[e] = "failed"
      /\ retry_count'[e] = retry_count[e] + 1 /\ retry_count[e] \in Nat
  BY DEF Missed, Moved, TypeOK
<1>2. promised' = [promised EXCEPT ![e] = "open"] /\ promised[e] = "open" /\ tries[e] = retry_count[e] + 1
  BY <1>1, OneShown, ShownValues DEF promised, tries
<1>3. tries' = tries
  BY SameTries
<1>4. promised' = promised
  BY <1>2 DEF promised
<1>5. QED
  BY <1>3, <1>4

LEMMA PromiseKept ==
  ASSUME IInv, [Next]_vars
  PROVE  PromiseStep
<1> TypeOK /\ RowsSound /\ WorkersSound /\ CallsSound
  BY DEF IInv
<1>1. CASE UNCHANGED <<rows, provider>>
  BY <1>1, SameRows, SameShown DEF PromiseStep, PromiseUnchanged, provider
<1>2. ASSUME NEW d \in Dispatcher, Fold(d)
      PROVE  PromiseStep
  <2> DEFINE e == Min(run[d])
  <2>1. e \in Event
    BY <1>2, FoldsLeast DEF Fold, TypeOK
  <2>2. UNCHANGED <<version, retry_count, failures, successes, calls, accepted>>
    BY <1>2 DEF Fold, provider
  <2>3. CASE job_status[e] = "none" /\ job_status' = [job_status EXCEPT ![e] = "pending"]
    <3>1. job_status'[e] = "pending"
      BY <2>1, <2>3 DEF TypeOK
    <3>2. \A f \in Event : f # e => Same(f)
      BY <2>1, <2>2, <2>3 DEF Same, TypeOK
    <3>3. promised' = [promised EXCEPT ![e] = "open"] /\ promised[e] = "none"
      BY <2>1, <2>3, <3>1, <3>2, OneShown, ShownValues DEF promised
    <3>4. tries' = tries
      BY <2>1, <2>2, <2>3, <3>1, <3>2 DEF tries, Same
    <3>5. PromiseCreate(e)
      BY <2>2, <3>3, <3>4 DEF PromiseCreate
    <3>6. QED
      BY <2>1, <3>5 DEF PromiseStep
  <2>4. CASE UNCHANGED job_status
    BY <2>2, <2>4, SameRows, SameShown DEF PromiseStep, PromiseUnchanged, rows
  <2>5. QED
    BY <1>2, <2>1, <2>3, <2>4 DEF Fold, TypeOK
<1>3. ASSUME NEW w \in Worker, Claim(w)
      PROVE  PromiseStep
  <2> DEFINE e == worker[w].job
  <2>1. e \in Event /\ Claimed(e) /\ RowSound(e)
    BY <1>3, WorkerReads, ClaimMoves DEF Claim, RowsSound
  <2>2. \A f \in Event : f # e => Same(f)
    BY <1>3, ClaimMoves
  <2>3. promised' = [promised EXCEPT ![e] = "open"] /\ promised[e] = "open"
    BY <2>1, <2>2, OneShown, ShownValues DEF promised, Claimed, Moved, Retryable
  <2>4. promised' = promised
    BY <2>3 DEF promised
  <2>5. tries' = [tries EXCEPT ![e] = @ + 1]
    BY <1>3, ClaimTries DEF tries
  <2>6. tries[e] < MAX_RETRIES
    BY <2>1, DeliveryAssumption
       DEF tries, Claimed, Moved, Retryable, RowSound, Exhausted, TypeOK
  <2>7. PromiseTry(e)
    BY <1>3, <2>3, <2>4, <2>5, <2>6 DEF PromiseTry, Claim, provider
  <2>8. QED
    BY <2>1, <2>7 DEF PromiseStep
<1>4. ASSUME NEW w \in Worker, DeadLetter(w)
      PROVE  PromiseStep
  <2> DEFINE e == worker[w].job
  <2>1. e \in Event /\ Buried(e) /\ RowSound(e)
    BY <1>4, BuryMoves DEF DeadLetter, RowsSound, TypeOK, Delivery
  <2>2. \A f \in Event : f # e => Same(f)
    BY <1>4, BuryMoves
  <2>3. promised' = [promised EXCEPT ![e] = "dead"] /\ promised[e] = "open"
    BY <2>1, <2>2, OneShown, ShownValues DEF promised, Buried, Moved
  <2>4. tries[e] = MAX_RETRIES
    <3>1. job_status[e] = "failed" /\ retry_count[e] >= MAX_RETRIES /\ retry_count[e] =< MAX_RETRIES
      BY <2>1 DEF Buried, RowSound, Exhausted
    <3>2. retry_count[e] \in Nat
      BY <2>1 DEF TypeOK
    <3>3. QED
      BY <2>1, <3>1, <3>2, DeliveryAssumption DEF tries
  <2>5. tries' = tries
    BY <2>1, <2>2, SameTries
  <2>6. PromiseGiveUp(e)
    BY <1>4, <2>3, <2>4, <2>5 DEF PromiseGiveUp, DeadLetter, provider
  <2>7. QED
    BY <2>1, <2>6 DEF PromiseStep
<1>5. ASSUME NEW w \in Worker, RecordSuccess(w)
      PROVE  PromiseStep
  <2> DEFINE e == worker[w].job
  <2>1. e \in Event /\ Done(e)
    BY <1>5, SuccessMoves, WorkerReads DEF RecordSuccess
  <2>2. \A f \in Event : f # e => Same(f)
    BY <1>5, SuccessMoves
  <2>3. promised' = [promised EXCEPT ![e] = "delivered"] /\ promised[e] = "open"
    BY <2>1, <2>2, OneShown, ShownValues DEF promised, Done, Moved
  <2>4. tries' = tries
    BY <2>1, <2>2, SameTries
  <2>5. PromiseDeliver(e)
    BY <1>5, <2>1, <2>3, <2>4 DEF PromiseDeliver, RecordSuccess, provider, Done
  <2>6. QED
    BY <2>1, <2>5 DEF PromiseStep
<1>6. ASSUME NEW w \in Worker, RecordFailure(w)
      PROVE  PromiseStep
  <2>1. worker[w].job \in Event /\ job_status[worker[w].job] = "delivering"
    BY <1>6, WorkerReads DEF RecordFailure
  <2>2. promised' = promised /\ tries' = tries
    BY <1>6, <2>1, FailureMoves, FailureShown DEF RecordFailure
  <2>3. QED
    BY <1>6, <2>2 DEF PromiseStep, PromiseUnchanged, RecordFailure, provider
<1>7. ASSUME NEW w \in Worker, Send(w)
      PROVE  PromiseStep
  <2> DEFINE e == worker[w].job
  <2>1. /\ calls' = [calls EXCEPT ![e] = @ + 1]
        /\ accepted' \in {accepted, accepted \cup {e}}
        /\ UNCHANGED rows
    BY <1>7 DEF Send
  <2>2. e \in Event /\ w \in Sending(e)
    BY <1>7 DEF Send, TypeOK, Delivery, Sending
  <2>3. Cardinality(Sending(e)) \in Nat /\ Cardinality(Sending(e)) # 0
    BY <2>2, SendingFinite, FS_EmptySet
  <2>4. calls[e] + Cardinality(Sending(e)) =< tries[e] /\ calls[e] \in Nat /\ tries[e] \in Nat
    BY <2>2 DEF CallsSound, TypeOK, tries
  <2>5. calls[e] < tries[e]
    BY <2>3, <2>4
  <2>6. PromiseCall(e)
    BY <2>1, <2>5, SameRows, SameShown DEF PromiseCall
  <2>7. QED
    BY <2>2, <2>6 DEF PromiseStep
<1>8. ASSUME NEW p \in Reaper, Reap(p)
      PROVE  PromiseStep
  <2>1. PICK s \in reaping[p] :
          IF job_status[s.job] = "delivering" /\ version[s.job] = s.version
          THEN /\ Save(s.job, "failed")
               /\ failures' = [failures EXCEPT ![s.job] = @ + 1]
               /\ retry_count' = [retry_count EXCEPT ![s.job] = @ + 1]
               /\ UNCHANGED successes
          ELSE UNCHANGED <<rows, overdue>>
    BY <1>8 DEF Reap
  <2>2. s.job \in Event
    BY DEF TypeOK
  <2>3. CASE job_status[s.job] = "delivering" /\ version[s.job] = s.version
    BY <2>1, <2>2, <2>3, FailureMoves, FailureShown, <1>8
       DEF PromiseStep, PromiseUnchanged, Reap, provider
  <2>4. CASE ~(job_status[s.job] = "delivering" /\ version[s.job] = s.version)
    BY <2>1, <2>4, SameRows, SameShown, <1>8 DEF PromiseStep, PromiseUnchanged, Reap, provider
  <2>5. QED
    BY <2>3, <2>4
<1>9. QED
  BY <1>1, <1>2, <1>3, <1>4, <1>5, <1>6, <1>7, <1>8
     DEF Next, vars, Log, Dispatch, DispatchStarts, FoldFails, Enqueue, DispatcherCrash, Deliver,
         ReadJob, LostRace, NothingToSend, WorkerCrash, Timeout, ReapScan

(* Whatever workers, reapers and crashes do, each job keeps the promise     *)
(* made for it (services.py, tasks.py).                                     *)
THEOREM PromiseImplemented == Spec => PromiseSpec
<1>1. Init => Promise!Init
  BY DEF Init, Promise!Init, tries
<1>2. PromiseStep => [Promise!Next]_Promise!vars
  BY DEF PromiseStep, PromiseUnchanged, PromiseCreate, PromiseTry, PromiseCall, PromiseDeliver,
         PromiseGiveUp, promised, Shown, Promise!Next, Promise!Create, Promise!Try, Promise!Call,
         Promise!Deliver, Promise!GiveUp, Promise!vars
<1>3. IInv /\ [Next]_vars => [Promise!Next]_Promise!vars
  BY <1>2, PromiseKept
<1>4. QED
  BY <1>1, <1>3, DeliverySound, PTL DEF Spec, PromiseSpec, Promise!Spec
=============================================================================
