------------------------ MODULE NotificationDelivery ------------------------
(* apps/notifications: the projector makes a job of each notifiable event,  *)
(* dispatch_notifications() queues the open jobs, Celery workers deliver    *)
(* them in two transactions around the provider call, and a reaper fails    *)
(* jobs whose worker was lost - or is only slow.  A job is named by its     *)
(* event: (source_event, channel) is unique and there is one channel.       *)
(*                                                                          *)
(* Events are numbered as EventProjection numbers them: by the insertion of *)
(* their outbox row, which is their occurred_at and what the checkpoint is  *)
(* compared with.  The relay may promote them in another order.             *)
EXTENDS Naturals, FiniteSets, FiniteSetsExt

CONSTANTS Worker, Dispatcher, Reaper,
          MAX_RETRIES,    \* settings.NOTIFICATION_MAX_RETRIES
          MaxEvent,       \* bound: notifiable events
          MaxMessages,    \* bound: queued deliveries of one job
          Nothing

ASSUME DeliveryAssumption ==
  /\ IsFiniteSet(Worker)
  /\ MAX_RETRIES \in Nat \ {0}
  /\ MaxEvent \in Nat

VARIABLES
  log,           \* notifiable events in the event log
  late,          \* history: promoted when the projector was already past them
  checkpoint,    \* ProjectionState.last_event_id, 0 if none
  withheld,      \* events folded without a job: no guest, or suppressed
  run,           \* per dispatcher: events read and not yet folded
  job_status, version, retry_count,
  failures, successes,   \* delivery_attempt rows of each job
  overdue,       \* jobs past the delivering timeout
  queue,         \* deliver_job messages, by job and Celery's own retry count
  worker,        \* per worker: the delivery it is carrying out
  reaping,       \* per reaper: the row versions its scan has returned
  calls, accepted        \* the provider's side

rows == <<job_status, version, retry_count, failures, successes>>
provider == <<calls, accepted>>
vars ==
  <<log, late, checkpoint, withheld, run, rows, overdue, queue, worker, reaping, provider>>

Event == 1..MaxEvent
Retries == 0..(MAX_RETRIES + 1)
Status == {"none", "pending", "delivering", "delivered", "failed", "dead_lettered"}
Retryable == {"pending", "failed"}

Delivery ==
  [job : Event, retries : Retries, step : {"claim", "send", "record"},
   version : Nat, ok : BOOLEAN]

Init ==
  /\ log = {} /\ late = {} /\ checkpoint = 0 /\ withheld = {}
  /\ run = [d \in Dispatcher |-> Nothing]
  /\ job_status = [e \in Event |-> "none"]
  /\ version = [e \in Event |-> 0]
  /\ retry_count = [e \in Event |-> 0]
  /\ failures = [e \in Event |-> 0]
  /\ successes = [e \in Event |-> 0]
  /\ overdue = {}
  /\ queue = [e \in Event |-> [r \in Retries |-> 0]]
  /\ worker = [w \in Worker |-> Nothing]
  /\ reaping = [p \in Reaper |-> {}]
  /\ calls = [e \in Event |-> 0]
  /\ accepted = {}

-----------------------------------------------------------------------------
(* Events, the projector and the dispatcher.                                *)

(* The projector has passed e, or will: it has a later event in hand. *)
PassedBy(e) ==
  \/ checkpoint > e
  \/ \E d \in Dispatcher : run[d] # Nothing /\ \E x \in run[d] : x > e

(* The relay promotes the outbox row of e. *)
Log ==
  \E e \in Event \ log :
    /\ log' = log \cup {e}
    /\ late' = IF PassedBy(e) THEN late \cup {e} ELSE late
    /\ UNCHANGED <<checkpoint, withheld, run, rows, overdue, queue, worker, reaping, provider>>

PendingEvents == {e \in log : e > checkpoint}

DispatchStarts(d) ==
  /\ run[d] = Nothing
  /\ run' = [run EXCEPT ![d] = PendingEvents]
  /\ UNCHANGED <<log, late, checkpoint, withheld, rows, overdue, queue, worker, reaping, provider>>

(* One transaction: the job, unless there is one or none is due, and the    *)
(* checkpoint, which an overlapping run may move back.                      *)
Fold(d) ==
  LET e == Min(run[d])
  IN
  /\ run[d] \notin {Nothing, {}}
  /\ run' = [run EXCEPT ![d] = @ \ {e}]
  /\ checkpoint' = e
  /\ \/ /\ job_status' = [job_status EXCEPT ![e] = IF @ = "none" THEN "pending" ELSE @]
        /\ UNCHANGED withheld
     \/ withheld' = withheld \cup {e} /\ UNCHANGED job_status
  /\ UNCHANGED <<log, late, version, retry_count, failures, successes, overdue, queue, worker,
                 reaping, provider>>

(* A definition whose name carries a suffix is the one it is named after    *)
(* with a slip in it, for the properties to catch; nothing else uses it.    *)
FoldFails_PassesOver(d) ==
  /\ run[d] \notin {Nothing, {}}
  /\ run' = [run EXCEPT ![d] = {}]
  /\ checkpoint' = Min(run[d])
  /\ UNCHANGED <<log, late, withheld, rows, overdue, queue, worker, reaping, provider>>

(* An exception ends the batch; the task goes on to queue what is open. *)
FoldFails(d) ==
  /\ run[d] \notin {Nothing, {}}
  /\ run' = [run EXCEPT ![d] = {}]
  /\ UNCHANGED <<log, late, checkpoint, withheld, rows, overdue, queue, worker, reaping, provider>>

queued(e) == {r \in Retries : queue[e][r] > 0}

(* pending_and_retryable() and one delay() per row; some may be lost. *)
Enqueue(d) ==
  /\ run[d] = {}
  /\ run' = [run EXCEPT ![d] = Nothing]
  /\ \E reached \in SUBSET {e \in Event : job_status[e] \in Retryable} :
       /\ \A e \in reached : queue[e][0] < MaxMessages
       /\ queue' = [e \in Event |->
                      IF e \in reached THEN [queue[e] EXCEPT ![0] = @ + 1] ELSE queue[e]]
  /\ UNCHANGED <<log, late, checkpoint, withheld, rows, overdue, worker, reaping, provider>>

DispatcherCrash(d) ==
  /\ run[d] # Nothing
  /\ run' = [run EXCEPT ![d] = Nothing]
  /\ UNCHANGED <<log, late, checkpoint, withheld, rows, overdue, queue, worker, reaping, provider>>

-----------------------------------------------------------------------------
(* deliver_notification_job() and NotificationService.deliver().            *)

(* The worker takes a message, which is then gone, and reads the row.  A    *)
(* row that can neither be claimed nor given up ends the task.              *)
ReadJob(w) ==
  \E e \in Event, r \in Retries :
    /\ worker[w] = Nothing
    /\ queue[e][r] > 0
    /\ queue' = [queue EXCEPT ![e][r] = @ - 1]
    /\ worker' = [worker EXCEPT ![w] =
         IF job_status[e] \in Retryable
         THEN [job |-> e, retries |-> r, step |-> "claim", version |-> version[e], ok |-> FALSE]
         ELSE Nothing]
    /\ UNCHANGED <<log, late, checkpoint, withheld, run, rows, overdue, reaping, provider>>

Fresh_Unversioned(w) == TRUE

(* VersionedMixin.save(): the row is written only if it is as it was read. *)
Fresh(w) == version[worker[w].job] = worker[w].version

Exhausted(e) == job_status[e] = "failed" /\ retry_count[e] >= MAX_RETRIES

Save(e, status) ==
  /\ job_status' = [job_status EXCEPT ![e] = status]
  /\ version' = [version EXCEPT ![e] = @ + 1]
  /\ overdue' = overdue \ {e}

Claim(w) ==
  LET e == worker[w].job
  IN
  /\ worker[w] # Nothing /\ worker[w].step = "claim"
  /\ Fresh(w) /\ ~Exhausted(e)
  /\ Save(e, "delivering")
  /\ worker' = [worker EXCEPT ![w].step = "send"]
  /\ UNCHANGED <<log, late, checkpoint, withheld, run, retry_count, failures, successes, queue,
                 reaping, provider>>

DeadLetter(w) ==
  LET e == worker[w].job
  IN
  /\ worker[w] # Nothing /\ worker[w].step = "claim"
  /\ Fresh(w) /\ Exhausted(e)
  /\ Save(e, "dead_lettered")
  /\ worker' = [worker EXCEPT ![w] = Nothing]
  /\ UNCHANGED <<log, late, checkpoint, withheld, run, retry_count, failures, successes, queue,
                 reaping, provider>>

(* ConcurrencyError: "lost_race". *)
LostRace(w) ==
  /\ worker[w] # Nothing /\ worker[w].step \in {"claim", "record"}
  /\ ~Fresh(w)
  /\ worker' = [worker EXCEPT ![w] = Nothing]
  /\ UNCHANGED <<log, late, checkpoint, withheld, run, rows, overdue, queue, reaping, provider>>

(* The call outside any transaction, then TX2's read of the row, whose      *)
(* status another worker or the reaper may have changed.                    *)
Answered(w, ok) ==
  LET e == worker[w].job
  IN worker' = [worker EXCEPT ![w] =
       IF job_status[e] = "delivering"
       THEN [@ EXCEPT !.step = "record", !.version = version[e], !.ok = ok]
       ELSE Nothing]

Send(w) ==
  LET e == worker[w].job
  IN
  /\ worker[w] # Nothing /\ worker[w].step = "send"
  /\ calls' = [calls EXCEPT ![e] = @ + 1]
  /\ \/ accepted' = accepted \cup {e} /\ Answered(w, TRUE)
     \/ UNCHANGED accepted /\ Answered(w, FALSE)
  /\ UNCHANGED <<log, late, checkpoint, withheld, run, rows, overdue, queue, reaping>>

(* No template, no address, or a template that does not fit the context. *)
NothingToSend(w) ==
  /\ worker[w] # Nothing /\ worker[w].step = "send"
  /\ Answered(w, FALSE)
  /\ UNCHANGED <<log, late, checkpoint, withheld, run, rows, overdue, queue, reaping, provider>>

RecordSuccess(w) ==
  LET e == worker[w].job
  IN
  /\ worker[w] # Nothing /\ worker[w].step = "record" /\ worker[w].ok
  /\ Fresh(w)
  /\ Save(e, "delivered")
  /\ successes' = [successes EXCEPT ![e] = @ + 1]
  /\ worker' = [worker EXCEPT ![w] = Nothing]
  /\ UNCHANGED <<log, late, checkpoint, withheld, run, retry_count, failures, queue, reaping, provider>>

(* A failed try is queued again, until Celery's own ceiling, unless the     *)
(* worker is lost before it says so.                                        *)
RecordFailure(w) ==
  LET e == worker[w].job
      r == worker[w].retries
  IN
  /\ worker[w] # Nothing /\ worker[w].step = "record" /\ ~worker[w].ok
  /\ Fresh(w)
  /\ Save(e, "failed")
  /\ failures' = [failures EXCEPT ![e] = @ + 1]
  /\ retry_count' = [retry_count EXCEPT ![e] = @ + 1]
  /\ worker' = [worker EXCEPT ![w] = Nothing]
  /\ \/ r <= MAX_RETRIES /\ queue' = [queue EXCEPT ![e][r + 1] = @ + 1]
     \/ UNCHANGED queue
  /\ UNCHANGED <<log, late, checkpoint, withheld, run, successes, reaping, provider>>

WorkerCrash(w) ==
  /\ worker[w] # Nothing
  /\ worker' = [worker EXCEPT ![w] = Nothing]
  /\ UNCHANGED <<log, late, checkpoint, withheld, run, rows, overdue, queue, reaping, provider>>

-----------------------------------------------------------------------------
(* The reaper.  A row's version moves whenever its updated_at does.         *)

Timeout(e) ==
  /\ job_status[e] = "delivering" /\ e \notin overdue
  /\ overdue' = overdue \cup {e}
  /\ UNCHANGED <<log, late, checkpoint, withheld, run, rows, queue, worker, reaping, provider>>

ReapScan_SparesLastTry(p) ==
  LET reaped == {e \in overdue : retry_count[e] + 1 < MAX_RETRIES}
  IN
  /\ reaping[p] = {} /\ reaped # {}
  /\ reaping' = [reaping EXCEPT ![p] = {[job |-> e, version |-> version[e]] : e \in reaped}]
  /\ UNCHANGED <<log, late, checkpoint, withheld, run, rows, overdue, queue, worker, provider>>

ReapScan(p) ==
  /\ reaping[p] = {} /\ overdue # {}
  /\ reaping' = [reaping EXCEPT ![p] = {[job |-> e, version |-> version[e]] : e \in overdue}]
  /\ UNCHANGED <<log, late, checkpoint, withheld, run, rows, overdue, queue, worker, provider>>

(* Locked and looked at again: it must not have been written since. *)
Reap(p) ==
  \E s \in reaping[p] :
    /\ reaping' = [reaping EXCEPT ![p] = @ \ {s}]
    /\ IF job_status[s.job] = "delivering" /\ version[s.job] = s.version
       THEN /\ Save(s.job, "failed")
            /\ failures' = [failures EXCEPT ![s.job] = @ + 1]
            /\ retry_count' = [retry_count EXCEPT ![s.job] = @ + 1]
            /\ UNCHANGED successes
       ELSE UNCHANGED <<rows, overdue>>
    /\ UNCHANGED <<log, late, checkpoint, withheld, run, queue, worker, provider>>

-----------------------------------------------------------------------------
Dispatch(d) ==
  DispatchStarts(d) \/ Fold(d) \/ FoldFails(d) \/ Enqueue(d) \/ DispatcherCrash(d)

Deliver(w) ==
  \/ ReadJob(w) \/ Claim(w) \/ DeadLetter(w) \/ LostRace(w) \/ Send(w)
  \/ NothingToSend(w) \/ RecordSuccess(w) \/ RecordFailure(w) \/ WorkerCrash(w)

Next ==
  \/ Log
  \/ \E d \in Dispatcher : Dispatch(d)
  \/ \E w \in Worker : Deliver(w)
  \/ \E e \in Event : Timeout(e)
  \/ \E p \in Reaper : ReapScan(p) \/ Reap(p)

Spec == Init /\ [][Next]_vars

(* CELERY_BEAT_SCHEDULE runs the reaper every minute, and time passes.      *)
(* Workers take what is queued.  Nothing schedules dispatch_notifications().*)
Fairness ==
  /\ \A e \in Event : WF_vars(Timeout(e))
  /\ \A p \in Reaper : WF_vars(ReapScan(p)) /\ WF_vars(Reap(p))
  /\ \A w \in Worker : WF_vars(Deliver(w))

FairSpec == Spec /\ Fairness

-----------------------------------------------------------------------------
TypeOK ==
  /\ log \subseteq Event /\ late \subseteq Event /\ checkpoint \in 0..MaxEvent
  /\ withheld \subseteq Event /\ overdue \subseteq Event /\ accepted \subseteq Event
  /\ run \in [Dispatcher -> (SUBSET Event) \cup {Nothing}]
  /\ job_status \in [Event -> Status]
  /\ version \in [Event -> Nat] /\ retry_count \in [Event -> Nat]
  /\ failures \in [Event -> Nat] /\ successes \in [Event -> Nat]
  /\ calls \in [Event -> Nat]
  /\ queue \in [Event -> [Retries -> Nat]]
  /\ worker \in [Worker -> Delivery \cup {Nothing}]
  /\ reaping \in [Reaper -> SUBSET [job : Event, version : Nat]]

(* tasks.py:9-13, services.py:21-23: the row's retry_count, the failed      *)
(* attempts and Celery's counters record the same failures, so that Celery  *)
(* never gives up before the database does; one success iff delivered.      *)
CountersAgree ==
  \A e \in Event :
    /\ failures[e] = retry_count[e]
    /\ successes[e] = IF job_status[e] = "delivered" THEN 1 ELSE 0
    /\ \A r \in queued(e) : r <= retry_count[e]
    /\ \A w \in Worker :
         worker[w] # Nothing /\ worker[w].job = e => worker[w].retries <= retry_count[e]

(* projectors.py: an event the checkpoint has passed has its job, unless    *)
(* there was nobody to notify - also when runs overlap, fail or crash.  The *)
(* exception is an event promoted late: the checkpoint is a time, and what  *)
(* the relay promotes from before it is not asked for again.                *)
NothingDropped ==
  \A e \in log : e <= checkpoint => job_status[e] # "none" \/ e \in withheld \/ e \in late

(* What the log, the checkpoint, the jobs, their attempts and Celery say of *)
(* an event is one story.                                                   *)
RecordsAgree == CountersAgree /\ NothingDropped

(* What NotificationPromise calls a try is a claim. *)
tries ==
  [e \in Event |-> retry_count[e] + IF job_status[e] \in {"delivering", "delivered"} THEN 1 ELSE 0]

Promise ==
  INSTANCE NotificationPromise WITH
    job <- [e \in Event |->
              CASE job_status[e] = "none" -> "none"
                [] job_status[e] = "delivered" -> "delivered"
                [] job_status[e] = "dead_lettered" -> "dead"
                [] OTHER -> "open"]

(* Whatever workers, reapers and crashes do, each job keeps the promise. *)
PromiseSpec == Promise!Spec

(* services.py:105-115 (R0.4): no job stays in delivering for ever. *)
NoneStuck == \A e \in Event : job_status[e] = "delivering" ~> job_status[e] # "delivering"

(* tasks.py:64-66: a job the reaper has failed waits for "the NEXT          *)
(* dispatch_notifications tick", which queues it again.  The schedule of    *)
(* config/settings/base.py:240 has no such tick.                            *)
FailedRequeued ==
  \A e \in Event :
    job_status[e] = "failed" /\ queued(e) = {} ~> job_status[e] # "failed" \/ queued(e) # {}
=============================================================================
