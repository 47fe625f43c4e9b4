---------------------------- MODULE SlotCalendar -----------------------------
(* apps/availability, for one room type: the monthly partitions that hold   *)
(* the slots, the task that creates them ahead of today and drops those     *)
(* behind it, the opening of the horizon, and stays that hold nights of it. *)
(* Each DDL statement of the task commits by itself; an opening reads, then *)
(* inserts; both may stop half way.                                         *)
EXTENDS Naturals, FiniteSets, FiniteSetsExt

CONSTANTS
  FirstDay,                    \* the days that open a month; 0 is one
  AVAILABILITY_HORIZON_DAYS,
  Units,                       \* total_units of every slot
  Clerk, Stay, Nothing,
  LastDay                      \* bound: the clock

VARIABLES
  today,
  partitions,    \* the first days of the months that have a partition
  slot,          \* per night: units reserved or sold, Nothing without a slot
  nights,        \* per stay: the nights it holds
  job,           \* per clerk: the task or the opening that runs
  opened,        \* history: nights that have had a slot
  maintained     \* history: today as the last task to create its months read it

vars == <<today, partitions, slot, nights, job, opened, maintained>>

Day == 0..(LastDay + AVAILABILITY_HORIZON_DAYS)

-----------------------------------------------------------------------------
(* partitioning.py.                                                         *)

month_start(day) == Max({m \in FirstDay : m <= day})

(* The month of the end is one of them. *)
iter_months(start, end) ==
  {m \in FirstDay : month_start(start) <= m /\ m <= month_start(end)}

Stored(night) == month_start(night) \in partitions

Horizon(start) == iter_months(start, start + AVAILABILITY_HORIZON_DAYS)

(* The migration has created the months of its day. *)
Init ==
  /\ today = 0
  /\ partitions = Horizon(0)
  /\ slot = [night \in Day |-> Nothing]
  /\ nights = [s \in Stay |-> {}]
  /\ job = [c \in Clerk |-> Nothing]
  /\ opened = {}
  /\ maintained = 0

Tick ==
  /\ today < LastDay
  /\ today' = today + 1
  /\ UNCHANGED <<partitions, slot, nights, job, opened, maintained>>

Begin(c, call) == job[c] = Nothing /\ job' = [job EXCEPT ![c] = call]
At(c, step) == job[c] # Nothing /\ job[c].step = step
Go(c, call) == job' = [job EXCEPT ![c] = call]

-----------------------------------------------------------------------------
(* manage_availability_partitions().                                        *)

StartTask(c) ==
  /\ Begin(c, [step |-> "create", today |-> today, months |-> Horizon(today)])
  /\ UNCHANGED <<today, partitions, slot, nights, opened, maintained>>

(* ensure_partitions(): month after month, those there are left alone. *)
CreatePartition(c) ==
  LET month == Min(job[c].months)
  IN
  /\ At(c, "create") /\ job[c].months # {}
  /\ partitions' = partitions \cup {month}
  /\ job' = [job EXCEPT ![c].months = @ \ {month}]
  /\ UNCHANGED <<today, slot, nights, opened, maintained>>

Behind(day) == {m \in partitions : m < month_start(day)}

(* drop_partitions_before(): what is behind is listed, then dropped. *)
ListPartitions(c) ==
  /\ At(c, "create") /\ job[c].months = {}
  /\ maintained' = Max({maintained, job[c].today})
  /\ Go(c, [step |-> "drop", months |-> Behind(job[c].today)])
  /\ UNCHANGED <<today, partitions, slot, nights, opened>>

DropPartition(c) ==
  /\ At(c, "drop")
  /\ \E month \in job[c].months :
       /\ partitions' = partitions \ {month}
       /\ slot' = [night \in Day |-> IF month_start(night) = month THEN Nothing ELSE slot[night]]
       /\ job' = [job EXCEPT ![c].months = @ \ {month}]
  /\ UNCHANGED <<today, nights, opened, maintained>>

(* A task that is done, or dies. *)
TaskEnds(c) ==
  /\ At(c, "create") \/ At(c, "drop")
  /\ Go(c, Nothing)
  /\ UNCHANGED <<today, partitions, slot, nights, opened, maintained>>

-----------------------------------------------------------------------------
(* AvailabilityService.initialize_horizon().                                *)

ReadExisting(c) ==
  /\ \E start \in Day, days \in 1..AVAILABILITY_HORIZON_DAYS :
       LET missing == {night \in start..(start + days - 1) \cap Day : slot[night] = Nothing}
       IN  missing # {} /\ Begin(c, [step |-> "insert", missing |-> missing])
  /\ UNCHANGED <<today, partitions, slot, nights, opened, maintained>>

(* One statement: it fails if a night has a slot by now, or no partition. *)
Insertable(missing) == \A night \in missing : slot[night] = Nothing /\ Stored(night)

InsertSlots(c) ==
  LET missing == job[c].missing
  IN
  /\ At(c, "insert")
  /\ IF Insertable(missing)
     THEN /\ slot' = [night \in Day |-> IF night \in missing THEN 0 ELSE slot[night]]
          /\ opened' = opened \cup missing
     ELSE UNCHANGED <<slot, opened>>
  /\ Go(c, Nothing)
  /\ UNCHANGED <<today, partitions, nights, maintained>>

-----------------------------------------------------------------------------
(* The repository's consume and release of a window: every night must have  *)
(* a slot, with a unit left or a unit taken.                                *)

Consume(s) ==
  /\ nights[s] = {}
  /\ \E arrival, departure \in Day :
       LET window == arrival..(departure - 1)
       IN
       /\ arrival < departure
       /\ \A night \in window : slot[night] # Nothing /\ slot[night] < Units
       /\ slot' = [night \in Day |-> IF night \in window THEN slot[night] + 1 ELSE slot[night]]
       /\ nights' = [nights EXCEPT ![s] = window]
  /\ UNCHANGED <<today, partitions, job, opened, maintained>>

Release(s) ==
  /\ nights[s] # {}
  /\ \A night \in nights[s] : slot[night] # Nothing /\ slot[night] > 0
  /\ slot' = [night \in Day |-> IF night \in nights[s] THEN slot[night] - 1 ELSE slot[night]]
  /\ nights' = [nights EXCEPT ![s] = {}]
  /\ UNCHANGED <<today, partitions, job, opened, maintained>>

-----------------------------------------------------------------------------
Next ==
  \/ Tick
  \/ \E c \in Clerk :
       \/ StartTask(c) \/ CreatePartition(c) \/ ListPartitions(c) \/ DropPartition(c) \/ TaskEnds(c)
       \/ ReadExisting(c) \/ InsertSlots(c)
  \/ \E s \in Stay : Consume(s) \/ Release(s)

Spec == Init /\ [][Next]_vars

-----------------------------------------------------------------------------
TypeOK ==
  /\ today \in 0..LastDay /\ maintained \in 0..LastDay
  /\ partitions \subseteq FirstDay
  /\ slot \in [Day -> 0..Units \cup {Nothing}]
  /\ nights \in [Stay -> SUBSET Day]
  /\ opened \subseteq Day
  /\ \A c \in Clerk : job[c] # Nothing => job[c].step \in {"create", "drop", "insert"}

Ahead == {night \in Day : month_start(today) <= night}

(* partitioning.py:90-91, "the current month is never dropped": a night     *)
(* that was opened keeps its slot until its month is over.                  *)
NightsAheadOpen == \A night \in opened \cap Ahead : slot[night] # Nothing

(* The slot of such a night counts the stays that hold it, so that each of  *)
(* them can be released: no opening resets a counter, no task loses one.    *)
NightsAheadCounted ==
  \A night \in Ahead : slot[night] # Nothing =>
    slot[night] = Cardinality({s \in Stay : night \in nights[s]})

(* tasks.py:3-4: once a task has created its months, every night of its     *)
(* horizon, the day after the last one included, can be stored until it is  *)
(* past, whatever an older task still drops.                                *)
HorizonStored ==
  \A night \in Ahead :
    night \in maintained..(maintained + AVAILABILITY_HORIZON_DAYS) => Stored(night)

(* What is for sale stands. *)
NightsStand == NightsAheadOpen /\ NightsAheadCounted /\ HorizonStored
=============================================================================
