------------------------ MODULE ReservationLifecycle ------------------------
(***************************************************************************)
(* Reservations, the bookings they become, and the availability ledger     *)
(* they draw on, at the granularity of one service call per step: each     *)
(* entry point of ReservationService, BookingService and InventoryService  *)
(* runs in one database transaction under row locks, so that it takes      *)
(* effect at once or not at all (ReservationLocks shows why that is        *)
(* sound).  The expiry sweep is the exception: a Celery task outside any   *)
(* transaction, which reads the ids of the overdue reservations and then   *)
(* expires them one transaction at a time, while anything may happen in    *)
(* between.                                                                *)
(*                                                                         *)
(* A call that raises rolls back and leaves the state as it was: it is a   *)
(* stuttering step, so an action below is the call that succeeds.          *)
(***************************************************************************)
EXTENDS Integers, FiniteSets

CONSTANTS
  RoomType,
  Date,        \* business dates, integers
  TotalUnits,  \* [RoomType -> Nat]: what initialize_horizon() opens per night
  Horizon,     \* AVAILABILITY_HORIZON_DAYS
  Res,         \* the reservations clients may ask for, one idempotency key each
  Sale,        \* the direct sales a front desk may make, one key each
  Unit,        \* one room of one requested line (a line of quantity q has q)
  Owner,       \* [Unit -> Res \cup Sale]
  Nights,      \* [Unit -> SUBSET Slot]: the line's room type on its stay's nights
  HoldMinutes, \* RESERVATION_HOLD_MINUTES
  Sweeper,     \* concurrent runs of the sweep task
  MaxTime,     \* bound of the clock
  MaxCrashes   \* bound on sweep runs lost with their worker

Slot == RoomType \X Date

Claimant == Res \cup Sale

ASSUME DataAssumption ==
  /\ Date \subseteq Int
  /\ TotalUnits \in [RoomType -> Nat \ {0}]
  /\ Horizon \in Nat \ {0}
  /\ Res \cap Sale = {}
  /\ IsFiniteSet(Unit)
  /\ Owner \in [Unit -> Claimant]
  /\ Nights \in [Unit -> SUBSET Slot]

ASSUME BoundsAssumption ==
  /\ HoldMinutes \in Nat \ {0}
  /\ MaxTime \in Nat
  /\ MaxCrashes \in Nat

VARIABLES
  now,             \* the clock, in minutes
  status,          \* [Res -> Status], "none" before reserve() commits
  hold_expiry_at,  \* [Res -> Nat]
  booking_lines,   \* the units that have a BookingLine row
  sold_direct,     \* the sales whose InventoryService.sell() committed
  total_units,     \* [Slot -> Nat], 0 where no slot row exists
  sold,            \* [Slot -> Int]
  reserved,        \* [Slot -> Int]
  out_of_service,  \* [Slot -> Int]
  overdue_ids,     \* [Sweeper -> SUBSET Res]: read by a run, not yet expired by it
  crashes

slotVars == <<total_units, sold, reserved, out_of_service>>
sweepVars == <<overdue_ids, crashes>>
vars == <<now, status, hold_expiry_at, booking_lines, sold_direct, slotVars, sweepVars>>

-----------------------------------------------------------------------------
(* "draft" exists only inside reserve()'s transaction, which ends in "held" *)
Unsettled == {"held", "awaiting_payment"}
Settled == {"expired", "cancelled", "converted"}
Status == {"none"} \cup Unsettled \cup Settled

UnitsOf(c) == {u \in Unit : Owner[u] = c}

(* Units of claimant c that need slot s: the sum of its lines' quantities. *)
Demand(c, s) == Cardinality({u \in UnitsOf(c) : s \in Nights[u]})

Window(c) == UNION {Nights[u] : u \in UnitsOf(c)}

remaining(s) == total_units[s] - sold[s] - reserved[s] - out_of_service[s]

Initialized(s) == total_units[s] > 0

HoldExpired(r) == status[r] \in Unsettled /\ hold_expiry_at[r] < now

(* Slips the properties must catch are kept next to the definition they    *)
(* deform, under its name and a suffix; nothing else uses them.            *)
overdue_holds_Early == {r \in Res : status[r] \in Unsettled /\ hold_expiry_at[r] =< now}

overdue_holds_HeldOnly == {r \in Res : status[r] = "held" /\ hold_expiry_at[r] < now}

overdue_holds == {r \in Res : HoldExpired(r)}

Lesser(a, b) == IF a =< b THEN a ELSE b

-----------------------------------------------------------------------------
Init ==
  /\ now = 0
  /\ status = [r \in Res |-> "none"]
  /\ hold_expiry_at = [r \in Res |-> 0]
  /\ booking_lines = {}
  /\ sold_direct = {}
  /\ total_units = [s \in Slot |-> 0]
  /\ sold = [s \in Slot |-> 0]
  /\ reserved = [s \in Slot |-> 0]
  /\ out_of_service = [s \in Slot |-> 0]
  /\ overdue_ids = [w \in Sweeper |-> {}]
  /\ crashes = 0

Tick ==
  /\ now < MaxTime
  /\ now' = now + 1
  /\ UNCHANGED <<status, hold_expiry_at, booking_lines, sold_direct, slotVars, sweepVars>>

(* Opens the nights of a room type's horizon that have no row yet. *)
InitializeHorizon(rt, start) ==
  LET missing == {s \in Slot : /\ s[1] = rt
                               /\ start =< s[2] /\ s[2] < start + Horizon
                               /\ ~Initialized(s)}
  IN /\ missing # {}
     /\ total_units' = [s \in Slot |-> IF s \in missing THEN TotalUnits[rt] ELSE total_units[s]]
     /\ UNCHANGED <<now, status, hold_expiry_at, booking_lines, sold_direct,
                    sold, reserved, out_of_service, sweepVars>>

-----------------------------------------------------------------------------
CanConsume_IgnoresHolds(c) ==
  \A s \in Window(c) :
    Initialized(s) /\ total_units[s] - sold[s] - out_of_service[s] >= Demand(c, s)

CanConsume_SomeNight(c) == \E s \in Window(c) : Initialized(s) /\ remaining(s) >= Demand(c, s)

(* Locked, checked and written as one window per line; the lines of one    *)
(* call add up, and the first short night of any line rolls back them all. *)
CanConsume(c) == \A s \in Window(c) : Initialized(s) /\ remaining(s) >= Demand(c, s)

Reserve(r) ==
  /\ status[r] = "none"
  /\ CanConsume(r)
  /\ reserved' = [s \in Slot |-> reserved[s] + Demand(r, s)]
  /\ status' = [status EXCEPT ![r] = "held"]
  /\ hold_expiry_at' = [hold_expiry_at EXCEPT ![r] = now + HoldMinutes]
  /\ UNCHANGED <<now, booking_lines, sold_direct, total_units, sold, out_of_service, sweepVars>>

RequestPayment(r) ==
  /\ ~HoldExpired(r)
  /\ status[r] = "held"
  /\ status' = [status EXCEPT ![r] = "awaiting_payment"]
  /\ UNCHANGED <<now, hold_expiry_at, booking_lines, sold_direct, slotVars, sweepVars>>

(* ReservationService.convert() and the booking rows, one transaction. *)
CanConvert(r) ==
  /\ ~HoldExpired(r)
  /\ status[r] = "awaiting_payment"
  /\ \A s \in Window(r) : Initialized(s) /\ reserved[s] >= Demand(r, s)

Confirm_OneLine(r) ==
  /\ CanConvert(r)
  /\ reserved' = [s \in Slot |-> reserved[s] - Demand(r, s)]
  /\ sold' = [s \in Slot |-> sold[s] + Demand(r, s)]
  /\ status' = [status EXCEPT ![r] = "converted"]
  /\ booking_lines' = booking_lines \cup {CHOOSE u \in UnitsOf(r) : TRUE}
  /\ UNCHANGED <<now, hold_expiry_at, sold_direct, total_units, out_of_service, sweepVars>>

Confirm(r) ==
  /\ CanConvert(r)
  /\ reserved' = [s \in Slot |-> reserved[s] - Demand(r, s)]
  /\ sold' = [s \in Slot |-> sold[s] + Demand(r, s)]
  /\ status' = [status EXCEPT ![r] = "converted"]
  /\ booking_lines' = booking_lines \cup UnitsOf(r)
  /\ UNCHANGED <<now, hold_expiry_at, sold_direct, total_units, out_of_service, sweepVars>>

(* Gives back at most what is still reserved, so that it never goes below 0. *)
ReleaseHold(r) ==
  /\ \A s \in Window(r) : Initialized(s)
  /\ reserved' = [s \in Slot |-> reserved[s] - Lesser(Demand(r, s), reserved[s])]

ReleaseAndSettle_Again(r, target) ==
  /\ status[r] \in Unsettled \cup {target}
  /\ ReleaseHold(r)
  /\ status' = [status EXCEPT ![r] = target]

ReleaseAndSettle(r, target) ==
  /\ status[r] \in Unsettled
  /\ ReleaseHold(r)
  /\ status' = [status EXCEPT ![r] = target]

Cancel(r) ==
  /\ ReleaseAndSettle(r, "cancelled")
  /\ UNCHANGED <<now, hold_expiry_at, booking_lines, sold_direct,
                 total_units, sold, out_of_service, sweepVars>>

-----------------------------------------------------------------------------
SweepRead(w) ==
  /\ overdue_ids[w] = {}
  /\ overdue_holds # {}
  /\ overdue_ids' = [overdue_ids EXCEPT ![w] = overdue_holds]
  /\ UNCHANGED <<now, status, hold_expiry_at, booking_lines, sold_direct, slotVars, crashes>>

Expire_StaleStatus(r) ==
  /\ ReleaseHold(r)
  /\ status' = [status EXCEPT ![r] = "expired"]

(* expire() locks the row and reads its status again: settled is a no-op.  *)
(* It does not read the clock again.                                       *)
Expire(r) ==
  \/ ReleaseAndSettle(r, "expired")
  \/ /\ status[r] \notin Unsettled
     /\ UNCHANGED <<status, reserved>>

SweepExpire(w) ==
  \E r \in overdue_ids[w] :
    /\ Expire(r)
    /\ overdue_ids' = [overdue_ids EXCEPT ![w] = @ \ {r}]
    /\ UNCHANGED <<now, hold_expiry_at, booking_lines, sold_direct,
                   total_units, sold, out_of_service, crashes>>

(* The worker process dies: the ids it had read are gone with it. *)
SweepCrash(w) ==
  /\ crashes < MaxCrashes
  /\ overdue_ids[w] # {}
  /\ overdue_ids' = [overdue_ids EXCEPT ![w] = {}]
  /\ crashes' = crashes + 1
  /\ UNCHANGED <<now, status, hold_expiry_at, booking_lines, sold_direct, slotVars>>

-----------------------------------------------------------------------------
SellDirect(c) ==
  /\ c \notin sold_direct
  /\ CanConsume(c)
  /\ sold' = [s \in Slot |-> sold[s] + Demand(c, s)]
  /\ sold_direct' = sold_direct \cup {c}
  /\ UNCHANGED <<now, status, hold_expiry_at, booking_lines,
                 total_units, reserved, out_of_service, sweepVars>>

RowConstraints_NoFloor(s, oos) == sold[s] + reserved[s] + oos =< total_units[s]

(* The two CHECK constraints of a slot row: what it becomes must satisfy.  *)
RowConstraints(s, oos) == oos >= 0 /\ sold[s] + reserved[s] + oos =< total_units[s]

(* The projector's adjustment over the nights from `first' on.  The code   *)
(* has no guard of its own: one night that the constraints refuse rolls    *)
(* the whole window back.                                                  *)
AdjustOutOfService(rt, first, delta) ==
  LET window == {s \in Slot : /\ s[1] = rt
                              /\ first =< s[2] /\ s[2] < first + Horizon
                              /\ Initialized(s)}
  IN /\ window # {}
     /\ \A s \in window : RowConstraints(s, out_of_service[s] + delta)
     /\ out_of_service' = [s \in Slot |-> IF s \in window THEN out_of_service[s] + delta
                                                          ELSE out_of_service[s]]
     /\ UNCHANGED <<now, status, hold_expiry_at, booking_lines, sold_direct,
                    total_units, sold, reserved, sweepVars>>

-----------------------------------------------------------------------------
Next ==
  \/ Tick
  \/ \E rt \in RoomType, d \in Date :
       \/ InitializeHorizon(rt, d)
       \/ \E delta \in {-1, 1} : AdjustOutOfService(rt, d, delta)
  \/ \E r \in Res : Reserve(r) \/ RequestPayment(r) \/ Confirm(r) \/ Cancel(r)
  \/ \E c \in Sale : SellDirect(c)
  \/ \E w \in Sweeper : SweepRead(w) \/ SweepExpire(w) \/ SweepCrash(w)

Spec == Init /\ [][Next]_vars

(* Celery beat starts the sweep every 60 seconds, and a run that does not  *)
(* die goes through its list.  Nothing else is promised to happen.         *)
Fairness == \A w \in Sweeper : WF_vars(SweepRead(w)) /\ WF_vars(SweepExpire(w))

FairSpec == Spec /\ Fairness

-----------------------------------------------------------------------------
TypeOK ==
  /\ now \in Nat
  /\ status \in [Res -> Status]
  /\ hold_expiry_at \in [Res -> Nat]
  /\ booking_lines \subseteq Unit
  /\ sold_direct \subseteq Sale
  /\ total_units \in [Slot -> Nat]
  /\ sold \in [Slot -> Nat]
  /\ reserved \in [Slot -> Nat]
  /\ out_of_service \in [Slot -> Nat]
  /\ overdue_ids \in [Sweeper -> SUBSET Res]
  /\ crashes \in 0..MaxCrashes

(* No night is ever sold, held and withdrawn beyond its capacity (DR-05):  *)
(* the guard under the lock is enough, the database's CHECK constraint     *)
(* never has to refuse a reservation or a sale.                            *)
NoOversell == \A s \in Slot : sold[s] + reserved[s] + out_of_service[s] =< total_units[s]

HeldUnits(s) ==
  {u \in Unit : s \in Nights[u] /\ Owner[u] \in Res /\ status[Owner[u]] \in Unsettled}

SoldUnits(s) ==
  {u \in Unit : s \in Nights[u] /\ (u \in booking_lines \/ Owner[u] \in sold_direct)}

(* The counters are exact: `reserved' counts the units of the reservations *)
(* that are still held, and `sold' the booking lines and direct sales, on  *)
(* every night.  So a release never takes another guest's hold, the cap in *)
(* release_window() never hides a loss, and a conversion never finds less  *)
(* reserved than it needs.                                                 *)
LedgerMatches ==
  \A s \in Slot : /\ reserved[s] = Cardinality(HeldUnits(s))
                  /\ sold[s] = Cardinality(SoldUnits(s))

(* Every unit of a converted reservation has its booking line, and no      *)
(* other reservation has any: confirm() is all or nothing.                 *)
BookedIffConverted ==
  \A u \in Unit : u \in booking_lines <=> Owner[u] \in Res /\ status[Owner[u]] = "converted"

(* A settled reservation never changes again, whatever list a sweep still  *)
(* has in hand: paid for and then expired would release a sold room.       *)
SettledIsFinal ==
  [][\A r \in Res : status[r] \in Settled => status'[r] = status[r]]_vars

(* A guest never loses a hold before its time: only overdue holds expire,  *)
(* although expire() itself does not look at the clock.                    *)
NeverExpiredEarly ==
  [][\A r \in Res : status[r] # "expired" /\ status'[r] = "expired" => HoldExpired(r)]_vars

(* A hold that ran out gives its rooms back in the end, through worker     *)
(* crashes and overlapping sweeps.                                         *)
OverdueHoldSettles == \A r \in Res : HoldExpired(r) ~> status[r] \in Settled

-----------------------------------------------------------------------------
(* The counters and statuses implement the ledger without counters. *)
ClaimOf(c) ==
  IF c \in Sale THEN IF c \in sold_direct THEN "sold" ELSE "none"
  ELSE CASE status[c] = "none" -> "none"
         [] status[c] \in Unsettled -> "held"
         [] status[c] = "converted" -> "sold"
         [] OTHER -> "released"

Ledger == INSTANCE CapacityLedger WITH
            claim <- [c \in Claimant |-> ClaimOf(c)],
            capacity <- total_units

(* Every step of every service is a step of the ledger's promise: held at  *)
(* once or not at all, settled once, within capacity.                      *)
LedgerSpec == Ledger!Spec
=============================================================================
