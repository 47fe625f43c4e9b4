-------------------------- MODULE ReservationLocks --------------------------
(***************************************************************************)
(* The same services as ReservationLifecycle, one level down: database     *)
(* transactions that lock rows one at a time (SELECT ... FOR UPDATE), read *)
(* what others have committed, keep their own writes to themselves, and    *)
(* hold every lock until they commit or roll back.  It shows that the      *)
(* calls may be treated as atomic (PROPERTY LedgerSpec), and what the      *)
(* order of the locks does and does not guarantee.                         *)
(*                                                                         *)
(* A request is one transaction (TenantContextMiddleware opens it around   *)
(* the view), so the locks of every line of a reservation accumulate.      *)
(* A retried reserve() brings the same idempotency key; the row of that    *)
(* key is inserted inside the transaction, and a second insertion of it    *)
(* waits for the first to commit or to vanish.                             *)
(***************************************************************************)
EXTENDS Integers, FiniteSets, Sequences, SequencesExt

CONSTANTS
  Worker,     \* connections serving API requests
  Sweeper,    \* connections of the sweep task
  Res,        \* primary keys of reservation rows
  Key,        \* idempotency keys of reserve(), one per intended reservation
  Slot,
  Lines,      \* [Key -> Seq([slots : Seq(Slot), quantity : Nat])], slots by date
  Capacity,   \* [Slot -> Nat]: opened by initialize_horizon() beforehand
  HoldMinutes,
  MaxTime,    \* bound of the clock
  Nobody,     \* holds a free lock
  NoRes       \* the reservation of a transaction that has none yet

Conn == Worker \cup Sweeper

Row == ({"key"} \X Key) \cup ({"reservation"} \X Res) \cup ({"slot"} \X Slot)

(* The rooms of the lines, and the nights each is wanted for. *)
Units ==
  UNION {UNION {{<<k, n, i>> : i \in 1..Lines[k][n].quantity} : n \in DOMAIN Lines[k]} : k \in Key}

NightsOf(u) == ToSet(Lines[u[1]][u[2]].slots)

ASSUME LocksAssumption ==
  /\ Worker \cap Sweeper = {}
  /\ Nobody \notin Conn
  /\ NoRes \notin Res
  /\ "none" \notin Key
  /\ HoldMinutes \in Nat
  /\ IsFiniteSet(Units)
  /\ Capacity \in [Slot -> Nat]
  /\ \A k \in Key :
       /\ Lines[k] # <<>> /\ Lines[k] \in Seq([slots : Seq(Slot), quantity : Nat \ {0}])
       /\ \A n \in DOMAIN Lines[k] : Lines[k][n].slots # <<>>

VARIABLES
  now,
  status,          \* [Res -> Status], committed
  request,         \* [Res -> Key \cup {"none"}]: whose reservation the row is
  hold_expiry_at,  \* [Res -> Nat]
  slot,            \* [Slot -> [sold, reserved]], committed
  held_by,         \* [Row -> Conn \cup {Nobody}]
  txn,             \* [Conn -> the open transaction of the connection, or Idle]
  overdue_ids      \* [Sweeper -> SUBSET Res]

vars == <<now, status, request, hold_expiry_at, slot, held_by, txn, overdue_ids>>

Unsettled == {"held", "awaiting_payment"}
Settled == {"expired", "cancelled", "converted"}
Status == {"none"} \cup Unsettled \cup Settled

Idle == [op |-> "none", at |-> "idle"]

(* at: the statement the transaction executes next.  line, night: the row   *)
(* of availability_slot it asks for, when that statement is a window lock.  *)
Txn == [op : {"reserve", "request_payment", "confirm", "cancel", "expire"},
        at : {"key", "reservation", "window", "commit"},
        key : Key, res : Res \cup {NoRes}, deadline : Nat,
        line : Nat, night : Nat]

HoldExpired(r) == status[r] \in Unsettled /\ hold_expiry_at[r] < now

remaining(s) == Capacity[s] - slot[s].sold - slot[s].reserved

-----------------------------------------------------------------------------
(* What the transaction of c has written to slot s and not yet committed:   *)
(* the quantities of the lines it is done with.                             *)
Written(c, s) ==
  Cardinality({u \in Units : u[1] = txn[c].key /\ u[2] < txn[c].line /\ s \in NightsOf(u)})

LastLine(t) == Len(Lines[t.key])

(* A definition whose name carries a suffix is the one it is named after    *)
(* with a slip in it, for the properties to catch; nothing else uses it.    *)
CurrentLine_BackwardsOnSettling(t) ==
  LET l == Lines[t.key][t.line]
  IN IF t.op = "reserve" THEN l ELSE [l EXCEPT !.slots = Reverse(@)]

CurrentLine(t) == Lines[t.key][t.line]

NextRow(c) ==
  LET t == txn[c]
  IN CASE t.at = "key" -> <<"key", t.key>>
       [] t.at = "reservation" -> <<"reservation", t.res>>
       [] t.at = "window" -> <<"slot", CurrentLine(t).slots[t.night]>>

Locking(c) == txn[c].at \in {"key", "reservation", "window"}

Free(c, row) == held_by[row] \in {Nobody, c}

Blocked(c) == Locking(c) /\ ~Free(c, NextRow(c))

WaitsFor(c) == held_by[NextRow(c)]

(* Every connection of the set waits for another one of it. *)
InDeadlock(c) ==
  \E S \in SUBSET Conn : /\ c \in S
                         /\ \A d \in S : Blocked(d) /\ WaitsFor(d) \in S
                         /\ \A d \in S : \E e \in S : WaitsFor(e) = d

-----------------------------------------------------------------------------
Init ==
  /\ now = 0
  /\ status = [r \in Res |-> "none"]
  /\ request = [r \in Res |-> "none"]
  /\ hold_expiry_at = [r \in Res |-> 0]
  /\ slot = [s \in Slot |-> [sold |-> 0, reserved |-> 0]]
  /\ held_by = [row \in Row |-> Nobody]
  /\ txn = [c \in Conn |-> Idle]
  /\ overdue_ids = [w \in Sweeper |-> {}]

committedVars == <<status, request, hold_expiry_at, slot>>

Tick ==
  /\ now < MaxTime
  /\ now' = now + 1
  /\ UNCHANGED <<committedVars, held_by, txn, overdue_ids>>

Unlock(c) == [row \in Row |-> IF held_by[row] = c THEN Nobody ELSE held_by[row]]

Rollback_ConnectionReused(c) ==
  /\ txn' = [txn EXCEPT ![c] = Idle]
  /\ overdue_ids' = [w \in Sweeper |-> IF w = c THEN {} ELSE overdue_ids[w]]
  /\ UNCHANGED <<now, committedVars, held_by>>

(* The transaction ends without a trace; a sweep run that sees it dies too, *)
(* for expire() raised out of the task's loop.                              *)
Rollback(c) ==
  /\ held_by' = Unlock(c)
  /\ txn' = [txn EXCEPT ![c] = Idle]
  /\ overdue_ids' = [w \in Sweeper |-> IF w = c THEN {} ELSE overdue_ids[w]]
  /\ UNCHANGED <<now, committedVars>>

Begin(c, t) ==
  /\ txn[c] = Idle
  /\ txn' = [txn EXCEPT ![c] = t]
  /\ UNCHANGED <<now, committedVars, held_by, overdue_ids>>

BeginReserve(c, k) ==
  Begin(c, [op |-> "reserve", at |-> "key", key |-> k, res |-> NoRes,
            deadline |-> 0, line |-> 1, night |-> 1])

(* A call about an existing reservation: settled ones may be asked for too. *)
BeginCall(c, op, r) ==
  /\ status[r] # "none"
  /\ Begin(c, [op |-> op, at |-> "reservation", key |-> request[r], res |-> r,
               deadline |-> 0, line |-> 1, night |-> 1])

SweepRead(w) ==
  /\ txn[w] = Idle
  /\ overdue_ids[w] = {}
  /\ \E r \in Res : HoldExpired(r)
  /\ overdue_ids' = [overdue_ids EXCEPT ![w] = {r \in Res : HoldExpired(r)}]
  /\ UNCHANGED <<now, committedVars, held_by, txn>>

BeginExpire(w) ==
  \E r \in overdue_ids[w] :
    /\ txn[w] = Idle
    /\ txn' = [txn EXCEPT ![w] = [op |-> "expire", at |-> "reservation", key |-> request[r],
                                  res |-> r, deadline |-> 0, line |-> 1, night |-> 1]]
    /\ overdue_ids' = [overdue_ids EXCEPT ![w] = @ \ {r}]
    /\ UNCHANGED <<now, committedVars, held_by>>

-----------------------------------------------------------------------------
Lock(c, row) == Free(c, row) /\ held_by' = [held_by EXCEPT ![row] = c]

Used == {r \in Res : status[r] # "none"} \cup {txn[c].res : c \in {d \in Conn : txn[d] # Idle}}

Recorded_WhileHeld(k) == \E r \in Res : request[r] = k /\ status[r] \in Unsettled

Recorded(k) == \E r \in Res : request[r] = k

(* IdempotencyService.run(): the key's row exists (the stored response is   *)
(* replayed) or is inserted, and then the reservation's row, in "draft".    *)
InsertKey(c) ==
  LET t == txn[c]
  IN /\ t.at = "key"
     /\ Free(c, <<"key", t.key>>)
     /\ IF Recorded(t.key)
          THEN Rollback(c)
          ELSE /\ Lock(c, <<"key", t.key>>)
               /\ \E r \in Res \ Used :
                    txn' = [txn EXCEPT ![c] = [t EXCEPT !.at = "window", !.res = r,
                                                        !.deadline = now + HoldMinutes]]
               /\ UNCHANGED <<now, committedVars, overdue_ids>>

Accepts_NoClock(t) ==
  CASE t.op = "request_payment" -> status[t.res] = "held"
    [] t.op = "confirm" -> status[t.res] = "awaiting_payment"
    [] OTHER -> status[t.res] \in Unsettled

Accepts_StaleSettle(t) ==
  CASE t.op = "request_payment" -> ~HoldExpired(t.res) /\ status[t.res] = "held"
    [] t.op = "confirm" -> ~HoldExpired(t.res) /\ status[t.res] = "awaiting_payment"
    [] OTHER -> TRUE

(* What the call requires of the row, read under its lock. *)
Accepts(t) ==
  CASE t.op = "request_payment" -> ~HoldExpired(t.res) /\ status[t.res] = "held"
    [] t.op = "confirm" -> ~HoldExpired(t.res) /\ status[t.res] = "awaiting_payment"
    [] OTHER -> status[t.res] \in Unsettled

LockReservation(c) ==
  LET t == txn[c]
  IN /\ t.at = "reservation"
     /\ Free(c, <<"reservation", t.res>>)
     /\ IF ~Accepts(t) /\ t.op \in {"request_payment", "confirm"}
          THEN Rollback(c)
          ELSE /\ Lock(c, <<"reservation", t.res>>)
               /\ txn' = [txn EXCEPT ![c].at =
                            IF Accepts(t) /\ t.op # "request_payment" THEN "window" ELSE "commit"]
               /\ UNCHANGED <<now, committedVars, overdue_ids>>

(* The rows of one window are locked by one statement, in date order; the   *)
(* last one returns the rows, which are checked: values nobody can change.  *)
WindowAllows(c) ==
  LET t == txn[c]
      l == CurrentLine(t)
  IN \A s \in ToSet(l.slots) :
       CASE t.op = "reserve" -> remaining(s) - Written(c, s) >= l.quantity
         [] t.op = "confirm" -> slot[s].reserved - Written(c, s) >= l.quantity
         [] OTHER -> TRUE

LockSlot(c) ==
  LET t == txn[c]
      l == CurrentLine(t)
  IN /\ t.at = "window"
     /\ Free(c, <<"slot", l.slots[t.night]>>)
     /\ IF t.night = Len(l.slots) /\ ~WindowAllows(c)
          THEN Rollback(c)
          ELSE /\ Lock(c, <<"slot", l.slots[t.night]>>)
               /\ txn' = [txn EXCEPT ![c] =
                    IF t.night < Len(l.slots) THEN [t EXCEPT !.night = @ + 1]
                    ELSE [t EXCEPT !.night = 1, !.line = @ + 1,
                                   !.at = IF t.line = LastLine(t) THEN "commit" ELSE @]]
               /\ UNCHANGED <<now, committedVars, overdue_ids>>

Lesser(a, b) == IF a =< b THEN a ELSE b

SlotAfter_ReleasesSold(c, s) ==
  LET q == Written(c, s)
      row == slot[s]
  IN CASE txn[c].op = "reserve" -> [row EXCEPT !.reserved = @ + q]
       [] txn[c].op = "confirm" -> [row EXCEPT !.reserved = @ - q, !.sold = @ + q]
       [] txn[c].op \in {"cancel", "expire"} -> [row EXCEPT !.sold = @ - q]
       [] OTHER -> row

(* The slot row as the transaction has written it. *)
SlotAfter(c, s) ==
  LET q == Written(c, s)
      row == slot[s]
  IN CASE txn[c].op = "reserve" -> [row EXCEPT !.reserved = @ + q]
       [] txn[c].op = "confirm" -> [row EXCEPT !.reserved = @ - q, !.sold = @ + q]
       [] txn[c].op \in {"cancel", "expire"} -> [row EXCEPT !.reserved = @ - Lesser(q, @)]
       [] OTHER -> row

StatusAfter(t) ==
  CASE t.op = "reserve" -> "held"
    [] t.op = "request_payment" -> "awaiting_payment"
    [] t.op = "confirm" -> "converted"
    [] t.op = "cancel" -> "cancelled"
    [] t.op = "expire" -> "expired"

Commit_AlwaysSettles(c) ==
  LET t == txn[c]
  IN /\ t.at = "commit"
     /\ slot' = [s \in Slot |-> SlotAfter(c, s)]
     /\ status' = [status EXCEPT ![t.res] = StatusAfter(t)]
     /\ request' = [request EXCEPT ![t.res] = t.key]
     /\ hold_expiry_at' =
          IF t.op = "reserve" THEN [hold_expiry_at EXCEPT ![t.res] = t.deadline] ELSE hold_expiry_at
     /\ held_by' = Unlock(c)
     /\ txn' = [txn EXCEPT ![c] = Idle]
     /\ UNCHANGED <<now, overdue_ids>>

(* Everything the transaction wrote becomes visible at once; a cancel() or  *)
(* expire() that found the reservation settled wrote nothing.               *)
Commit(c) ==
  LET t == txn[c]
      idempotent == t.op \in {"cancel", "expire"} /\ status[t.res] \notin Unsettled
  IN /\ t.at = "commit"
     /\ slot' = [s \in Slot |-> SlotAfter(c, s)]
     /\ status' = IF idempotent THEN status ELSE [status EXCEPT ![t.res] = StatusAfter(t)]
     /\ request' = [request EXCEPT ![t.res] = t.key]
     /\ hold_expiry_at' =
          IF t.op = "reserve" THEN [hold_expiry_at EXCEPT ![t.res] = t.deadline] ELSE hold_expiry_at
     /\ held_by' = Unlock(c)
     /\ txn' = [txn EXCEPT ![c] = Idle]
     /\ UNCHANGED <<now, overdue_ids>>

(* PostgreSQL breaks a cycle of waiting transactions by failing one of it.  *)
BreakDeadlock(c) == InDeadlock(c) /\ Rollback(c)

(* The process dies, or its connection does: the server rolls back.         *)
ConnectionLost(c) == txn[c] # Idle /\ Rollback(c)

-----------------------------------------------------------------------------
Step(c) == InsertKey(c) \/ LockReservation(c) \/ LockSlot(c) \/ Commit(c) \/ BreakDeadlock(c)

Next ==
  \/ Tick
  \/ \E c \in Worker : \/ \E k \in Key : BeginReserve(c, k)
                       \/ \E r \in Res, op \in {"request_payment", "confirm", "cancel"} :
                            BeginCall(c, op, r)
  \/ \E w \in Sweeper : SweepRead(w) \/ BeginExpire(w)
  \/ \E c \in Conn : Step(c) \/ ConnectionLost(c)

Spec == Init /\ [][Next]_vars

(* A connection that lives executes its next statement.  Waiters of a row   *)
(* are served in order of arrival, so one that is let in again and again is *)
(* not passed over for ever: strong fairness.                               *)
Fairness == \A c \in Conn : SF_vars(Step(c))

FairSpec == Spec /\ Fairness

-----------------------------------------------------------------------------
TypeOK ==
  /\ now \in Nat
  /\ status \in [Res -> Status]
  /\ request \in [Res -> Key \cup {"none"}]
  /\ hold_expiry_at \in [Res -> Nat]
  /\ slot \in [Slot -> [sold : Nat, reserved : Nat]]
  /\ held_by \in [Row -> Conn \cup {Nobody}]
  /\ \A c \in Conn : txn[c] = Idle \/ txn[c] \in Txn
  /\ overdue_ids \in [Sweeper -> SUBSET Res]

(* Two clicks on "reserve", or a client that retries a request it thinks    *)
(* lost, never hold rooms twice.                                            *)
OneReservationPerKey ==
  \A r1, r2 \in Res : request[r1] = request[r2] /\ request[r1] # "none" => r1 = r2

RoomsIn(phase, s) ==
  {u \in Units : s \in NightsOf(u) /\ \E r \in Res : request[r] = u[1] /\ status[r] \in phase}

(* The committed counters are what the committed reservations say, at every *)
(* moment and whatever transactions are under way: no update is lost, none  *)
(* is applied twice, none survives a rollback.                              *)
CountersMatchReservations ==
  \A s \in Slot : slot[s] = [sold |-> Cardinality(RoomsIn({"converted"}, s)),
                            reserved |-> Cardinality(RoomsIn(Unsettled, s))]

(* Once a hold has run out, and nobody is in the middle of acting on it, it *)
(* never becomes a booking, even if the sweep has not come round yet.       *)
NeverConvertedLate ==
  \A r \in Res :
    []( /\ HoldExpired(r)
        /\ held_by[<<"reservation", r>>] = Nobody
       => [](status[r] # "converted"))

(* No two transactions ever wait for each other. *)
NoDeadlock == \A c \in Conn : ~InDeadlock(c)

(* Every transaction comes to its end, by commit or rollback. *)
TransactionsEnd == \A c \in Conn : txn[c] # Idle ~> txn[c] = Idle

-----------------------------------------------------------------------------
(* A claimant of the abstract ledger is an intended reservation, its units  *)
(* the rooms of its lines.                                                  *)
ClaimOf(k) ==
  LET made == {r \in Res : request[r] = k}
      phase(r) == CASE status[r] \in Unsettled -> "held"
                    [] status[r] = "converted" -> "sold"
                    [] OTHER -> "released"
  IN IF made = {} THEN "none" ELSE phase(CHOOSE r \in made : TRUE)

Ledger == INSTANCE CapacityLedger WITH
            Claimant <- Key,
            Unit <- Units,
            Owner <- [u \in Units |-> u[1]],
            Nights <- [u \in Units |-> NightsOf(u)],
            claim <- [k \in Key |-> ClaimOf(k)],
            capacity <- Capacity,
            out_of_service <- [s \in Slot |-> 0]

(* Whole transactions, with their row locks, retries, deadlocks and lost    *)
(* connections, do nothing the atomic ledger does not do: a call is one     *)
(* step, and a rolled-back one is no step.                                  *)
LedgerSpec == Ledger!Spec
=============================================================================
