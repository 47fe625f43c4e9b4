------------------------- MODULE LockedLedger_proofs -------------------------
(* The transactions of ReservationLocks keep the counters of every night    *)
(* equal to the reservations and within capacity, and do nothing the atomic *)
(* ledger does not do, for every number of connections, reservations, lines *)
(* and nights.  The argument: the night rows of the lines a transaction is  *)
(* done with are locked by it, so that the check of each line still holds   *)
(* when it commits; and the row of the reservation, or its key, is locked,  *)
(* so that what it commits is still the next thing to happen to it.  At the *)
(* end, that reservations of one line never deadlock: a transaction that    *)
(* waits for a night holds only earlier ones.                               *)
EXTENDS ReservationLocks_proofs, MCTwoLockOrders, FiniteSetTheorems, SequenceTheorems,
        WellFoundedInduction

-----------------------------------------------------------------------------
(* The rooms of an intended reservation on a night, and those of the lines  *)
(* a transaction is done with.                                              *)
Covering(k, s) == {u \in Units : u[1] = k /\ s \in NightsOf(u)}
DoneUnits(t, s) == {u \in Units : u[1] = t.key /\ u[2] < t.line /\ s \in NightsOf(u)}

DoneSlots(t) ==
  UNION {ToSet(Lines[t.key][n].slots) : n \in {m \in DOMAIN Lines[t.key] : m < t.line}}

DoneAll(t) == \A n \in DOMAIN Lines[t.key] : n < t.line

(* Where a transaction is in its lines, and which nights it has locked.     *)
AtLine(c, t) ==
  /\ t.at \in {"key", "reservation"} => t.line = 1 /\ t.night = 1
  /\ t.at = "window" => /\ t.line \in DOMAIN Lines[t.key]
                        /\ t.night \in 1..Len(CurrentLine(t).slots)
                        /\ \A i \in 1..(t.night - 1) :
                             held_by[<<"slot", CurrentLine(t).slots[i]>>] = c
  /\ Inside(t) => \A s \in DoneSlots(t) : held_by[<<"slot", s>>] = c

(* What it has found and what it will commit. *)
Found(c, t) ==
  /\ t.op = "reserve" =>
       /\ t.at = "commit" => DoneAll(t)
       /\ Inside(t) => \A s \in DoneSlots(t) : Cardinality(DoneUnits(t, s)) =< remaining(s)
  /\ t.op = "request_payment" /\ Inside(t) => t.at = "commit" /\ status[t.res] = "held"
  /\ t.op = "confirm" /\ Inside(t) =>
       status[t.res] = "awaiting_payment" /\ (t.at = "commit" => DoneAll(t))
  /\ t.op \in {"cancel", "expire"} =>
       /\ t.at = "window" => status[t.res] \in Unsettled
       /\ t.at = "commit" => IF status[t.res] \in Unsettled THEN DoneAll(t) ELSE t.line = 1

Progress == \A c \in Conn : \A t \in Txn : txn[c] = t => AtLine(c, t) /\ Found(c, t)

SlotsTyped == slot \in [Slot -> [sold : Nat, reserved : Nat]]

NoOversell == \A s \in Slot : slot[s].sold + slot[s].reserved =< Capacity[s]

Counted == SlotsTyped /\ CountersMatchReservations /\ NoOversell

IInv == Sound /\ Progress /\ Counted

-----------------------------------------------------------------------------
(* Facts about sets of rooms.                                               *)

LEMMA CardinalityAdd ==
  ASSUME NEW S, NEW T, IsFiniteSet(S), IsFiniteSet(T), S \cap T = {}
  PROVE  Cardinality(S \cup T) = Cardinality(S) + Cardinality(T)
<1>1. Cardinality(S \cup T) = Cardinality(S) + Cardinality(T) - Cardinality({})
  BY FS_Union
<1>2. Cardinality(S) \in Nat /\ Cardinality(T) \in Nat
  BY FS_CardinalityType
<1>3. QED
  BY <1>1, <1>2, FS_EmptySet

LEMMA CardinalityRemove ==
  ASSUME NEW S, NEW T, IsFiniteSet(S), T \subseteq S
  PROVE  /\ Cardinality(T) =< Cardinality(S)
         /\ Cardinality(S \ T) = Cardinality(S) - Cardinality(T)
<1>1. S \cap T = T
  OBVIOUS
<1>2. Cardinality(T) =< Cardinality(S)
  BY FS_Subset
<1>3. Cardinality(S \ T) = Cardinality(S) - Cardinality(S \cap T)
  BY FS_Difference
<1>4. QED
  BY <1>1, <1>2, <1>3

LEMMA RoomsFinite ==
  ASSUME NEW S \in SUBSET Units
  PROVE  IsFiniteSet(S) /\ Cardinality(S) \in Nat
BY FS_Subset, FS_CardinalityType, LocksAssumption

LEMMA UnitParts ==
  ASSUME NEW u \in Units
  PROVE  /\ u[1] \in Key /\ u[2] \in DOMAIN Lines[u[1]]
         /\ u = <<u[1], u[2], u[3]>> /\ u[3] \in 1..Lines[u[1]][u[2]].quantity
BY DEF Units

LEMMA LineParts ==
  ASSUME NEW k \in Key
  PROVE  /\ Lines[k] \in Seq([slots : Seq(Slot), quantity : Nat \ {0}])
         /\ Len(Lines[k]) \in Nat \ {0} /\ DOMAIN Lines[k] = 1..Len(Lines[k])
         /\ \A n \in DOMAIN Lines[k] :
              /\ Lines[k][n].slots \in Seq(Slot) /\ Len(Lines[k][n].slots) \in Nat \ {0}
              /\ Lines[k][n].quantity \in Nat \ {0}
              /\ ToSet(Lines[k][n].slots)
                   = {Lines[k][n].slots[i] : i \in 1..Len(Lines[k][n].slots)}
              /\ ToSet(Lines[k][n].slots) \subseteq Slot
<1>1. Lines[k] \in Seq([slots : Seq(Slot), quantity : Nat \ {0}]) /\ Lines[k] # <<>>
  BY LocksAssumption
<1>2. Len(Lines[k]) \in Nat \ {0} /\ DOMAIN Lines[k] = 1..Len(Lines[k])
  BY <1>1
<1>3. ASSUME NEW n \in DOMAIN Lines[k]
      PROVE  /\ Lines[k][n].slots \in Seq(Slot) /\ Len(Lines[k][n].slots) \in Nat \ {0}
             /\ Lines[k][n].quantity \in Nat \ {0}
             /\ ToSet(Lines[k][n].slots)
                  = {Lines[k][n].slots[i] : i \in 1..Len(Lines[k][n].slots)}
             /\ ToSet(Lines[k][n].slots) \subseteq Slot
  <2>1. Lines[k][n] \in [slots : Seq(Slot), quantity : Nat \ {0}]
    BY <1>1, <1>2, ElementOfSeq
  <2>2. Lines[k][n].slots \in Seq(Slot) /\ Lines[k][n].slots # <<>>
          /\ Lines[k][n].quantity \in Nat \ {0}
    BY <2>1, LocksAssumption
  <2>3. PICK w \in Seq(Slot) : w = Lines[k][n].slots
    BY <2>2
  <2>4. Len(w) \in Nat \ {0} /\ DOMAIN w = 1..Len(w) /\ \A i \in 1..Len(w) : w[i] \in Slot
    BY <2>2, <2>3
  <2>5. ToSet(w) = {w[i] : i \in 1..Len(w)} /\ ToSet(w) \subseteq Slot
    BY <2>4 DEF ToSet
  <2>6. QED
    BY <2>2, <2>3, <2>4, <2>5
<1>4. QED
  BY <1>1, <1>2, <1>3

(* The rooms of one line on a night are as many as its quantity. *)
LEMMA LineUnits ==
  ASSUME NEW k \in Key, NEW n \in DOMAIN Lines[k], NEW s \in ToSet(Lines[k][n].slots)
  PROVE  Cardinality({u \in Units : u[1] = k /\ u[2] = n /\ s \in NightsOf(u)}) = Lines[k][n].quantity
<1> DEFINE q == Lines[k][n].quantity
           T == {u \in Units : u[1] = k /\ u[2] = n /\ s \in NightsOf(u)}
           f == [i \in 1..q |-> <<k, n, i>>]
<1>1. q \in Nat
  BY LineParts
<1>2. \A i \in 1..q : <<k, n, i>> \in T
  BY DEF Units, NightsOf
<1>3. \A u \in T : \E i \in 1..q : u = <<k, n, i>>
  BY UnitParts
<1>4. f \in Bijection(1..q, T)
  <2>1. f \in [1..q -> T]
    BY <1>2
  <2>2. \A i, j \in 1..q : f[i] = f[j] => i = j
    OBVIOUS
  <2>3. \A u \in T : \E i \in 1..q : f[i] = u
    BY <1>3
  <2>4. QED
    BY <2>1, <2>2, <2>3 DEF Bijection, Injection, Surjection, IsInjective
<1>5. IsFiniteSet(1..q) /\ Cardinality(1..q) = q
  <2>1. Cardinality(1..q) = IF 1 > q THEN 0 ELSE q - 1 + 1
    BY <1>1, FS_Interval
  <2>2. IsFiniteSet(1..q)
    BY <1>1, FS_Interval
  <2>3. (IF 1 > q THEN 0 ELSE q - 1 + 1) = q
    BY <1>1
  <2>4. QED
    BY <2>1, <2>2, <2>3
<1>6. ExistsBijection(1..q, T)
  BY <1>4 DEF ExistsBijection
<1>7. QED
  BY <1>5, <1>6, FS_Bijection

LEMMA NothingDone ==
  ASSUME NEW t \in Txn, t.line = 1
  PROVE  DoneSlots(t) = {} /\ \A s : DoneUnits(t, s) = {} /\ Cardinality(DoneUnits(t, s)) = 0
<1>1. t.key \in Key
  BY DEF Txn
<1>2. \A n \in DOMAIN Lines[t.key] : ~(n < t.line)
  BY <1>1, LineParts
<1>3. DoneSlots(t) = {}
  BY <1>2 DEF DoneSlots
<1>4. \A s : DoneUnits(t, s) = {}
  BY <1>2, UnitParts DEF DoneUnits
<1>5. QED
  BY <1>3, <1>4, FS_EmptySet

LEMMA AllDone ==
  ASSUME NEW t \in Txn, DoneAll(t), NEW s
  PROVE  DoneUnits(t, s) = Covering(t.key, s)
BY UnitParts DEF DoneUnits, Covering, DoneAll

LEMMA DoneSomewhere ==
  ASSUME NEW t \in Txn, NEW s, s \notin DoneSlots(t)
  PROVE  DoneUnits(t, s) = {} /\ Cardinality(DoneUnits(t, s)) = 0
<1>1. DoneUnits(t, s) = {}
  BY UnitParts DEF DoneUnits, DoneSlots, NightsOf
<1>2. QED
  BY <1>1, FS_EmptySet

LEMMA DoneSlotsAreSlots ==
  ASSUME NEW t \in Txn
  PROVE  DoneSlots(t) \subseteq Slot
<1>1. t.key \in Key
  BY DEF Txn
<1>2. \A n \in DOMAIN Lines[t.key] : ToSet(Lines[t.key][n].slots) \subseteq Slot
  BY <1>1, LineParts
<1>3. QED
  BY <1>2 DEF DoneSlots

(* One line more is done. *)
LEMMA NextLineDone ==
  ASSUME NEW t \in Txn, NEW u \in Txn, t.line \in DOMAIN Lines[t.key],
         u.key = t.key, u.line = t.line + 1
  PROVE  /\ DoneSlots(u) = DoneSlots(t) \cup ToSet(Lines[t.key][t.line].slots)
         /\ \A s : Cardinality(DoneUnits(u, s))
                     = Cardinality(DoneUnits(t, s))
                         + IF s \in ToSet(Lines[t.key][t.line].slots)
                           THEN Lines[t.key][t.line].quantity ELSE 0
<1> DEFINE k == t.key
           n == t.line
<1>1. k \in Key /\ n \in DOMAIN Lines[k] /\ DOMAIN Lines[k] \subseteq Nat
  BY LineParts DEF Txn
<1>2. \A m \in DOMAIN Lines[k] : m < u.line <=> m < n \/ m = n
  BY <1>1
<1>3. DoneSlots(u) = DoneSlots(t) \cup ToSet(Lines[k][n].slots)
  BY <1>1, <1>2 DEF DoneSlots
<1>4. ASSUME NEW s
      PROVE  Cardinality(DoneUnits(u, s))
               = Cardinality(DoneUnits(t, s))
                   + IF s \in ToSet(Lines[k][n].slots) THEN Lines[k][n].quantity ELSE 0
  <2> DEFINE T == {x \in Units : x[1] = k /\ x[2] = n /\ s \in NightsOf(x)}
  <2>1. DoneUnits(u, s) = DoneUnits(t, s) \cup T
    BY <1>1, <1>2, UnitParts DEF DoneUnits
  <2>2. DoneUnits(t, s) \cap T = {}
    BY <1>1 DEF DoneUnits
  <2>3. /\ IsFiniteSet(DoneUnits(t, s)) /\ IsFiniteSet(T)
        /\ Cardinality(DoneUnits(t, s)) \in Nat
    BY RoomsFinite DEF DoneUnits
  <2>4. Cardinality(DoneUnits(u, s)) = Cardinality(DoneUnits(t, s)) + Cardinality(T)
    BY <2>1, <2>2, <2>3, CardinalityAdd
  <2>5. CASE s \in ToSet(Lines[k][n].slots)
    BY <1>1, <2>4, <2>5, LineUnits
  <2>6. CASE s \notin ToSet(Lines[k][n].slots)
    <3>1. T = {}
      BY <2>6 DEF NightsOf
    <3>2. Cardinality(T) = 0
      BY <3>1, FS_EmptySet
    <3>3. QED
      BY <2>3, <2>4, <2>6, <3>2
  <2>7. QED
    BY <2>5, <2>6
<1>5. QED
  BY <1>3, <1>4

-----------------------------------------------------------------------------
(* Transactions that do not commit.                                         *)

(* Another transaction's progress stands while its locks, its reservation's *)
(* row and the night rows it has locked do.                                 *)
LEMMA ProgressStands ==
  ASSUME NEW d \in Conn, NEW t \in Txn, AtLine(d, t), Found(d, t),
         \A row \in Row : held_by[row] = d => held_by'[row] = d,
         Inside(t) => status'[t.res] = status[t.res],
         t.at = "commit" => status'[t.res] = status[t.res],
         \A s \in Slot : held_by[<<"slot", s>>] = d => slot'[s] = slot[s]
  PROVE  AtLine(d, t)' /\ Found(d, t)'
<1>1. DoneSlots(t) \subseteq Slot /\ \A s \in Slot : <<"slot", s>> \in Row
  BY DoneSlotsAreSlots DEF Row
<1>2. \A s \in DoneSlots(t) : held_by[<<"slot", s>>] = d => held_by'[<<"slot", s>>] = d
  BY <1>1
<1>3. ASSUME t.at = "window", NEW i \in 1..(t.night - 1)
      PROVE  held_by'[<<"slot", CurrentLine(t).slots[i]>>] = d
  <2>1. t.line \in DOMAIN Lines[t.key] /\ t.night \in 1..Len(CurrentLine(t).slots) /\ t.key \in Key
    BY <1>3 DEF AtLine, Txn
  <2>2. /\ CurrentLine(t).slots \in Seq(Slot) /\ Len(CurrentLine(t).slots) \in Nat
    BY <2>1, LineParts DEF CurrentLine
  <2>3. i \in 1..Len(CurrentLine(t).slots)
    BY <2>1, <2>2
  <2>4. CurrentLine(t).slots[i] \in Slot
    BY <2>2, <2>3, ElementOfSeq
  <2>5. QED
    BY <1>1, <1>3, <2>4 DEF AtLine
<1>4. AtLine(d, t)'
  BY <1>2, <1>3 DEF AtLine, Inside
<1>5. Inside(t) => \A s \in DoneSlots(t) : slot'[s] = slot[s]
  BY <1>1 DEF AtLine
<1>6. Found(d, t)'
  BY <1>5 DEF Found, Inside, remaining
<1>7. QED
  BY <1>4, <1>6

LEMMA OthersProgress ==
  ASSUME Sound, Progress, NEW c \in Conn, UNCHANGED <<status, slot>>,
         \A d \in Conn \ {c} : /\ txn'[d] = txn[d]
                               /\ \A row \in Row : held_by[row] = d => held_by'[row] = d,
         \A t \in Txn : txn'[c] = t => AtLine(c, t)' /\ Found(c, t)'
  PROVE  Progress'
<1> SUFFICES ASSUME NEW d \in Conn, NEW t \in Txn, txn'[d] = t
             PROVE  AtLine(d, t)' /\ Found(d, t)'
  BY DEF Progress
<1>1. CASE d = c
  BY <1>1
<1>2. CASE d # c
  <2>1. txn[d] = t /\ AtLine(d, t) /\ Found(d, t)
    BY <1>2 DEF Progress
  <2>2. QED
    BY <1>2, <2>1, ProgressStands
<1>3. QED
  BY <1>1, <1>2

LEMMA OthersLocks ==
  ASSUME Sound, NEW c \in Conn, Takes(c), NEW d \in Conn, d # c
  PROVE  \A row \in Row : held_by[row] = d => held_by'[row] = d
BY LocksAssumption DEF Takes, Free

LEMMA UnchangedProgress ==
  ASSUME Progress, UNCHANGED <<status, slot, held_by, txn>>
  PROVE  Progress'
<1> SUFFICES ASSUME NEW d \in Conn, NEW t \in Txn, txn'[d] = t
             PROVE  AtLine(d, t)' /\ Found(d, t)'
  BY DEF Progress
<1>1. AtLine(d, t) /\ Found(d, t)
  BY DEF Progress
<1>2. QED
  BY <1>1, ProgressStands

LEMMA RollbackProgress ==
  ASSUME Sound, Progress, NEW c \in Conn, Rollback(c)
  PROVE  Progress'
<1>1. UNCHANGED <<status, slot>> /\ txn' = [txn EXCEPT ![c] = Idle] /\ held_by' = Unlock(c)
  BY DEF Rollback, committedVars
<1>2. \A d \in Conn \ {c} : /\ txn'[d] = txn[d]
                            /\ \A row \in Row : held_by[row] = d => held_by'[row] = d
  BY <1>1 DEF Sound, Unlock
<1>3. txn'[c] = Idle /\ Idle \notin Txn
  <2>1. Idle.at = "idle"
    BY DEF Idle
  <2>2. QED
    BY <1>1, <2>1 DEF Sound, Txn
<1>4. QED
  BY <1>1, <1>2, <1>3, OthersProgress

(* A transaction that begins, or inserts its key, or locks the row. *)
LEMMA FreshProgress ==
  ASSUME NEW c \in Conn, NEW t \in Txn, t.line = 1, t.night = 1
  PROVE  AtLine(c, t)' /\ (t.op = "reserve" /\ t.at # "commit" => Found(c, t)')
<1>1. t.key \in Key /\ DoneSlots(t) = {}
  BY NothingDone DEF Txn
<1>2. /\ 1 \in DOMAIN Lines[t.key] /\ 1 \in 1..Len(CurrentLine(t).slots)
      /\ 1..(t.night - 1) = {}
  BY <1>1, LineParts DEF CurrentLine
<1>3. AtLine(c, t)'
  BY <1>1, <1>2 DEF AtLine
<1>4. QED
  BY <1>1, <1>3 DEF Found

LEMMA BeginProgress ==
  ASSUME Sound, Progress, NEW c \in Conn, NEW t \in Txn,
         t.at \in {"key", "reservation"}, t.line = 1, t.night = 1,
         UNCHANGED <<status, slot, held_by>>, txn' = [txn EXCEPT ![c] = t]
  PROVE  Progress'
<1>1. txn'[c] = t /\ \A d \in Conn \ {c} : txn'[d] = txn[d]
  BY DEF Sound
<1>2. AtLine(c, t)'
  BY FreshProgress
<1>3. Found(c, t)'
  BY DEF Found, Inside
<1>4. QED
  BY <1>1, <1>2, <1>3, OthersProgress

LEMMA InsertKeyProgress ==
  ASSUME Sound, Progress, NEW c \in Conn, txn[c] # Idle, InsertKey(c)
  PROVE  Progress'
<1>1. CASE Rollback(c)
  BY <1>1, RollbackProgress
<1>2. CASE ~Rollback(c)
  <2>1. PICK t : t = txn[c]
    OBVIOUS
  <2>2. t \in Txn /\ t.at = "key" /\ t.op = "reserve" /\ AtLine(c, t)
    BY <2>1 DEF InsertKey, Sound, Knows, CallKnows, Progress
  <2>3. PICK r \in Res \ Used :
          txn' = [txn EXCEPT ![c] = [t EXCEPT !.at = "window", !.res = r, !.deadline = now + HoldMinutes]]
    BY <1>2, <2>1 DEF InsertKey
  <2>4. UNCHANGED <<status, slot>> /\ Lock(c, <<"key", t.key>>)
    BY <1>2, <2>1 DEF InsertKey, committedVars
  <2>5. PICK u : u = [t EXCEPT !.at = "window", !.res = r, !.deadline = now + HoldMinutes]
    OBVIOUS
  <2>6. now + HoldMinutes \in Nat
    BY LocksAssumption DEF Sound, RowsSound
  <2>7. u \in Txn /\ u.op = "reserve" /\ u.at = "window" /\ u.line = 1 /\ u.night = 1
    BY <2>2, <2>5, <2>6 DEF Txn, AtLine
  <2>8. txn'[c] = u /\ \A d \in Conn \ {c} : txn'[d] = txn[d]
    BY <2>3, <2>5 DEF Sound
  <2>9. \A d \in Conn \ {c} : \A row \in Row : held_by[row] = d => held_by'[row] = d
    BY <2>4, LocksAssumption DEF Lock, Free, Sound, RowsSound
  <2>10. AtLine(c, u)' /\ Found(c, u)'
    BY <2>7, FreshProgress
  <2>11. QED
    BY <2>4, <2>8, <2>9, <2>10, OthersProgress
<1>3. QED
  BY <1>1, <1>2

LEMMA LockReservationProgress ==
  ASSUME Sound, Progress, NEW c \in Conn, txn[c] # Idle, LockReservation(c)
  PROVE  Progress'
<1>1. CASE Rollback(c)
  BY <1>1, RollbackProgress
<1>2. CASE ~Rollback(c)
  <2>1. PICK t : t = txn[c]
    OBVIOUS
  <2>2. /\ t \in Txn /\ t.at = "reservation" /\ t.op # "reserve" /\ AtLine(c, t)
        /\ t.res \in Res
    BY <2>1 DEF LockReservation, Sound, Knows, ReserveKnows, CallKnows, Progress
  <2>3. PICK at \in {"window", "commit"} :
          /\ at = IF Accepts(t) /\ t.op # "request_payment" THEN "window" ELSE "commit"
          /\ txn' = [txn EXCEPT ![c].at = at]
    BY <1>2, <2>1 DEF LockReservation
  <2>4. t.op \in {"request_payment", "confirm"} => Accepts(t)
    BY <1>2, <2>1 DEF LockReservation
  <2>5. UNCHANGED <<status, slot>> /\ Lock(c, <<"reservation", t.res>>)
    BY <1>2, <2>1 DEF LockReservation, committedVars
  <2>6. PICK u : u = [t EXCEPT !.at = at]
    OBVIOUS
  <2>7. /\ u \in Txn /\ u.op = t.op /\ u.at = at /\ u.res = t.res /\ u.line = 1 /\ u.night = 1
    BY <2>2, <2>3, <2>6 DEF Txn, AtLine
  <2>8. txn'[c] = u /\ \A d \in Conn \ {c} : txn'[d] = txn[d]
    BY <2>1, <2>3, <2>6 DEF Sound
  <2>9. \A d \in Conn \ {c} : \A row \in Row : held_by[row] = d => held_by'[row] = d
    BY <2>5, LocksAssumption DEF Lock, Free, Sound, RowsSound
  <2>10. AtLine(c, u)'
    BY <2>7, FreshProgress
  <2>11. Found(c, u)'
    <3>1. CASE t.op = "request_payment"
      BY <2>3, <2>4, <2>5, <2>7, <3>1 DEF Found, Accepts
    <3>2. CASE t.op = "confirm"
      BY <2>3, <2>4, <2>5, <2>7, <3>2 DEF Found, Accepts
    <3>3. CASE t.op \in {"cancel", "expire"}
      BY <2>3, <2>5, <2>7, <3>3 DEF Found, Accepts
    <3>4. QED
      BY <2>2, <3>1, <3>2, <3>3 DEF Txn
  <2>12. QED
    BY <2>5, <2>8, <2>9, <2>10, <2>11, OthersProgress
<1>3. QED
  BY <1>1, <1>2

(* The night the transaction locks is one of its line, and the lock adds to *)
(* what it holds.                                                           *)
LEMMA NightLocked ==
  ASSUME Sound, NEW c \in Conn, NEW t \in Txn, t.at = "window", AtLine(c, t),
         Lock(c, <<"slot", CurrentLine(t).slots[t.night]>>)
  PROVE  /\ \A i \in 1..t.night : held_by'[<<"slot", CurrentLine(t).slots[i]>>] = c
         /\ \A s \in DoneSlots(t) : held_by'[<<"slot", s>>] = c
         /\ \A d \in Conn \ {c} : \A row \in Row : held_by[row] = d => held_by'[row] = d
<1>1. t.line \in DOMAIN Lines[t.key] /\ t.night \in 1..Len(CurrentLine(t).slots) /\ t.key \in Key
  BY DEF AtLine, Txn
<1>2. CurrentLine(t).slots \in Seq(Slot) /\ Len(CurrentLine(t).slots) \in Nat
  BY <1>1, LineParts DEF CurrentLine
<1>3. \A i \in 1..t.night : CurrentLine(t).slots[i] \in Slot
  <2>1. \A i \in 1..t.night : i \in 1..Len(CurrentLine(t).slots)
    BY <1>1, <1>2
  <2>2. QED
    BY <1>2, <2>1, ElementOfSeq
<1>4. \A s \in Slot : <<"slot", s>> \in Row
  BY DEF Row
<1>5. t.night \in 1..t.night
  BY <1>1, <1>2
<1>6. <<"slot", CurrentLine(t).slots[t.night]>> \in Row
  BY <1>3, <1>4, <1>5
<1>7. /\ held_by'[<<"slot", CurrentLine(t).slots[t.night]>>] = c
      /\ \A q \in Row : held_by'[q] = held_by[q] \/ Free(c, q)
      /\ \A q \in Row : held_by[q] = c => held_by'[q] = c
  BY <1>6, LockEffect
<1>8. ASSUME NEW i \in 1..t.night
      PROVE  held_by'[<<"slot", CurrentLine(t).slots[i]>>] = c
  <2>1. i = t.night \/ i \in 1..(t.night - 1)
    BY <1>1, <1>2
  <2>2. QED
    BY <1>3, <1>4, <1>7, <2>1 DEF AtLine
<1>9. \A s \in DoneSlots(t) : held_by'[<<"slot", s>>] = c
  BY <1>4, <1>7, DoneSlotsAreSlots DEF AtLine, Inside
<1>10. \A d \in Conn \ {c} : \A row \in Row : held_by[row] = d => held_by'[row] = d
  BY <1>7, LocksAssumption DEF Free
<1>11. QED
  BY <1>8, <1>9, <1>10

LEMMA MiddleNight ==
  ASSUME Sound, Progress, NEW c \in Conn, NEW t \in Txn, txn[c] = t, t.at = "window",
         t.night < Len(CurrentLine(t).slots),
         Lock(c, <<"slot", CurrentLine(t).slots[t.night]>>),
         UNCHANGED <<status, slot>>,
         txn' = [txn EXCEPT ![c] = [t EXCEPT !.night = @ + 1]]
  PROVE  Progress'
<1>1. AtLine(c, t) /\ Found(c, t)
  BY DEF Progress
<1>2. PICK u : u = [t EXCEPT !.night = @ + 1]
  OBVIOUS
<1>3. /\ u \in Txn /\ u.op = t.op /\ u.at = t.at /\ u.key = t.key /\ u.res = t.res
      /\ u.line = t.line /\ u.night = t.night + 1 /\ t.night \in Nat
  BY <1>2 DEF Txn
<1>4. /\ \A i \in 1..t.night : held_by'[<<"slot", CurrentLine(t).slots[i]>>] = c
      /\ \A s \in DoneSlots(t) : held_by'[<<"slot", s>>] = c
      /\ \A d \in Conn \ {c} : \A row \in Row : held_by[row] = d => held_by'[row] = d
  BY <1>1, NightLocked
<1>5. txn'[c] = u /\ \A d \in Conn \ {c} : txn'[d] = txn[d]
  BY <1>2 DEF Sound
<1>6. /\ CurrentLine(u) = CurrentLine(t) /\ DoneSlots(u) = DoneSlots(t)
      /\ \A s : DoneUnits(u, s) = DoneUnits(t, s)
  BY <1>3 DEF CurrentLine, DoneSlots, DoneUnits
<1>7. u.night \in 1..Len(CurrentLine(u).slots) /\ 1..(u.night - 1) = 1..t.night
  <2>1. t.line \in DOMAIN Lines[t.key] /\ t.key \in Key
    BY <1>1 DEF AtLine, Txn
  <2>2. Len(CurrentLine(t).slots) \in Nat
    BY <2>1, LineParts DEF CurrentLine
  <2>3. QED
    BY <1>3, <1>6, <2>2
<1>8. AtLine(c, u)'
  BY <1>1, <1>3, <1>4, <1>6, <1>7 DEF AtLine
<1>9. Found(c, u)'
  BY <1>1, <1>3, <1>6 DEF Found, Inside, remaining
<1>10. QED
  BY <1>4, <1>5, <1>8, <1>9, OthersProgress

(* The last night of a line: its rooms are now the transaction's. *)
LEMMA LastNight ==
  ASSUME Sound, Progress, SlotsTyped, NEW c \in Conn, NEW t \in Txn, txn[c] = t, t.at = "window",
         t.night = Len(CurrentLine(t).slots), WindowAllows(c),
         Lock(c, <<"slot", CurrentLine(t).slots[t.night]>>),
         UNCHANGED <<status, slot>>,
         txn' = [txn EXCEPT ![c] = [t EXCEPT !.night = 1, !.line = @ + 1,
                                             !.at = IF t.line = LastLine(t) THEN "commit" ELSE @]]
  PROVE  Progress'
<1>1. AtLine(c, t) /\ Found(c, t)
  BY DEF Progress
<1>2. PICK u : u = [t EXCEPT !.night = 1, !.line = @ + 1,
                             !.at = IF t.line = LastLine(t) THEN "commit" ELSE @]
  OBVIOUS
<1>3. /\ u.op = t.op /\ u.key = t.key /\ u.res = t.res
      /\ u.line = t.line + 1 /\ u.night = 1 /\ t.line \in Nat
      /\ u.at = IF t.line = LastLine(t) THEN "commit" ELSE "window"
  BY <1>2 DEF Txn
<1>4. t.line \in DOMAIN Lines[t.key] /\ t.key \in Key
  BY <1>1 DEF AtLine, Txn
<1>5. u \in Txn
  <2>1. Len(CurrentLine(t).slots) \in Nat
    BY <1>4, LineParts DEF CurrentLine
  <2>2. ~(t.night < Len(CurrentLine(t).slots))
    BY <2>1
  <2>3. u = After(t)
    BY <1>2, <2>2 DEF After
  <2>4. QED
    BY <2>3, NextNight
<1> DEFINE here == ToSet(Lines[t.key][t.line].slots)
<1>6. /\ DoneSlots(u) = DoneSlots(t) \cup here
      /\ \A s : Cardinality(DoneUnits(u, s))
                  = Cardinality(DoneUnits(t, s))
                      + IF s \in here THEN Lines[t.key][t.line].quantity ELSE 0
  BY <1>3, <1>5, <1>4, NextLineDone
<1>7. /\ \A i \in 1..t.night : held_by'[<<"slot", CurrentLine(t).slots[i]>>] = c
      /\ \A s \in DoneSlots(t) : held_by'[<<"slot", s>>] = c
      /\ \A d \in Conn \ {c} : \A row \in Row : held_by[row] = d => held_by'[row] = d
  BY <1>1, NightLocked
<1>8. txn'[c] = u /\ \A d \in Conn \ {c} : txn'[d] = txn[d]
  BY <1>2 DEF Sound
<1>9. \A s \in DoneSlots(u) : held_by'[<<"slot", s>>] = c
  <2>1. here = {CurrentLine(t).slots[i] : i \in 1..t.night}
    <3>1. ToSet(Lines[t.key][t.line].slots)
            = {Lines[t.key][t.line].slots[i] : i \in 1..Len(Lines[t.key][t.line].slots)}
      BY <1>4, LineParts
    <3>2. QED
      BY <3>1 DEF CurrentLine
  <2>2. ASSUME NEW s \in here
        PROVE  held_by'[<<"slot", s>>] = c
    <3>1. PICK i \in 1..t.night : s = CurrentLine(t).slots[i]
      BY <2>1
    <3>2. QED
      BY <1>7, <3>1
  <2>3. QED
    BY <1>6, <1>7, <2>2
<1>10. t.line = LastLine(t) => DoneAll(u)
  <2>1. DOMAIN Lines[t.key] = 1..Len(Lines[t.key]) /\ Len(Lines[t.key]) \in Nat
    BY <1>4, LineParts
  <2>2. QED
    BY <1>3, <2>1 DEF DoneAll, LastLine
<1>11. t.line # LastLine(t) => u.line \in DOMAIN Lines[u.key]
  <2>1. DOMAIN Lines[t.key] = 1..Len(Lines[t.key]) /\ Len(Lines[t.key]) \in Nat
    BY <1>4, LineParts
  <2>2. QED
    BY <1>3, <1>4, <2>1 DEF LastLine
<1>12. AtLine(c, u)'
  <2>1. ASSUME u.at = "window"
        PROVE  /\ u.line \in DOMAIN Lines[u.key] /\ u.night \in 1..Len(CurrentLine(u).slots)
               /\ 1..(u.night - 1) = {}
    <3>1. u.line \in DOMAIN Lines[u.key] /\ u.key \in Key
      BY <1>3, <1>4, <1>11, <2>1
    <3>2. Len(CurrentLine(u).slots) \in Nat \ {0}
      BY <3>1, LineParts DEF CurrentLine
    <3>3. QED
      BY <1>3, <3>1, <3>2
  <2>2. u.at \in {"window", "commit"}
    BY <1>3
  <2>3. QED
    BY <1>9, <2>1, <2>2 DEF AtLine
<1>13. ASSUME t.op = "reserve", NEW s \in DoneSlots(u)
       PROVE  Cardinality(DoneUnits(u, s)) =< remaining(s)
  <2>1. /\ s \in Slot /\ Capacity[s] \in Nat /\ slot[s].sold \in Nat /\ slot[s].reserved \in Nat
    BY <1>5, DoneSlotsAreSlots, LocksAssumption DEF SlotsTyped
  <2>2. remaining(s) \in Int
    BY <2>1 DEF remaining
  <2>3. Cardinality(DoneUnits(t, s)) \in Nat
    BY RoomsFinite DEF DoneUnits
  <2>4. CASE s \in here
    <3>1. remaining(s) - Written(c, s) >= Lines[t.key][t.line].quantity
      BY <1>13, <2>4 DEF WindowAllows, CurrentLine
    <3>2. Written(c, s) = Cardinality(DoneUnits(t, s))
      BY DEF Written, DoneUnits
    <3>3. Lines[t.key][t.line].quantity \in Nat
      BY <1>4, LineParts
    <3>4. QED
      BY <1>6, <2>2, <2>3, <2>4, <3>1, <3>2, <3>3
  <2>5. CASE s \notin here
    <3>1. s \in DoneSlots(t)
      BY <1>6, <2>5
    <3>2. Cardinality(DoneUnits(t, s)) =< remaining(s)
      BY <1>1, <1>13, <3>1 DEF Found, Inside
    <3>3. QED
      BY <1>6, <2>3, <2>5, <3>2
  <2>6. QED
    BY <2>4, <2>5
<1>14. Found(c, u)'
  <2>1. \A s : remaining(s)' = remaining(s)
    BY DEF remaining
  <2>2. CASE t.op = "reserve"
    BY <1>3, <1>10, <1>13, <2>1, <2>2 DEF Found
  <2>3. CASE t.op = "request_payment"
    BY <1>1, <2>3 DEF Found, Inside
  <2>4. CASE t.op = "confirm"
    BY <1>1, <1>3, <1>10, <2>4 DEF Found, Inside
  <2>5. CASE t.op \in {"cancel", "expire"}
    BY <1>1, <1>3, <1>10, <2>5 DEF Found
  <2>6. QED
    BY <2>2, <2>3, <2>4, <2>5 DEF Txn
<1>15. QED
  BY <1>7, <1>8, <1>12, <1>14, OthersProgress

LEMMA LockSlotProgress ==
  ASSUME Sound, Progress, SlotsTyped, NEW c \in Conn, txn[c] # Idle, LockSlot(c)
  PROVE  Progress'
<1>1. CASE Rollback(c)
  BY <1>1, RollbackProgress
<1>2. CASE ~Rollback(c)
  <2>1. PICK t : t = txn[c]
    OBVIOUS
  <2>2. t \in Txn /\ t.at = "window" /\ AtLine(c, t)
    BY <2>1 DEF LockSlot, Sound, Knows, Progress
  <2>3. /\ ~(t.night = Len(CurrentLine(t).slots) /\ ~WindowAllows(c))
        /\ Lock(c, <<"slot", CurrentLine(t).slots[t.night]>>)
        /\ txn' = [txn EXCEPT ![c] =
                    IF t.night < Len(CurrentLine(t).slots) THEN [t EXCEPT !.night = @ + 1]
                    ELSE [t EXCEPT !.night = 1, !.line = @ + 1,
                                   !.at = IF t.line = LastLine(t) THEN "commit" ELSE @]]
        /\ UNCHANGED <<status, slot>>
    BY <1>2, <2>1 DEF LockSlot, committedVars
  <2>4. CASE t.night < Len(CurrentLine(t).slots)
    BY <2>1, <2>2, <2>3, <2>4, MiddleNight
  <2>5. CASE ~(t.night < Len(CurrentLine(t).slots))
    <3>1. t.line \in DOMAIN Lines[t.key] /\ t.key \in Key /\ t.night \in 1..Len(CurrentLine(t).slots)
      BY <2>2 DEF AtLine, Txn
    <3>2. Len(CurrentLine(t).slots) \in Nat
      BY <3>1, LineParts DEF CurrentLine
    <3>3. t.night = Len(CurrentLine(t).slots)
      BY <2>5, <3>1, <3>2
    <3>4. QED
      BY <2>1, <2>2, <2>3, <2>5, <3>3, LastNight
  <2>6. QED
    BY <2>4, <2>5
<1>3. QED
  BY <1>1, <1>2

-----------------------------------------------------------------------------
(* The commit.                                                              *)

LEMMA NothingWritten ==
  ASSUME SlotsTyped, NEW c \in Conn, NEW s \in Slot, Written(c, s) = 0
  PROVE  SlotAfter(c, s) = slot[s]
<1>1. PICK row : row = slot[s]
  OBVIOUS
<1>2. row \in [sold : Nat, reserved : Nat]
  BY <1>1 DEF SlotsTyped
<1>3. PICK a \in Nat, b \in Nat : row = [sold |-> a, reserved |-> b]
  BY <1>2
<1>4. row.reserved = b /\ row.sold = a /\ [row EXCEPT !.reserved = b] = row
      /\ [row EXCEPT !.reserved = b, !.sold = a] = row
  <2>1. row.reserved = b /\ row.sold = a
    BY <1>3
  <2>2. [row EXCEPT !.reserved = b] = row
    BY <1>2, <2>1
  <2>3. [row EXCEPT !.sold = a] = row
    BY <1>2, <2>1
  <2>4. QED
    BY <2>1, <2>2, <2>3
<1>5. b + 0 = b /\ b - 0 = b /\ a + 0 = a /\ b - Lesser(0, b) = b
  BY DEF Lesser
<1>6. /\ [row EXCEPT !.reserved = row.reserved + 0] = row
      /\ [row EXCEPT !.reserved = row.reserved - 0, !.sold = row.sold + 0] = row
      /\ [row EXCEPT !.reserved = row.reserved - Lesser(0, row.reserved)] = row
  <2>1. /\ row.reserved + 0 = b /\ row.reserved - 0 = b /\ row.sold + 0 = a
        /\ row.reserved - Lesser(0, row.reserved) = b
    BY <1>4, <1>5
  <2>2. QED
    BY <1>4, <2>1, Zenon
<1>7. QED
  BY <1>1, <1>6 DEF SlotAfter

LEMMA CommitProgress ==
  ASSUME Sound, Progress, SlotsTyped, NEW c \in Conn, txn[c] # Idle, Commit(c)
  PROVE  Progress'
<1>1. PICK t : t = txn[c]
  OBVIOUS
<1>2. /\ t \in Txn /\ t.res \in Res /\ t.at = "commit"
      /\ \A r \in Res : r # t.res => status'[r] = status[r]
  BY <1>1, CommitEffect
<1>3. /\ AtLine(c, t)
      /\ t.op = "reserve" => ReserveKnows(c, t)
      /\ t.op # "reserve" => CallKnows(c, t)
  BY <1>1, <1>2 DEF Progress, Sound, Knows
<1>4. /\ txn' = [txn EXCEPT ![c] = Idle]
      /\ held_by' = [row \in Row |-> IF held_by[row] = c THEN Nobody ELSE held_by[row]]
      /\ slot' = [s \in Slot |-> SlotAfter(c, s)]
  BY DEF Commit, Unlock
<1> SUFFICES ASSUME NEW d \in Conn, NEW u \in Txn, txn'[d] = u
             PROVE  AtLine(d, u)' /\ Found(d, u)'
  BY DEF Progress
<1>5. d # c /\ txn[d] = u
  <2>1. Idle.at = "idle"
    BY DEF Idle
  <2>2. Idle \notin Txn
    BY <2>1 DEF Txn
  <2>3. QED
    BY <1>4, <2>2 DEF Sound
<1>6. /\ u # Idle /\ AtLine(d, u) /\ Found(d, u)
      /\ u.op = "reserve" => ReserveKnows(d, u)
      /\ u.op # "reserve" => CallKnows(d, u)
  <2>1. Idle.at = "idle"
    BY DEF Idle
  <2>2. u # Idle
    BY <2>1 DEF Txn
  <2>3. QED
    BY <1>5, <2>2 DEF Progress, Sound, Knows
<1>7. \A row \in Row : held_by[row] = d => held_by'[row] = d
  BY <1>4, <1>5
<1>8. ASSUME Inside(u)
      PROVE  status'[u.res] = status[u.res]
  <2>1. u.res # t.res
    <3>1. CASE u.op = "reserve"
      BY <1>1, <1>2, <1>5, <1>6, <1>8, <3>1 DEF ReserveKnows, Inside, Txn
    <3>2. CASE t.op = "reserve"
      BY <1>2, <1>3, <1>5, <1>6, <3>2 DEF ReserveKnows, Inside
    <3>3. CASE u.op # "reserve" /\ t.op # "reserve"
      BY <1>2, <1>3, <1>5, <1>6, <1>8, <3>3 DEF CallKnows, Inside
    <3>4. QED
      BY <3>1, <3>2, <3>3
  <2>2. u.res \in Res
    BY <1>6, <1>8 DEF ReserveKnows, CallKnows
  <2>3. QED
    BY <1>2, <2>1, <2>2
<1>9. ASSUME NEW s \in Slot, held_by[<<"slot", s>>] = d
      PROVE  slot'[s] = slot[s]
  <2>1. s \notin DoneSlots(t)
    BY <1>2, <1>3, <1>5, <1>9 DEF AtLine, Inside
  <2>2. Cardinality(DoneUnits(t, s)) = 0
    BY <1>2, <2>1, DoneSomewhere
  <2>3. Written(c, s) = 0
    BY <1>1, <2>2 DEF Written, DoneUnits
  <2>4. QED
    BY <1>4, <2>3, NothingWritten
<1>10. QED
  BY <1>6, <1>7, <1>8, <1>9, ProgressStands DEF Inside

(* The rooms in a phase, before and after one reservation changes it. *)
LEMMA RoomsAfter ==
  ASSUME Sound, Sound', NEW k \in Key, NEW x \in Res,
         \A r \in Res : r # x => status'[r] = status[r] /\ request'[r] = request[r],
         request'[x] = k,
         request[x] = k \/ (status[x] = "none" /\ ~Recorded(k)),
         NEW phase, "none" \notin phase, NEW s
  PROVE  /\ RoomsIn(phase, s)'
              = (RoomsIn(phase, s) \ Covering(k, s))
                  \cup (IF status'[x] \in phase THEN Covering(k, s) ELSE {})
         /\ RoomsIn(phase, s) \cap Covering(k, s)
              = IF status[x] \in phase THEN Covering(k, s) ELSE {}
<1>1. \A r \in Res : /\ request'[r] = k => r = x
                     /\ request[r] = k => r = x /\ request[x] = k
  <2>1. k # "none"
    BY LocksAssumption
  <2>2. QED
    BY <2>1 DEF Sound, OneReservationPerKey, Recorded
<1>2. request[x] = k \/ request[x] = "none"
  BY DEF Sound, RowsSound
<1>3. \A r \in Res : \A u \in Units : u[1] # k =>
        ((request'[r] = u[1] /\ status'[r] \in phase) <=> (request[r] = u[1] /\ status[r] \in phase))
  <2>1. \A u \in Units : u[1] # "none"
    BY UnitParts, LocksAssumption
  <2>2. QED
    BY <1>2, <2>1
<1>4. \A u \in Units : u[1] = k =>
        /\ (\E r \in Res : request'[r] = u[1] /\ status'[r] \in phase) <=> status'[x] \in phase
        /\ (\E r \in Res : request[r] = u[1] /\ status[r] \in phase) <=> status[x] \in phase
  BY <1>1
<1>5. RoomsIn(phase, s)' = {u \in Units : /\ s \in NightsOf(u)
                                          /\ \E r \in Res : request'[r] = u[1] /\ status'[r] \in phase}
  BY DEF RoomsIn
<1>6. QED
  BY <1>3, <1>4, <1>5 DEF RoomsIn, Covering

LEMMA CountAfter ==
  ASSUME Sound, Sound', NEW k \in Key, NEW x \in Res,
         \A r \in Res : r # x => status'[r] = status[r] /\ request'[r] = request[r],
         request'[x] = k,
         request[x] = k \/ (status[x] = "none" /\ ~Recorded(k)),
         NEW phase, "none" \notin phase, NEW s
  PROVE  LET n == Cardinality(Covering(k, s))
             before == Cardinality(RoomsIn(phase, s))
         IN  /\ n \in Nat /\ before \in Nat
             /\ status[x] \in phase => n =< before
             /\ Cardinality(RoomsIn(phase, s)')
                  = before - (IF status[x] \in phase THEN n ELSE 0)
                           + (IF status'[x] \in phase THEN n ELSE 0)
<1> DEFINE C == Covering(k, s)
           B == RoomsIn(phase, s)
           n == Cardinality(C)
<1>1. /\ RoomsIn(phase, s)' = (B \ C) \cup (IF status'[x] \in phase THEN C ELSE {})
      /\ B \cap C = IF status[x] \in phase THEN C ELSE {}
  BY RoomsAfter
<1>2. /\ IsFiniteSet(B) /\ IsFiniteSet(C) /\ IsFiniteSet(B \ C)
      /\ n \in Nat /\ Cardinality(B) \in Nat /\ Cardinality(B \ C) \in Nat
  <2>1. B \in SUBSET Units /\ C \in SUBSET Units /\ B \ C \in SUBSET Units
    BY DEF RoomsIn, Covering
  <2>2. QED
    BY <2>1, RoomsFinite
<1>3. /\ Cardinality(B \ C) = Cardinality(B) - (IF status[x] \in phase THEN n ELSE 0)
      /\ status[x] \in phase => n =< Cardinality(B)
  <2>1. CASE status[x] \in phase
    <3>1. C \subseteq B
      BY <1>1, <2>1
    <3>2. QED
      BY <1>2, <2>1, <3>1, CardinalityRemove
  <2>2. CASE status[x] \notin phase
    <3>1. B \ C = B
      BY <1>1, <2>2
    <3>2. QED
      BY <1>2, <2>2, <3>1
  <2>3. QED
    BY <2>1, <2>2
<1>4. Cardinality(RoomsIn(phase, s)')
        = Cardinality(B \ C) + (IF status'[x] \in phase THEN n ELSE 0)
  <2>1. CASE status'[x] \in phase
    <3>1. (B \ C) \cap C = {} /\ RoomsIn(phase, s)' = (B \ C) \cup C
      BY <1>1, <2>1
    <3>2. QED
      BY <1>2, <2>1, <3>1, CardinalityAdd
  <2>2. CASE status'[x] \notin phase
    <3>1. RoomsIn(phase, s)' = B \ C
      BY <1>1, <2>2
    <3>2. QED
      BY <1>2, <2>2, <3>1
  <2>3. QED
    BY <2>1, <2>2
<1>5. QED
  BY <1>2, <1>3, <1>4

(* What the commit does to a night, in numbers. *)
LEMMA SlotArithmetic ==
  ASSUME SlotsTyped, NEW c \in Conn, NEW s \in Slot, NEW t \in Txn, txn[c] = t,
         NEW q \in Nat, Written(c, s) = q,
         t.op = "confirm" => q =< slot[s].reserved
  PROVE  /\ SlotAfter(c, s) \in [sold : Nat, reserved : Nat]
         /\ t.op = "reserve" => /\ SlotAfter(c, s).sold = slot[s].sold
                                /\ SlotAfter(c, s).reserved = slot[s].reserved + q
         /\ t.op = "confirm" => /\ SlotAfter(c, s).sold = slot[s].sold + q
                                /\ SlotAfter(c, s).reserved = slot[s].reserved - q
         /\ t.op \in {"cancel", "expire"} /\ q =< slot[s].reserved =>
              /\ SlotAfter(c, s).sold = slot[s].sold
              /\ SlotAfter(c, s).reserved = slot[s].reserved - q
         /\ t.op = "request_payment" => SlotAfter(c, s) = slot[s]
<1>1. PICK row : row = slot[s]
  OBVIOUS
<1>2. row \in [sold : Nat, reserved : Nat]
  BY <1>1 DEF SlotsTyped
<1>3. PICK x \in Int, y \in Int :
        /\ SlotAfter(c, s) = IF t.op = "confirm" THEN [row EXCEPT !.reserved = x, !.sold = y]
                             ELSE IF t.op = "request_payment" THEN row
                             ELSE [row EXCEPT !.reserved = x]
        /\ t.op = "reserve" => x = row.reserved + q
        /\ t.op = "confirm" => x = row.reserved - q /\ y = row.sold + q
        /\ t.op \in {"cancel", "expire"} => x = row.reserved - Lesser(q, row.reserved)
  <2>1. row.reserved \in Nat /\ row.sold \in Nat
    BY <1>2
  <2>2. CASE t.op = "reserve"
    <3>1. SlotAfter(c, s) = [row EXCEPT !.reserved = row.reserved + q]
      BY <1>1, <2>2 DEF SlotAfter
    <3>2. row.reserved + q \in Int
      BY <2>1
    <3>3. QED
      BY <2>2, <3>1, <3>2
  <2>3. CASE t.op = "confirm"
    <3>1. SlotAfter(c, s) = [row EXCEPT !.reserved = row.reserved - q, !.sold = row.sold + q]
      BY <1>1, <2>3 DEF SlotAfter
    <3>2. row.reserved - q \in Int /\ row.sold + q \in Int
      BY <2>1
    <3>3. QED
      BY <2>3, <3>1, <3>2
  <2>4. CASE t.op \in {"cancel", "expire"}
    <3>1. SlotAfter(c, s) = [row EXCEPT !.reserved = row.reserved - Lesser(q, row.reserved)]
      BY <1>1, <2>4 DEF SlotAfter
    <3>2. row.reserved - Lesser(q, row.reserved) \in Int
      BY <2>1 DEF Lesser
    <3>3. QED
      BY <2>4, <3>1, <3>2
  <2>5. CASE t.op = "request_payment"
    <3>1. SlotAfter(c, s) = row
      BY <1>1, <2>5 DEF SlotAfter
    <3>2. QED
      BY <2>5, <3>1
  <2>6. QED
    BY <2>2, <2>3, <2>4, <2>5 DEF Txn
<1>4. /\ t.op = "reserve" => x \in Nat
      /\ t.op = "confirm" => x \in Nat /\ y \in Nat
      /\ t.op \in {"cancel", "expire"} => x \in Nat /\ (q =< row.reserved => x = row.reserved - q)
  BY <1>1, <1>2, <1>3 DEF Lesser
<1>5. CASE t.op = "confirm"
  BY <1>1, <1>2, <1>3, <1>4, <1>5
<1>6. CASE t.op = "request_payment"
  BY <1>1, <1>2, <1>3, <1>6
<1>7. CASE t.op \in {"reserve", "cancel", "expire"}
  BY <1>1, <1>2, <1>3, <1>4, <1>7
<1>8. QED
  BY <1>5, <1>6, <1>7 DEF Txn

LEMMA CommitCounted ==
  ASSUME IInv, Sound', NEW c \in Conn, txn[c] # Idle, Commit(c)
  PROVE  Counted'
<1>1. PICK t : t = txn[c]
  OBVIOUS
<1>2. /\ t \in Txn /\ t.res \in Res /\ t.at = "commit" /\ t.key \in Key
      /\ \A r \in Res : r # t.res => status'[r] = status[r] /\ request'[r] = request[r]
      /\ request'[t.res] = t.key
  BY <1>1, CommitEffect DEF IInv, Txn
<1>3. /\ Found(c, t)
      /\ t.op = "reserve" => ReserveKnows(c, t)
      /\ t.op # "reserve" => CallKnows(c, t)
  BY <1>1, <1>2 DEF IInv, Progress, Sound, Knows
<1>4. request[t.res] = t.key \/ (status[t.res] = "none" /\ ~Recorded(t.key))
  BY <1>2, <1>3 DEF ReserveKnows, CallKnows, Inside
<1>5. /\ slot' = [s \in Slot |-> SlotAfter(c, s)]
      /\ status' = IF t.op \in {"cancel", "expire"} /\ status[t.res] \notin Unsettled
                   THEN status ELSE [status EXCEPT ![t.res] = StatusAfter(t)]
  BY <1>1 DEF Commit
<1>6. status \in [Res -> Status]
  BY DEF IInv, Sound, RowsSound
<1>7. "none" \notin Unsettled /\ "none" \notin {"converted"}
  BY DEF Unsettled
<1>8. ASSUME NEW s \in Slot
      PROVE  /\ slot'[s] \in [sold : Nat, reserved : Nat]
             /\ slot'[s].sold = Cardinality(RoomsIn({"converted"}, s)')
             /\ slot'[s].reserved = Cardinality(RoomsIn(Unsettled, s)')
             /\ slot'[s].sold + slot'[s].reserved =< Capacity[s]
  <2> DEFINE n == Cardinality(Covering(t.key, s))
             sold == slot[s].sold
             reserved == slot[s].reserved
             q == Cardinality(DoneUnits(t, s))
  <2>1. /\ sold \in Nat /\ reserved \in Nat /\ sold + reserved =< Capacity[s] /\ Capacity[s] \in Nat
        /\ sold = Cardinality(RoomsIn({"converted"}, s))
        /\ reserved = Cardinality(RoomsIn(Unsettled, s))
    <3>1. slot[s] = [sold |-> Cardinality(RoomsIn({"converted"}, s)),
                     reserved |-> Cardinality(RoomsIn(Unsettled, s))]
      BY DEF IInv, Counted, CountersMatchReservations
    <3>2. QED
      BY <3>1, LocksAssumption DEF IInv, Counted, SlotsTyped, NoOversell
  <2>2. /\ n \in Nat
        /\ status[t.res] \in Unsettled => n =< reserved
        /\ Cardinality(RoomsIn(Unsettled, s)')
             = reserved - (IF status[t.res] \in Unsettled THEN n ELSE 0)
                        + (IF status'[t.res] \in Unsettled THEN n ELSE 0)
    BY <1>2, <1>4, <1>7, <2>1, CountAfter DEF IInv
  <2>3. Cardinality(RoomsIn({"converted"}, s)')
          = sold - (IF status[t.res] = "converted" THEN n ELSE 0)
                 + (IF status'[t.res] = "converted" THEN n ELSE 0)
    <3>1. Cardinality(RoomsIn({"converted"}, s)')
            = Cardinality(RoomsIn({"converted"}, s))
                - (IF status[t.res] \in {"converted"} THEN n ELSE 0)
                + (IF status'[t.res] \in {"converted"} THEN n ELSE 0)
      BY <1>2, <1>4, <1>7, CountAfter DEF IInv
    <3>2. QED
      BY <2>1, <3>1
  <2>4. Written(c, s) = q /\ q \in Nat
    BY <1>1, RoomsFinite DEF Written, DoneUnits
  <2>5. DoneAll(t) => q = n
    BY <1>2, AllDone
  <2>6. slot'[s] = SlotAfter(c, s)
    BY <1>5
  <2>7. CASE t.op = "reserve"
    <3>1. q = n /\ status[t.res] = "none" /\ status'[t.res] = "held"
      BY <1>2, <1>3, <1>5, <1>6, <2>5, <2>7 DEF Found, ReserveKnows, Inside, StatusAfter
    <3>2. sold + reserved + q =< Capacity[s]
      <4>1. CASE s \in DoneSlots(t)
        <5>1. q =< Capacity[s] - sold - reserved
          BY <1>2, <1>3, <2>7, <4>1 DEF Found, Inside, remaining
        <5>2. QED
          BY <2>1, <2>4, <5>1
      <4>2. CASE s \notin DoneSlots(t)
        <5>1. q = 0
          BY <1>2, <4>2, DoneSomewhere
        <5>2. QED
          BY <2>1, <5>1
      <4>3. QED
        BY <4>1, <4>2
    <3>3. /\ slot'[s] \in [sold : Nat, reserved : Nat]
          /\ slot'[s].sold = sold /\ slot'[s].reserved = reserved + q
      BY <1>1, <1>2, <2>4, <2>6, <2>7, SlotArithmetic DEF IInv, Counted
    <3>4. /\ Cardinality(RoomsIn(Unsettled, s)') = reserved - 0 + n
          /\ Cardinality(RoomsIn({"converted"}, s)') = sold - 0 + 0
      BY <2>2, <2>3, <3>1 DEF Unsettled
    <3>5. QED
      BY <2>1, <2>2, <3>1, <3>2, <3>3, <3>4
  <2>8. CASE t.op = "confirm"
    <3>1. q = n /\ status[t.res] = "awaiting_payment" /\ status'[t.res] = "converted"
      BY <1>2, <1>3, <1>5, <1>6, <2>5, <2>8 DEF Found, Inside, StatusAfter
    <3>2. q =< reserved
      BY <2>2, <3>1 DEF Unsettled
    <3>3. /\ slot'[s] \in [sold : Nat, reserved : Nat]
          /\ slot'[s].sold = sold + q /\ slot'[s].reserved = reserved - q
      BY <1>1, <1>2, <2>4, <2>6, <2>8, <3>2, SlotArithmetic DEF IInv, Counted
    <3>4. /\ Cardinality(RoomsIn(Unsettled, s)') = reserved - n + 0
          /\ Cardinality(RoomsIn({"converted"}, s)') = sold - 0 + n
      BY <2>2, <2>3, <3>1 DEF Unsettled
    <3>5. QED
      BY <2>1, <2>2, <3>1, <3>2, <3>3, <3>4
  <2>9. CASE t.op \in {"cancel", "expire"} /\ status[t.res] \in Unsettled
    <3>1. q = n /\ status'[t.res] \notin Unsettled /\ status'[t.res] # "converted"
          /\ status[t.res] # "converted"
      BY <1>2, <1>3, <1>5, <1>6, <2>5, <2>9 DEF Found, StatusAfter, Unsettled
    <3>2. q =< reserved
      BY <2>2, <2>9, <3>1
    <3>3. /\ slot'[s] \in [sold : Nat, reserved : Nat]
          /\ slot'[s].sold = sold /\ slot'[s].reserved = reserved - q
      BY <1>1, <1>2, <2>4, <2>6, <2>9, <3>2, SlotArithmetic DEF IInv, Counted
    <3>4. /\ Cardinality(RoomsIn(Unsettled, s)') = reserved - n + 0
          /\ Cardinality(RoomsIn({"converted"}, s)') = sold - 0 + 0
      BY <2>2, <2>3, <2>9, <3>1
    <3>5. QED
      BY <2>1, <2>2, <3>1, <3>2, <3>3, <3>4
  <2>10. CASE \/ t.op = "request_payment"
              \/ t.op \in {"cancel", "expire"} /\ status[t.res] \notin Unsettled
    <3>1. slot'[s] = slot[s]
      <4>1. CASE t.op = "request_payment"
        BY <1>1, <1>2, <2>4, <2>6, <4>1, SlotArithmetic DEF IInv, Counted
      <4>2. CASE t.op \in {"cancel", "expire"} /\ status[t.res] \notin Unsettled
        <5>1. t.line = 1
          BY <1>2, <1>3, <4>2 DEF Found
        <5>2. q = 0
          BY <1>2, <5>1, NothingDone
        <5>3. QED
          BY <2>4, <2>6, <5>2, NothingWritten DEF IInv, Counted
      <4>3. QED
        BY <2>10, <4>1, <4>2
    <3>2. /\ (status[t.res] \in Unsettled) = (status'[t.res] \in Unsettled)
          /\ (status[t.res] = "converted") = (status'[t.res] = "converted")
      BY <1>2, <1>3, <1>5, <1>6, <2>10 DEF Found, Inside, StatusAfter, Unsettled
    <3>3. /\ Cardinality(RoomsIn(Unsettled, s)') = reserved
          /\ Cardinality(RoomsIn({"converted"}, s)') = sold
      BY <2>1, <2>2, <2>3, <3>2
    <3>4. slot[s] \in [sold : Nat, reserved : Nat]
      BY DEF IInv, Counted, SlotsTyped
    <3>5. QED
      BY <2>1, <3>1, <3>3, <3>4
  <2>11. QED
    BY <1>2, <2>7, <2>8, <2>9, <2>10 DEF Txn
<1>9. SlotsTyped'
  BY <1>5, <1>8 DEF SlotsTyped
<1>10. CountersMatchReservations'
  <2>1. ASSUME NEW s \in Slot
        PROVE  slot'[s] = [sold |-> Cardinality(RoomsIn({"converted"}, s)'),
                           reserved |-> Cardinality(RoomsIn(Unsettled, s)')]
    BY <1>8
  <2>2. QED
    BY <2>1 DEF CountersMatchReservations, RoomsIn, Unsettled
<1>11. NoOversell'
  BY <1>8 DEF NoOversell
<1>12. QED
  BY <1>9, <1>10, <1>11 DEF Counted

-----------------------------------------------------------------------------
(* The invariant.                                                           *)

(* What does not commit leaves the committed rows alone. *)
LEMMA CountedStands ==
  ASSUME Counted, UNCHANGED <<status, request, slot>>
  PROVE  Counted'
BY DEF Counted, SlotsTyped, CountersMatchReservations, NoOversell, RoomsIn

LEMMA InitInvariant ==
  ASSUME Init
  PROVE  IInv
<1>1. Sound
  BY InitSound
<1>2. Progress
  <2>1. Idle.at = "idle"
    BY DEF Idle
  <2>2. Idle \notin Txn
    BY <2>1 DEF Txn
  <2>3. QED
    BY <2>2 DEF Init, Progress
<1>3. \A phase, s : "none" \notin phase => RoomsIn(phase, s) = {}
  BY DEF Init, RoomsIn
<1>4. Cardinality({}) = 0
  BY FS_EmptySet
<1>5. ASSUME NEW s \in Slot
      PROVE  /\ slot[s] \in [sold : Nat, reserved : Nat]
             /\ slot[s] = [sold |-> Cardinality(RoomsIn({"converted"}, s)),
                           reserved |-> Cardinality(RoomsIn(Unsettled, s))]
             /\ slot[s].sold + slot[s].reserved =< Capacity[s]
  <2>1. slot[s] = [sold |-> 0, reserved |-> 0] /\ Capacity[s] \in Nat
    BY LocksAssumption DEF Init
  <2>2. RoomsIn({"converted"}, s) = {} /\ RoomsIn(Unsettled, s) = {}
    BY <1>3 DEF Unsettled
  <2>3. QED
    BY <1>4, <2>1, <2>2
<1>6. Counted
  BY <1>5 DEF Init, Counted, SlotsTyped, CountersMatchReservations, NoOversell
<1>7. QED
  BY <1>1, <1>2, <1>6 DEF IInv

LEMMA StepInvariant ==
  ASSUME IInv, [Next]_vars
  PROVE  IInv'
<1>0. Sound /\ Sound' /\ Progress /\ Counted /\ SlotsTyped
  BY StepSound DEF IInv, Counted
<1>1. CASE Tick
  <2>1. UNCHANGED <<status, request, slot, held_by, txn>>
    BY <1>1 DEF Tick, committedVars
  <2>2. Progress'
    BY <1>0, <2>1, UnchangedProgress
  <2>3. QED
    BY <1>0, <2>1, <2>2, CountedStands DEF IInv
<1>2. ASSUME NEW c \in Conn, NEW t \in Txn, t.at \in {"key", "reservation"}, t.line = 1, t.night = 1,
             UNCHANGED <<status, request, slot, held_by>>, txn' = [txn EXCEPT ![c] = t]
      PROVE  IInv'
  BY <1>0, <1>2, BeginProgress, CountedStands DEF IInv
<1>3. ASSUME NEW c \in Worker, NEW k \in Key, BeginReserve(c, k)
      PROVE  IInv'
  <2>1. PICK t : t = [op |-> "reserve", at |-> "key", key |-> k, res |-> NoRes,
                      deadline |-> 0, line |-> 1, night |-> 1]
    OBVIOUS
  <2>2. t \in Txn /\ t.at = "key" /\ t.line = 1 /\ t.night = 1
    BY <2>1 DEF Txn
  <2>3. UNCHANGED <<status, request, slot, held_by>> /\ txn' = [txn EXCEPT ![c] = t] /\ c \in Conn
    BY <1>3, <2>1 DEF BeginReserve, Begin, committedVars, Conn
  <2>4. QED
    BY <1>2, <2>2, <2>3
<1>4. ASSUME NEW c \in Worker, NEW r \in Res, NEW op \in {"request_payment", "confirm", "cancel"},
             BeginCall(c, op, r)
      PROVE  IInv'
  <2>1. PICK t : t = [op |-> op, at |-> "reservation", key |-> request[r], res |-> r,
                      deadline |-> 0, line |-> 1, night |-> 1]
    OBVIOUS
  <2>2. request[r] \in Key
    BY <1>0, <1>4 DEF BeginCall, Sound, RowsSound
  <2>3. t \in Txn /\ t.at = "reservation" /\ t.line = 1 /\ t.night = 1
    BY <2>1, <2>2 DEF Txn
  <2>4. UNCHANGED <<status, request, slot, held_by>> /\ txn' = [txn EXCEPT ![c] = t] /\ c \in Conn
    BY <1>4, <2>1 DEF BeginCall, Begin, committedVars, Conn
  <2>5. QED
    BY <1>2, <2>3, <2>4
<1>5. ASSUME NEW w \in Sweeper, SweepRead(w)
      PROVE  IInv'
  <2>1. UNCHANGED <<status, request, slot, held_by, txn>>
    BY <1>5 DEF SweepRead, committedVars
  <2>2. Progress'
    BY <1>0, <2>1, UnchangedProgress
  <2>3. QED
    BY <1>0, <2>1, <2>2, CountedStands DEF IInv
<1>6. ASSUME NEW w \in Sweeper, BeginExpire(w)
      PROVE  IInv'
  <2>1. PICK r \in overdue_ids[w] :
          /\ txn' = [txn EXCEPT ![w] = [op |-> "expire", at |-> "reservation", key |-> request[r],
                                        res |-> r, deadline |-> 0, line |-> 1, night |-> 1]]
          /\ UNCHANGED <<now, committedVars, held_by>>
    BY <1>6 DEF BeginExpire
  <2>2. PICK t : t = [op |-> "expire", at |-> "reservation", key |-> request[r],
                      res |-> r, deadline |-> 0, line |-> 1, night |-> 1]
    OBVIOUS
  <2>3. r \in Res /\ request[r] \in Key
    BY <1>0 DEF Sound, RowsSound
  <2>4. t \in Txn /\ t.at = "reservation" /\ t.line = 1 /\ t.night = 1
    BY <2>2, <2>3 DEF Txn
  <2>5. UNCHANGED <<status, request, slot, held_by>> /\ txn' = [txn EXCEPT ![w] = t] /\ w \in Conn
    BY <2>1, <2>2 DEF committedVars, Conn
  <2>6. QED
    BY <1>2, <2>4, <2>5
<1>7. ASSUME NEW c \in Conn, Step(c) \/ ConnectionLost(c)
      PROVE  IInv'
  <2>1. CASE BreakDeadlock(c) \/ ConnectionLost(c)
    <3>1. Rollback(c)
      BY <2>1 DEF BreakDeadlock, ConnectionLost
    <3>2. UNCHANGED <<status, request, slot>>
      BY <3>1 DEF Rollback, committedVars
    <3>3. QED
      BY <1>0, <3>1, <3>2, RollbackProgress, CountedStands DEF IInv
  <2>2. CASE InsertKey(c) \/ LockReservation(c) \/ LockSlot(c)
    <3>1. txn[c] # Idle
      BY <2>2, AtWork
    <3>2. UNCHANGED <<status, request, slot>>
      BY <2>2 DEF InsertKey, LockReservation, LockSlot, Rollback, committedVars
    <3>3. Progress'
      BY <1>0, <2>2, <3>1, InsertKeyProgress, LockReservationProgress, LockSlotProgress
    <3>4. QED
      BY <1>0, <3>2, <3>3, CountedStands DEF IInv
  <2>3. CASE Commit(c)
    <3>1. txn[c] # Idle
      BY <2>3, AtWork
    <3>2. QED
      BY <1>0, <2>3, <3>1, CommitProgress, CommitCounted DEF IInv
  <2>4. QED
    BY <1>7, <2>1, <2>2, <2>3 DEF Step
<1>8. CASE UNCHANGED vars
  <2>1. UNCHANGED <<status, request, slot, held_by, txn>>
    BY <1>8 DEF vars
  <2>2. Progress'
    BY <1>0, <2>1, UnchangedProgress
  <2>3. QED
    BY <1>0, <2>1, <2>2, CountedStands DEF IInv
<1>9. QED
  BY <1>1, <1>3, <1>4, <1>5, <1>6, <1>7, <1>8 DEF Next

-----------------------------------------------------------------------------
(* The theorems.                                                            *)

(* Whatever transactions overlap, a transaction that locks the rows it      *)
(* writes finds at its commit what it found when it checked them.           *)
THEOREM LockedLedgerSound == Spec => []IInv
<1>1. Init => IInv
  BY InitInvariant
<1>2. IInv /\ [Next]_vars => IInv'
  BY StepInvariant
<1>3. QED
  BY <1>1, <1>2, PTL DEF Spec

(* Every variable keeps its type. *)
THEOREM LocksTypeCorrect == Spec => []TypeOK
<1>1. IInv => TypeOK
  BY DEF IInv, Sound, RowsSound, Knows, Counted, SlotsTyped, TypeOK
<1>2. QED
  BY <1>1, LockedLedgerSound, PTL

(* The counters of every night are the rooms of the reservations committed: *)
(* no interleaving loses an update of availability/repository.py or applies *)
(* it twice, and no rollback leaves one behind.                             *)
THEOREM CountersAlwaysMatch == Spec => []CountersMatchReservations
<1>1. IInv => CountersMatchReservations
  BY DEF IInv, Counted
<1>2. QED
  BY <1>1, LockedLedgerSound, PTL

(* No night is oversold, although the capacity is checked one line and one  *)
(* transaction at a time and long before the commit.                        *)
THEOREM LocksNeverOversell == Spec => []NoOversell
<1>1. IInv => NoOversell
  BY DEF IInv, Counted
<1>2. QED
  BY <1>1, LockedLedgerSound, PTL

-----------------------------------------------------------------------------
(* The refinement.                                                          *)

(* The instance's own copy of Cardinality is the same operator. *)
LEMMA LedgerCardinality ==
  ASSUME NEW S
  PROVE  Ledger!Cardinality(S) = Cardinality(S)
BY DEF Ledger!Cardinality, Cardinality

PhaseOf(st) ==
  CASE st \in Unsettled -> "held"
    [] st = "converted" -> "sold"
    [] OTHER -> "released"

(* A key's claim is the phase of its one reservation, or none. *)
LEMMA ClaimIs ==
  ASSUME OneReservationPerKey, NEW k \in Key, NEW r \in Res, request[r] = k
  PROVE  ClaimOf(k) = PhaseOf(status[r])
<1>1. {x \in Res : request[x] = k} = {r}
  BY LocksAssumption DEF OneReservationPerKey
<1>2. (CHOOSE x \in {r} : TRUE) = r
  OBVIOUS
<1>3. QED
  BY <1>1, <1>2 DEF ClaimOf, PhaseOf

LEMMA Unclaimed ==
  ASSUME NEW k \in Key, ~Recorded(k)
  PROVE  ClaimOf(k) = "none"
<1>1. {x \in Res : request[x] = k} = {}
  BY DEF Recorded
<1>2. QED
  BY <1>1 DEF ClaimOf

(* What is claimed on a night is what its counters count. *)
LEMMA ClaimedWithinCapacity ==
  ASSUME IInv
  PROVE  Ledger!WithinCapacity
<1> SUFFICES ASSUME NEW s \in Slot
             PROVE  Cardinality(Ledger!Claimed(s)) + 0 =< Capacity[s]
  BY LedgerCardinality DEF Ledger!WithinCapacity
<1> DEFINE X == RoomsIn(Unsettled, s)
           Y == RoomsIn({"converted"}, s)
<1>1. OneReservationPerKey
  BY DEF IInv, Sound
<1>2. ASSUME NEW u \in Units
      PROVE  /\ u[1] \in Key
             /\ ClaimOf(u[1]) \in {"held", "sold"} <=>
                  \E r \in Res : request[r] = u[1] /\ status[r] \in Unsettled \cup {"converted"}
  <2>1. u[1] \in Key
    BY UnitParts
  <2>2. CASE Recorded(u[1])
    <3>1. PICK r \in Res : request[r] = u[1]
      BY <2>2 DEF Recorded
    <3>2. ClaimOf(u[1]) = PhaseOf(status[r])
      BY <1>1, <2>1, <3>1, ClaimIs
    <3>3. \A x \in Res : request[x] = u[1] => x = r
      BY <1>1, <2>1, <3>1, LocksAssumption DEF OneReservationPerKey
    <3>4. QED
      BY <2>1, <3>1, <3>2, <3>3 DEF PhaseOf
  <2>3. CASE ~Recorded(u[1])
    BY <2>1, <2>3, Unclaimed DEF Recorded
  <2>4. QED
    BY <2>2, <2>3
<1>3. Ledger!Claimed(s) = X \cup Y
  BY <1>2 DEF Ledger!Claimed, RoomsIn
<1>4. X \cap Y = {}
  <2>1. ASSUME NEW u \in X \cap Y
        PROVE  FALSE
    <3>1. u \in Units /\ u[1] # "none"
      BY UnitParts, LocksAssumption DEF RoomsIn
    <3>2. PICK r \in Res : request[r] = u[1] /\ status[r] \in Unsettled
      BY DEF RoomsIn
    <3>3. PICK x \in Res : request[x] = u[1] /\ status[x] = "converted"
      BY DEF RoomsIn
    <3>4. x = r
      BY <1>1, <3>1, <3>2, <3>3 DEF OneReservationPerKey
    <3>5. QED
      BY <3>2, <3>3, <3>4 DEF Unsettled
  <2>2. QED
    BY <2>1
<1>5. /\ IsFiniteSet(X) /\ IsFiniteSet(Y) /\ Cardinality(X) \in Nat /\ Cardinality(Y) \in Nat
  BY RoomsFinite DEF RoomsIn
<1>6. Cardinality(Ledger!Claimed(s)) = Cardinality(X) + Cardinality(Y)
  BY <1>3, <1>4, <1>5, CardinalityAdd
<1>7. slot[s].sold = Cardinality(Y) /\ slot[s].reserved = Cardinality(X)
  <2>1. slot[s] = [sold |-> Cardinality(Y), reserved |-> Cardinality(X)]
    BY DEF IInv, Counted, CountersMatchReservations
  <2>2. QED
    BY <2>1
<1>8. Cardinality(X) + Cardinality(Y) + 0 =< Capacity[s]
  <2>1. slot[s].sold + slot[s].reserved =< Capacity[s] /\ Capacity[s] \in Nat
    BY LocksAssumption DEF IInv, Counted, NoOversell
  <2>2. QED
    BY <1>5, <1>7, <2>1
<1>9. QED
  BY <1>6, <1>8

LEMMA WithinCapacityNext == IInv' => Ledger!WithinCapacity'
<1>1. IInv => Ledger!WithinCapacity
  BY ClaimedWithinCapacity
<1>2. QED
  BY <1>1, PTL

(* The commit changes the claim of its own key only. *)
LEMMA OneClaim ==
  ASSUME NEW k \in Key, NEW x \in Res,
         \A r \in Res : r # x => status'[r] = status[r] /\ request'[r] = request[r],
         request'[x] = k, request[x] \in {k, "none"}
  PROVE  [j \in Key |-> ClaimOf(j)]' = [[j \in Key |-> ClaimOf(j)] EXCEPT ![k] = ClaimOf(k)']
<1>1. ASSUME NEW j \in Key, j # k
      PROVE  ClaimOf(j)' = ClaimOf(j)
  <2>1. {r \in Res : request'[r] = j} = {r \in Res : request[r] = j}
    BY <1>1, LocksAssumption
  <2>2. PICK made : made = {r \in Res : request[r] = j}
    OBVIOUS
  <2>3. \A r \in made : status'[r] = status[r]
    BY <1>1, <2>2, LocksAssumption
  <2>4. CASE made = {}
    BY <2>1, <2>2, <2>4 DEF ClaimOf
  <2>5. CASE made # {}
    <3>1. PICK r \in made : r = CHOOSE y \in made : TRUE
      BY <2>5
    <3>2. ClaimOf(j) = PhaseOf(status[r])
      BY <2>2, <2>5, <3>1 DEF ClaimOf, PhaseOf
    <3>3. ClaimOf(j)' = PhaseOf(status'[r])
      BY <2>1, <2>2, <2>5, <3>1 DEF ClaimOf, PhaseOf
    <3>4. QED
      BY <2>3, <3>1, <3>2, <3>3
  <2>6. QED
    BY <2>4, <2>5
<1>2. QED
  BY <1>1

LEMMA UnclaimedChange ==
  ASSUME UNCHANGED <<status, request>>
  PROVE  UNCHANGED Ledger!ledgerVars
BY DEF Ledger!ledgerVars, ClaimOf

LEMMA CommitRefines ==
  ASSUME IInv, IInv', NEW c \in Conn, txn[c] # Idle, Commit(c)
  PROVE  \/ \E k \in Key : Ledger!Hold(k) \/ Ledger!ConvertToSold(k) \/ Ledger!Release(k)
         \/ UNCHANGED Ledger!ledgerVars
<1>1. PICK t : t = txn[c]
  OBVIOUS
<1>2. PICK k, x : k = t.key /\ x = t.res
  OBVIOUS
<1>3. /\ t \in Txn /\ x \in Res /\ t.at = "commit" /\ k \in Key
      /\ \A r \in Res : r # x => status'[r] = status[r] /\ request'[r] = request[r]
      /\ request'[x] = k
  BY <1>1, <1>2, CommitEffect DEF IInv, Txn
<1>4. /\ Found(c, t)
      /\ t.op = "reserve" => ReserveKnows(c, t)
      /\ t.op # "reserve" => CallKnows(c, t)
  BY <1>1, <1>3 DEF IInv, Progress, Sound, Knows
<1>5. /\ t.op = "reserve" => ~Recorded(k) /\ request[x] = "none"
      /\ t.op # "reserve" => request[x] = k
  BY <1>2, <1>3, <1>4 DEF ReserveKnows, CallKnows, Inside, IInv, Sound, RowsSound
<1>6. [j \in Key |-> ClaimOf(j)]' = [[j \in Key |-> ClaimOf(j)] EXCEPT ![k] = ClaimOf(k)']
  BY <1>3, <1>5, OneClaim
<1>7. ClaimOf(k)' = PhaseOf(status'[x])
  <2>1. OneReservationPerKey'
    BY DEF IInv, Sound
  <2>2. {y \in Res : request'[y] = k} = {x}
    BY <1>3, <2>1, LocksAssumption DEF OneReservationPerKey
  <2>3. (CHOOSE y \in {x} : TRUE) = x
    OBVIOUS
  <2>4. QED
    BY <2>2, <2>3 DEF ClaimOf, PhaseOf
<1>8. /\ t.op = "reserve" => ClaimOf(k) = "none"
      /\ t.op # "reserve" => ClaimOf(k) = PhaseOf(status[x])
  BY <1>3, <1>5, Unclaimed, ClaimIs DEF IInv, Sound
<1>9. /\ status \in [Res -> Status]
      /\ status' = IF t.op \in {"cancel", "expire"} /\ status[x] \notin Unsettled
                   THEN status ELSE [status EXCEPT ![x] = StatusAfter(t)]
  BY <1>1, <1>2 DEF Commit, IInv, Sound, RowsSound
<1>10. /\ t.op = "reserve" => status'[x] = "held"
       /\ t.op = "request_payment" => status[x] = "held" /\ status'[x] = "awaiting_payment"
       /\ t.op = "confirm" => status[x] = "awaiting_payment" /\ status'[x] = "converted"
       /\ t.op \in {"cancel", "expire"} =>
            \/ status[x] \in Unsettled /\ status'[x] \in {"cancelled", "expired"}
            \/ status' = status
  BY <1>2, <1>3, <1>4, <1>9 DEF Found, Inside, StatusAfter, Unsettled
<1>11. /\ \A st \in Unsettled : PhaseOf(st) = "held"
       /\ PhaseOf("converted") = "sold" /\ PhaseOf("cancelled") = "released"
       /\ PhaseOf("expired") = "released"
  BY DEF PhaseOf, Unsettled
<1>12. CASE t.op = "reserve"
  <2>1. ClaimOf(k) = "none" /\ ClaimOf(k)' = "held"
    BY <1>7, <1>8, <1>10, <1>11, <1>12 DEF Unsettled
  <2>2. Ledger!WithinCapacity'
    BY WithinCapacityNext
  <2>3. Ledger!Hold(k)
    BY <1>3, <1>6, <2>1, <2>2 DEF Ledger!Hold, Ledger!Take
  <2>4. QED
    BY <1>3, <2>3
<1>13. CASE t.op = "confirm"
  <2>1. ClaimOf(k) = "held" /\ ClaimOf(k)' = "sold"
    BY <1>7, <1>8, <1>10, <1>11, <1>13 DEF Unsettled
  <2>2. Ledger!ConvertToSold(k)
    BY <1>3, <1>6, <2>1 DEF Ledger!ConvertToSold, Ledger!Settle
  <2>3. QED
    BY <1>3, <2>2
<1>14. CASE t.op \in {"cancel", "expire"} /\ status[x] \in Unsettled /\ status' # status
  <2>1. ClaimOf(k) = "held" /\ ClaimOf(k)' = "released"
    BY <1>7, <1>8, <1>10, <1>11, <1>14
  <2>2. Ledger!Release(k)
    BY <1>3, <1>6, <2>1 DEF Ledger!Release, Ledger!Settle
  <2>3. QED
    BY <1>3, <2>2
<1>15. CASE t.op = "request_payment" \/ (status' = status /\ t.op # "reserve")
  <2>1. ClaimOf(k)' = ClaimOf(k)
    BY <1>7, <1>8, <1>10, <1>11, <1>15 DEF Unsettled
  <2>2. UNCHANGED Ledger!ledgerVars
    BY <1>3, <1>6, <2>1 DEF Ledger!ledgerVars
  <2>3. QED
    BY <2>2
<1>16. QED
  BY <1>3, <1>10, <1>12, <1>13, <1>14, <1>15 DEF Txn

LEMMA StepRefines ==
  ASSUME IInv, IInv', [Next]_vars
  PROVE  [Ledger!Next]_(Ledger!ledgerVars)
<1>1. CASE UNCHANGED <<status, request>>
  BY <1>1, UnclaimedChange
<1>2. ASSUME NEW c \in Conn, Commit(c)
      PROVE  [Ledger!Next]_(Ledger!ledgerVars)
  <2>1. txn[c] # Idle
    BY <1>2, AtWork
  <2>2. QED
    BY <1>2, <2>1, CommitRefines DEF Ledger!Next
<1>3. ASSUME NEW c \in Conn, Step(c) \/ ConnectionLost(c), ~Commit(c)
      PROVE  UNCHANGED <<status, request>>
  BY <1>3 DEF Step, ConnectionLost, BreakDeadlock, InsertKey, LockReservation, LockSlot, Rollback,
              committedVars
<1>4. ASSUME Tick \/ UNCHANGED vars
      PROVE  UNCHANGED <<status, request>>
  BY <1>4 DEF Tick, vars, committedVars
<1>5. ASSUME NEW c \in Worker,
             \/ \E k \in Key : BeginReserve(c, k)
             \/ \E r \in Res, op \in {"request_payment", "confirm", "cancel"} : BeginCall(c, op, r)
      PROVE  UNCHANGED <<status, request>>
  BY <1>5 DEF BeginReserve, BeginCall, Begin, committedVars
<1>6. ASSUME NEW w \in Sweeper, SweepRead(w) \/ BeginExpire(w)
      PROVE  UNCHANGED <<status, request>>
  BY <1>6 DEF SweepRead, BeginExpire, committedVars
<1>7. QED
  BY <1>1, <1>2, <1>3, <1>4, <1>5, <1>6 DEF Next

(* Whole transactions, with their locks, retries, deadlocks and lost        *)
(* connections, implement the atomic ledger: the services may be reasoned   *)
(* about as ReservationLifecycle does, one call at a time.                  *)
THEOREM TransactionsImplementLedger == Spec => LedgerSpec
<1>1. Init => Ledger!Init
  <2> SUFFICES ASSUME Init PROVE Ledger!Init
    OBVIOUS
  <2>1. \A k \in Key : ~Recorded(k)
    BY LocksAssumption DEF Init, Recorded
  <2>2. \A k \in Key : ClaimOf(k) = "none"
    BY <2>1, Unclaimed
  <2>3. QED
    BY <2>2, LocksAssumption DEF Ledger!Init
<1>2. IInv /\ IInv' /\ [Next]_vars => [Ledger!Next]_(Ledger!ledgerVars)
  BY StepRefines
<1>3. QED
  BY <1>1, <1>2, LockedLedgerSound, PTL DEF Spec, Ledger!Spec, LedgerSpec

(* The least of a set of numbers. *)
LEMMA LeastExists ==
  ASSUME NEW S \in SUBSET Nat, S # {}
  PROVE  \E x \in S : \A y \in S : x <= y
<1> DEFINE R == OpToRel(<, Nat)
<1>1. IsWellFoundedOn(R, Nat)
  BY NatLessThanWellFounded
<1>2. \A x, y \in Nat : <<x, y>> \in R <=> x < y
  BY DEF OpToRel
<1> HIDE DEF R
<1>3. PICK x \in S : \A y \in S : ~ (<<y, x>> \in R)
  BY <1>1, WFMin
<1>4. ASSUME NEW y \in S
      PROVE  x <= y
  <2>1. x \in Nat /\ y \in Nat /\ ~ (y < x)
    BY <1>2, <1>3
  <2>2. QED
    BY <2>1
<1>5. QED
  BY <1>4

-----------------------------------------------------------------------------
(* Windows of one line.  The nights of the line of a transaction.           *)
WindowAt(t) == WindowLines[t.key][1].slots

(* A connection that waits for its first row has none; one that waits for a *)
(* night has, of the nights, earlier ones of its own line only.             *)
HoldsNothing(c) == \A row \in OneWindow!Row : one_held_by[row] # c

HoldsEarlier(c, t) ==
  /\ t.line = 1 /\ t.night \in DOMAIN WindowAt(t)
  /\ \A s \in WindowSlot :
       one_held_by[<<"slot", s>>] = c => \E i \in DOMAIN WindowAt(t) : i < t.night /\ s = WindowAt(t)[i]

InOrder(c) ==
  LET t == one_txn[c]
  IN  /\ t = OneWindow!Idle => HoldsNothing(c)
      /\ t # OneWindow!Idle =>
           /\ t \in OneWindow!Txn
           /\ t.at \in {"key", "reservation"} => HoldsNothing(c) /\ t.line = 1 /\ t.night = 1
           /\ t.at = "reservation" => t.res \in Res
           /\ t.at = "window" => HoldsEarlier(c, t)

WindowSound ==
  /\ one_now \in Nat
  /\ one_status \in [Res -> OneWindow!Status]
  /\ one_request \in [Res -> Key \cup {"none"}]
  /\ \A r \in Res : one_status[r] # "none" => one_request[r] \in Key
  /\ one_held_by \in [OneWindow!Row -> Conn \cup {Nobody}]
  /\ one_txn = [c \in Conn |-> one_txn[c]]
  /\ one_overdue_ids \in [Sweeper -> SUBSET Res]
  /\ \A w \in Sweeper : \A r \in one_overdue_ids[w] : one_status[r] # "none"
  /\ \A c \in Conn : InOrder(c)

(* Who is connected, and what the nights of a line are.                     *)
LEMMA SameConn == OneWindow!Conn = Conn
BY DEF OneWindow!Conn, Conn

LEMMA WindowNights ==
  ASSUME NEW k \in Key
  PROVE  /\ WindowLines[k][1].slots \in Seq(WindowSlot)
         /\ WindowLines[k][1].slots # <<>>
         /\ Len(WindowLines[k][1].slots) \in Nat \ {0}
         /\ DOMAIN WindowLines[k][1].slots = 1..Len(WindowLines[k][1].slots)
         /\ \A i \in DOMAIN WindowLines[k][1].slots : WindowLines[k][1].slots[i] \in WindowSlot
BY WindowAssumption

(* The invariant holds at first, and every kind of step keeps it.           *)
LEMMA WindowInit == OneWindow!Init => WindowSound
BY LocksAssumption, SameConn DEF OneWindow!Init, WindowSound, InOrder, HoldsNothing,
   OneWindow!Status, OneWindow!Unsettled, OneWindow!Settled

(* What a step of one connection leaves to the others: it takes a free row, *)
(* or gives up rows of its own.                                             *)
Leaves(c) ==
  /\ one_txn' = [d \in Conn |-> one_txn'[d]]
  /\ \A d \in Conn \ {c} : one_txn'[d] = one_txn[d]
  /\ one_held_by' \in [OneWindow!Row -> Conn \cup {Nobody}]
  /\ \A row \in OneWindow!Row : one_held_by'[row] \in {one_held_by[row], c, Nobody}

LEMMA OthersInOrder ==
  ASSUME WindowSound, NEW c \in Conn, Leaves(c), NEW d \in Conn, d # c
  PROVE  InOrder(d)'
<1>1. one_txn'[d] = one_txn[d]
  BY DEF Leaves
<1>2. d # Nobody
  BY LocksAssumption
<1>3. \A row \in OneWindow!Row : one_held_by'[row] = d => one_held_by[row] = d
  BY <1>2 DEF Leaves
<1>4. \A s \in WindowSlot : <<"slot", s>> \in OneWindow!Row
  BY DEF OneWindow!Row
<1>5. HoldsNothing(d) => HoldsNothing(d)'
  BY <1>3 DEF HoldsNothing
<1>6. \A t : HoldsEarlier(d, t) => HoldsEarlier(d, t)'
  BY <1>3, <1>4 DEF HoldsEarlier, WindowAt
<1>7. InOrder(d)
  BY DEF WindowSound
<1>8. QED
  BY <1>1, <1>5, <1>6, <1>7 DEF InOrder

LEMMA RollbackInOrder ==
  ASSUME WindowSound, NEW c \in Conn, OneWindow!Rollback(c)
  PROVE  WindowSound'
<1>1. /\ UNCHANGED <<one_now, one_status, one_request>>
      /\ one_held_by' = [row \in OneWindow!Row |-> IF one_held_by[row] = c THEN Nobody ELSE one_held_by[row]]
      /\ one_txn' = [one_txn EXCEPT ![c] = OneWindow!Idle]
      /\ one_overdue_ids' = [w \in Sweeper |-> IF w = c THEN {} ELSE one_overdue_ids[w]]
  BY DEF OneWindow!Rollback, OneWindow!Unlock, OneWindow!committedVars
<1>2. Leaves(c)
  BY <1>1 DEF Leaves, WindowSound
<1>3. InOrder(c)'
  <2>1. one_txn'[c] = OneWindow!Idle
    BY <1>1 DEF WindowSound
  <2>2. HoldsNothing(c)'
    BY <1>1, LocksAssumption DEF HoldsNothing
  <2>3. QED
    BY <2>1, <2>2 DEF InOrder
<1>4. \A d \in Conn : InOrder(d)'
  BY <1>2, <1>3, OthersInOrder
<1>5. QED
  BY <1>1, <1>2, <1>4 DEF WindowSound, Leaves

(* One connection has moved on, and no committed row has changed.           *)
LEMMA MoveInOrder ==
  ASSUME WindowSound, NEW c \in Conn, Leaves(c), InOrder(c)',
         UNCHANGED <<one_now, one_status, one_request>>,
         /\ one_overdue_ids' \in [Sweeper -> SUBSET Res]
         /\ \A w \in Sweeper : one_overdue_ids'[w] \subseteq one_overdue_ids[w]
  PROVE  WindowSound'
<1>1. \A d \in Conn : InOrder(d)'
  BY OthersInOrder
<1>2. QED
  BY <1>1 DEF WindowSound, Leaves

LEMMA BeginInOrder ==
  ASSUME WindowSound, NEW c \in Conn, NEW t \in OneWindow!Txn, t.at \in {"key", "reservation"},
         t.at = "reservation" => t.res \in Res, t.line = 1, t.night = 1, t # OneWindow!Idle,
         one_txn[c] = OneWindow!Idle, one_txn' = [one_txn EXCEPT ![c] = t],
         UNCHANGED one_held_by
  PROVE  Leaves(c) /\ InOrder(c)'
<1>1. one_txn'[c] = t /\ Leaves(c)
  BY DEF Leaves, WindowSound
<1>2. HoldsNothing(c)'
  BY DEF WindowSound, InOrder, HoldsNothing
<1>3. QED
  BY <1>1, <1>2 DEF InOrder

LEMMA BeginsInOrder ==
  ASSUME WindowSound, NEW c \in Worker,
         \/ \E k \in Key : OneWindow!BeginReserve(c, k)
         \/ \E r \in Res, op \in {"request_payment", "confirm", "cancel"} : OneWindow!BeginCall(c, op, r)
  PROVE  WindowSound'
<1>1. c \in Conn
  BY DEF Conn
<1>2. PICK t \in OneWindow!Txn : OneWindow!Begin(c, t) /\ t.at \in {"key", "reservation"}
        /\ t.line = 1 /\ t.night = 1
                 /\ t # OneWindow!Idle /\ (t.at = "reservation" => t.res \in Res)
  <2>1. CASE \E k \in Key : OneWindow!BeginReserve(c, k)
    BY <2>1 DEF OneWindow!BeginReserve, OneWindow!Txn, OneWindow!Idle
  <2>2. CASE \E r \in Res, op \in {"request_payment", "confirm", "cancel"} : OneWindow!BeginCall(c, op, r)
    <3>1. PICK r \in Res, op \in {"request_payment", "confirm", "cancel"} : OneWindow!BeginCall(c, op, r)
      BY <2>2
    <3>2. one_request[r] \in Key
      BY <3>1 DEF OneWindow!BeginCall, WindowSound
    <3>3. QED
      BY <3>1, <3>2 DEF OneWindow!BeginCall, OneWindow!Txn, OneWindow!Idle
  <2>3. QED
    BY <2>1, <2>2
<1>3. Leaves(c) /\ InOrder(c)'
  BY <1>1, <1>2, BeginInOrder DEF OneWindow!Begin
<1>4. QED
  BY <1>1, <1>2, <1>3, MoveInOrder DEF OneWindow!Begin, OneWindow!committedVars, WindowSound

LEMMA SweepReadInOrder ==
  ASSUME WindowSound, NEW w \in Sweeper, OneWindow!SweepRead(w)
  PROVE  WindowSound'
<1>1. /\ UNCHANGED <<one_now, one_status, one_request, one_held_by, one_txn>>
      /\ one_overdue_ids' = [one_overdue_ids EXCEPT ![w] = {r \in Res : OneWindow!HoldExpired(r)}]
  BY DEF OneWindow!SweepRead, OneWindow!committedVars
<1>2. \A r \in Res : OneWindow!HoldExpired(r) => one_status[r] # "none"
  BY DEF OneWindow!HoldExpired, OneWindow!Unsettled
<1>3. \A c \in Conn : InOrder(c)'
  BY <1>1 DEF WindowSound, InOrder, HoldsNothing, HoldsEarlier, WindowAt
<1>4. QED
  BY <1>1, <1>2, <1>3 DEF WindowSound

LEMMA BeginExpireInOrder ==
  ASSUME WindowSound, NEW w \in Sweeper, OneWindow!BeginExpire(w)
  PROVE  WindowSound'
<1>1. w \in Conn
  BY DEF Conn
<1>2. PICK r \in one_overdue_ids[w] :
        /\ one_txn[w] = OneWindow!Idle
        /\ one_txn' = [one_txn EXCEPT ![w] = [op |-> "expire", at |-> "reservation", key |-> one_request[r],
                                  res |-> r, deadline |-> 0, line |-> 1, night |-> 1]]
        /\ one_overdue_ids' = [one_overdue_ids EXCEPT ![w] = @ \ {r}]
        /\ UNCHANGED <<one_now, one_status, one_request, one_held_by>>
  BY DEF OneWindow!BeginExpire, OneWindow!committedVars
<1>3. r \in Res /\ one_request[r] \in Key
  BY <1>2 DEF WindowSound
<1>4. Leaves(w) /\ InOrder(w)'
  BY <1>1, <1>2, <1>3, BeginInOrder DEF OneWindow!Txn, OneWindow!Idle
<1>5. QED
  BY <1>1, <1>2, <1>4, MoveInOrder DEF WindowSound

LEMMA LockLeaves ==
  ASSUME WindowSound, NEW c \in Conn, NEW row \in OneWindow!Row, OneWindow!Lock(c, row),
         one_txn' = [d \in Conn |-> one_txn'[d]],
         \A d \in Conn \ {c} : one_txn'[d] = one_txn[d]
  PROVE  Leaves(c)
           /\ \A other \in OneWindow!Row : one_held_by'[other] = IF other = row THEN c ELSE one_held_by[other]
BY DEF OneWindow!Lock, Leaves, WindowSound

LEMMA InsertKeyInOrder ==
  ASSUME WindowSound, NEW c \in Conn, OneWindow!InsertKey(c)
  PROVE  WindowSound'
<1>1. CASE OneWindow!Rollback(c)
  BY <1>1, RollbackInOrder
<1>2. CASE ~OneWindow!Rollback(c)
  <2>1. PICK t : t = one_txn[c]
    OBVIOUS
  <2>2. PICK r \in Res :
          /\ t.at = "key"
          /\ OneWindow!Lock(c, <<"key", t.key>>)
          /\ one_txn' = [one_txn EXCEPT ![c] = [t EXCEPT !.at = "window", !.res = r,
                                                !.deadline = one_now + HoldMinutes]]
          /\ UNCHANGED <<one_now, one_status, one_request, one_overdue_ids>>
    BY <1>2, <2>1 DEF OneWindow!InsertKey, OneWindow!committedVars
  <2>3. /\ t \in OneWindow!Txn /\ t.line = 1 /\ t.night = 1 /\ HoldsNothing(c)
    BY <2>1, <2>2 DEF WindowSound, InOrder, OneWindow!Idle
  <2>4. PICK u \in OneWindow!Txn : u = [t EXCEPT !.at = "window", !.res = r, !.deadline = one_now + HoldMinutes]
    <3>1. one_now + HoldMinutes \in Nat
      BY LocksAssumption DEF WindowSound
    <3>2. PICK u : u = [t EXCEPT !.at = "window", !.res = r, !.deadline = one_now + HoldMinutes]
      OBVIOUS
    <3>3. u \in OneWindow!Txn
      BY <2>3, <3>1, <3>2 DEF OneWindow!Txn
    <3>4. QED
      BY <3>2, <3>3
  <2>5. u.key = t.key /\ u.at = "window" /\ u.line = 1 /\ u.night = 1 /\ t.key \in Key
    BY <2>3, <2>4 DEF OneWindow!Txn
  <2>6. one_txn'[c] = u /\ one_txn' = [d \in Conn |-> one_txn'[d]]
          /\ \A d \in Conn \ {c} : one_txn'[d] = one_txn[d]
    BY <2>2, <2>4 DEF WindowSound
  <2>7. <<"key", t.key>> \in OneWindow!Row
    BY <2>5 DEF OneWindow!Row
  <2>8. Leaves(c)
          /\ \A other \in OneWindow!Row : one_held_by'[other] = IF other = <<"key", t.key>> THEN c ELSE one_held_by[other]
    BY <2>2, <2>6, <2>7, LockLeaves
  <2>9. HoldsEarlier(c, u)'
    <3>1. 1 \in DOMAIN WindowAt(u)
      BY <2>5, WindowNights DEF WindowAt
    <3>2. \A s \in WindowSlot : <<"slot", s>> \in OneWindow!Row /\ <<"slot", s>> # <<"key", t.key>>
      BY DEF OneWindow!Row
    <3>3. \A s \in WindowSlot : one_held_by'[<<"slot", s>>] # c
      BY <2>3, <2>8, <3>2 DEF HoldsNothing
    <3>4. QED
      BY <2>5, <3>1, <3>3 DEF HoldsEarlier, WindowAt
  <2>10. InOrder(c)'
    BY <2>5, <2>6, <2>9 DEF InOrder, OneWindow!Idle
  <2>11. QED
    BY <2>2, <2>8, <2>10, MoveInOrder DEF WindowSound
<1>3. QED
  BY <1>1, <1>2

LEMMA LockReservationInOrder ==
  ASSUME WindowSound, NEW c \in Conn, OneWindow!LockReservation(c)
  PROVE  WindowSound'
<1>1. CASE OneWindow!Rollback(c)
  BY <1>1, RollbackInOrder
<1>2. CASE ~OneWindow!Rollback(c)
  <2>1. PICK t : t = one_txn[c]
    OBVIOUS
  <2>2. PICK at \in {"window", "commit"} :
          /\ t.at = "reservation"
          /\ OneWindow!Lock(c, <<"reservation", t.res>>)
          /\ one_txn' = [one_txn EXCEPT ![c].at = at]
          /\ UNCHANGED <<one_now, one_status, one_request, one_overdue_ids>>
    <3>1. PICK at : at = IF OneWindow!Accepts(t) /\ t.op # "request_payment" THEN "window" ELSE "commit"
      OBVIOUS
    <3>2. at \in {"window", "commit"}
      BY <3>1
    <3>3. /\ t.at = "reservation"
          /\ OneWindow!Lock(c, <<"reservation", t.res>>)
          /\ one_txn' = [one_txn EXCEPT ![c].at = at]
          /\ UNCHANGED <<one_now, one_status, one_request, one_overdue_ids>>
      BY <1>2, <2>1, <3>1 DEF OneWindow!LockReservation, OneWindow!committedVars
    <3>4. QED
      BY <3>2, <3>3
  <2>3. /\ t \in OneWindow!Txn /\ t.line = 1 /\ t.night = 1 /\ HoldsNothing(c) /\ t.res \in Res
    BY <2>1, <2>2 DEF WindowSound, InOrder, OneWindow!Idle
  <2>4. PICK u \in OneWindow!Txn : u = [t EXCEPT !.at = at]
    BY <2>3 DEF OneWindow!Txn
  <2>5. u.key = t.key /\ u.at = at /\ u.line = 1 /\ u.night = 1 /\ t.key \in Key
    BY <2>3, <2>4 DEF OneWindow!Txn
  <2>6. one_txn'[c] = u /\ one_txn' = [d \in Conn |-> one_txn'[d]]
          /\ \A d \in Conn \ {c} : one_txn'[d] = one_txn[d]
    BY <2>1, <2>2, <2>4 DEF WindowSound
  <2>7. <<"reservation", t.res>> \in OneWindow!Row
    BY <2>3 DEF OneWindow!Row
  <2>8. Leaves(c)
          /\ \A other \in OneWindow!Row : one_held_by'[other] = IF other = <<"reservation", t.res>> THEN c ELSE one_held_by[other]
    BY <2>2, <2>6, <2>7, LockLeaves
  <2>9. HoldsEarlier(c, u)'
    <3>1. 1 \in DOMAIN WindowAt(u)
      BY <2>5, WindowNights DEF WindowAt
    <3>2. \A s \in WindowSlot : <<"slot", s>> \in OneWindow!Row
            /\ <<"slot", s>> # <<"reservation", t.res>>
      BY DEF OneWindow!Row
    <3>3. \A s \in WindowSlot : one_held_by'[<<"slot", s>>] # c
      BY <2>3, <2>8, <3>2 DEF HoldsNothing
    <3>4. QED
      BY <2>5, <3>1, <3>3 DEF HoldsEarlier, WindowAt
  <2>10. InOrder(c)'
    BY <2>5, <2>6, <2>9 DEF InOrder, OneWindow!Idle
  <2>11. QED
    BY <2>2, <2>8, <2>10, MoveInOrder DEF WindowSound
<1>3. QED
  BY <1>1, <1>2

LEMMA LockSlotInOrder ==
  ASSUME WindowSound, NEW c \in Conn, OneWindow!LockSlot(c)
  PROVE  WindowSound'
<1>1. CASE OneWindow!Rollback(c)
  BY <1>1, RollbackInOrder
<1>2. CASE ~OneWindow!Rollback(c)
  <2>1. PICK t : t = one_txn[c]
    OBVIOUS
  <2>2. t.at = "window"
    BY <2>1 DEF OneWindow!LockSlot
  <2>3. /\ t \in OneWindow!Txn /\ HoldsEarlier(c, t)
    BY <2>1, <2>2 DEF WindowSound, InOrder, OneWindow!Idle
  <2>4. t.key \in Key /\ t.line = 1 /\ t.night \in DOMAIN WindowAt(t) /\ t.night \in Nat
        /\ Len(WindowLines[t.key]) = 1
    BY <2>3, WindowAssumption DEF HoldsEarlier, OneWindow!Txn
  <2>5. OneWindow!CurrentLine(t).slots = WindowAt(t) /\ OneWindow!LastLine(t) = 1
    BY <2>4 DEF OneWindow!CurrentLine, WindowAt, OneWindow!LastLine
  <2>6. PICK n : n = WindowAt(t)[t.night]
    OBVIOUS
  <2>7. n \in WindowSlot /\ <<"slot", n>> \in OneWindow!Row
          /\ DOMAIN WindowAt(t) = 1..Len(WindowAt(t)) /\ Len(WindowAt(t)) \in Nat
    BY <2>4, <2>6, WindowNights DEF WindowAt, OneWindow!Row
  <2>8. PICK u : /\ u = IF t.night < Len(WindowAt(t)) THEN [t EXCEPT !.night = @ + 1]
                    ELSE [t EXCEPT !.night = 1, !.line = @ + 1, !.at = "commit"]
                 /\ one_txn' = [one_txn EXCEPT ![c] = u]
    BY <1>2, <2>1, <2>4, <2>5 DEF OneWindow!LockSlot
  <2>9. OneWindow!Lock(c, <<"slot", n>>)
          /\ UNCHANGED <<one_now, one_status, one_request, one_overdue_ids>>
    BY <1>2, <2>1, <2>5, <2>6 DEF OneWindow!LockSlot, OneWindow!committedVars
  <2>10. u \in OneWindow!Txn /\ u.key = t.key /\ u.line \in Nat
    <3>1. CASE t.night < Len(WindowAt(t))
      <4>1. u = [t EXCEPT !.night = @ + 1] /\ t.night + 1 \in Nat
        BY <2>4, <2>8, <3>1
      <4>2. QED
        BY <2>3, <2>4, <4>1 DEF OneWindow!Txn
    <3>2. CASE ~ (t.night < Len(WindowAt(t)))
      <4>1. u = [t EXCEPT !.night = 1, !.line = @ + 1, !.at = "commit"] /\ t.line + 1 \in Nat
        BY <2>4, <2>8, <3>2
      <4>2. QED
        BY <2>3, <2>4, <4>1 DEF OneWindow!Txn
    <3>3. QED
      BY <3>1, <3>2
  <2>11. \/ u.at = "commit"
         \/ u.at = "window" /\ u.line = 1 /\ u.night = t.night + 1 /\ u.night \in DOMAIN WindowAt(t)
    BY <2>2, <2>3, <2>4, <2>7, <2>8 DEF OneWindow!Txn
  <2>12. one_txn'[c] = u /\ one_txn' = [d \in Conn |-> one_txn'[d]]
           /\ \A d \in Conn \ {c} : one_txn'[d] = one_txn[d]
    BY <2>8 DEF WindowSound
  <2>13. Leaves(c)
           /\ \A other \in OneWindow!Row : one_held_by'[other] = IF other = <<"slot", n>> THEN c ELSE one_held_by[other]
    BY <2>7, <2>9, <2>12, LockLeaves
  <2>14. ASSUME u.at = "window"
         PROVE  HoldsEarlier(c, u)'
    <3>1. WindowAt(u) = WindowAt(t)
      BY <2>10 DEF WindowAt
    <3>2. ASSUME NEW s \in WindowSlot, one_held_by'[<<"slot", s>>] = c
          PROVE  \E i \in DOMAIN WindowAt(t) : i < u.night /\ s = WindowAt(t)[i]
      <4>1. CASE s = n
        BY <2>4, <2>6, <2>11, <2>14, <4>1
      <4>2. CASE s # n
        <5>1. <<"slot", s>> \in OneWindow!Row /\ <<"slot", s>> # <<"slot", n>>
          BY <4>2 DEF OneWindow!Row
        <5>2. one_held_by[<<"slot", s>>] = c
          BY <2>13, <3>2, <5>1
        <5>3. PICK i \in DOMAIN WindowAt(t) : i < t.night /\ s = WindowAt(t)[i]
          BY <2>3, <5>2 DEF HoldsEarlier
        <5>4. i < u.night
          BY <2>4, <2>7, <2>11, <2>14, <5>3
        <5>5. QED
          BY <5>3, <5>4
      <4>3. QED
        BY <4>1, <4>2
    <3>3. QED
      BY <2>11, <2>14, <3>1, <3>2 DEF HoldsEarlier, WindowAt
  <2>15. InOrder(c)'
    BY <2>10, <2>11, <2>12, <2>14 DEF InOrder, OneWindow!Idle
  <2>16. QED
    BY <2>9, <2>13, <2>15, MoveInOrder DEF WindowSound
<1>3. QED
  BY <1>1, <1>2

LEMMA CommitInOrder ==
  ASSUME WindowSound, NEW c \in Conn, OneWindow!Commit(c)
  PROVE  WindowSound'
<1>1. PICK t : t = one_txn[c]
  OBVIOUS
<1>2. /\ t.at = "commit"
      /\ \/ one_status' = one_status
         \/ one_status' = [one_status EXCEPT ![t.res] = OneWindow!StatusAfter(t)]
      /\ one_request' = [one_request EXCEPT ![t.res] = t.key]
      /\ one_held_by' = [row \in OneWindow!Row |-> IF one_held_by[row] = c THEN Nobody ELSE one_held_by[row]]
      /\ one_txn' = [one_txn EXCEPT ![c] = OneWindow!Idle]
      /\ UNCHANGED <<one_now, one_overdue_ids>>
  BY <1>1 DEF OneWindow!Commit, OneWindow!Unlock
<1>3. t \in OneWindow!Txn /\ t.key \in Key
  BY <1>1, <1>2 DEF WindowSound, InOrder, OneWindow!Idle, OneWindow!Txn
<1>4. OneWindow!StatusAfter(t) \in OneWindow!Status \ {"none"}
  BY <1>3 DEF OneWindow!StatusAfter, OneWindow!Txn, OneWindow!Status, OneWindow!Unsettled,
     OneWindow!Settled
<1>5. Leaves(c)
  BY <1>2 DEF Leaves, WindowSound
<1>6. InOrder(c)'
  <2>1. one_txn'[c] = OneWindow!Idle
    BY <1>2 DEF WindowSound
  <2>2. HoldsNothing(c)'
    BY <1>2, LocksAssumption DEF HoldsNothing
  <2>3. QED
    BY <2>1, <2>2 DEF InOrder
<1>7. \A d \in Conn : InOrder(d)'
  BY <1>5, <1>6, OthersInOrder
<1>8. /\ one_status' \in [Res -> OneWindow!Status]
      /\ one_request' \in [Res -> Key \cup {"none"}]
      /\ \A r \in Res : one_request'[r] = IF r = t.res THEN t.key ELSE one_request[r]
      /\ \A r \in Res : one_status[r] # "none" => one_status'[r] # "none"
      /\ \A r \in Res : one_status'[r] # "none" => r = t.res \/ one_status[r] # "none"
  BY <1>2, <1>3, <1>4 DEF WindowSound
<1>9. QED
  BY <1>2, <1>3, <1>5, <1>7, <1>8 DEF WindowSound, Leaves

LEMMA WindowStep ==
  ASSUME WindowSound, OneWindow!Next
  PROVE  WindowSound'
<1>1. CASE OneWindow!Tick
  <2>1. /\ one_now' = one_now + 1
        /\ UNCHANGED <<one_status, one_request, one_held_by, one_txn, one_overdue_ids>>
    BY <1>1 DEF OneWindow!Tick, OneWindow!committedVars
  <2>2. \A c \in Conn : InOrder(c)'
    BY <2>1 DEF WindowSound, InOrder, HoldsNothing, HoldsEarlier, WindowAt
  <2>3. QED
    BY <2>1, <2>2 DEF WindowSound
<1>2. CASE \E c \in Worker : \/ \E k \in Key : OneWindow!BeginReserve(c, k)
                             \/ \E r \in Res, op \in {"request_payment", "confirm", "cancel"} :
                                  OneWindow!BeginCall(c, op, r)
  BY <1>2, BeginsInOrder
<1>3. CASE \E w \in Sweeper : OneWindow!SweepRead(w) \/ OneWindow!BeginExpire(w)
  BY <1>3, SweepReadInOrder, BeginExpireInOrder
<1>4. CASE \E c \in Conn : OneWindow!Step(c) \/ OneWindow!ConnectionLost(c)
  BY <1>4, InsertKeyInOrder, LockReservationInOrder, LockSlotInOrder, CommitInOrder, RollbackInOrder
     DEF OneWindow!Step, OneWindow!BreakDeadlock, OneWindow!ConnectionLost
<1>5. QED
  BY <1>1, <1>2, <1>3, <1>4, SameConn DEF OneWindow!Next

(* Of those who wait in a circle, take the one that wants the earliest      *)
(* night: whoever waits for it wants a night it holds, an earlier one yet.  *)
LEMMA NoCycle == WindowSound => OneWindow!NoDeadlock
<1> SUFFICES ASSUME WindowSound, NEW c \in Conn, OneWindow!InDeadlock(c)
             PROVE  FALSE
  BY SameConn DEF OneWindow!NoDeadlock
<1>1. PICK S \in SUBSET Conn : /\ c \in S
                               /\ \A d \in S : OneWindow!Blocked(d) /\ OneWindow!WaitsFor(d) \in S
                               /\ \A d \in S : \E e \in S : OneWindow!WaitsFor(e) = d
  BY SameConn DEF OneWindow!InDeadlock
<1>2. ASSUME NEW d \in S
      PROVE  /\ one_txn[d] \in OneWindow!Txn
             /\ one_txn[d].at \in {"key", "reservation", "window"}
             /\ OneWindow!NextRow(d) \in OneWindow!Row
  <2>1. one_txn[d].at \in {"key", "reservation", "window"}
    BY <1>1, <1>2 DEF OneWindow!Blocked, OneWindow!Locking
  <2>2. one_txn[d] \in OneWindow!Txn /\ (one_txn[d].at = "window" => HoldsEarlier(d, one_txn[d]))
    BY <1>1, <1>2, <2>1 DEF WindowSound, InOrder, OneWindow!Idle
  <2>3. CASE one_txn[d].at = "key"
    <3>1. OneWindow!NextRow(d) = <<"key", one_txn[d].key>>
      BY <2>3 DEF OneWindow!NextRow
    <3>2. QED
      BY <2>1, <2>2, <3>1 DEF OneWindow!Row, OneWindow!Txn
  <2>4. CASE one_txn[d].at = "reservation"
    <3>1. OneWindow!NextRow(d) = <<"reservation", one_txn[d].res>>
      BY <2>4 DEF OneWindow!NextRow
    <3>2. one_txn[d].res \in Res
      BY <1>1, <1>2, <2>4 DEF WindowSound, InOrder, OneWindow!Idle
    <3>3. QED
      BY <2>1, <2>2, <3>1, <3>2 DEF OneWindow!Row
  <2>5. CASE one_txn[d].at = "window"
    <3>1. OneWindow!NextRow(d) = <<"slot", OneWindow!CurrentLine(one_txn[d]).slots[one_txn[d].night]>>
      BY <2>5 DEF OneWindow!NextRow
    <3>2. OneWindow!NextRow(d) = <<"slot", WindowAt(one_txn[d])[one_txn[d].night]>>
      BY <2>2, <2>5, <3>1 DEF HoldsEarlier, OneWindow!CurrentLine, WindowAt
    <3>3. one_txn[d].key \in Key
      BY <2>2 DEF OneWindow!Txn
    <3>4. QED
      BY <2>1, <2>2, <2>5, <3>2, <3>3, WindowNights DEF OneWindow!Row, HoldsEarlier, WindowAt
  <2>6. QED
    BY <2>1, <2>3, <2>4, <2>5
<1>3. ASSUME NEW d \in S
      PROVE  \E e \in S : one_held_by[OneWindow!NextRow(e)] = d
  BY <1>1, <1>3 DEF OneWindow!WaitsFor
<1>4. ASSUME NEW d \in S
      PROVE  one_txn[d].at = "window"
  <2>1. PICK e \in S : one_held_by[OneWindow!NextRow(e)] = d
    BY <1>3
  <2>2. ~HoldsNothing(d)
    BY <1>2, <2>1 DEF HoldsNothing
  <2>3. QED
    BY <1>1, <1>2, <2>2 DEF WindowSound, InOrder, OneWindow!Idle
<1> DEFINE wanted(d) == WindowAt(one_txn[d])[one_txn[d].night]
<1>5. ASSUME NEW d \in S
      PROVE  /\ HoldsEarlier(d, one_txn[d])
             /\ one_txn[d].key \in Key
             /\ OneWindow!NextRow(d) = <<"slot", wanted(d)>>
             /\ wanted(d) \in WindowSlot /\ wanted(d)[2] \in Nat
  <2>1. HoldsEarlier(d, one_txn[d]) /\ one_txn[d].key \in Key
    <3>1. InOrder(d) /\ one_txn[d] # OneWindow!Idle /\ one_txn[d].at = "window"
      <4>1. InOrder(d) /\ one_txn[d].at = "window"
        BY <1>1, <1>4 DEF WindowSound
      <4>2. OneWindow!Idle.at = "idle"
        BY DEF OneWindow!Idle
      <4>3. QED
        BY <4>1, <4>2
    <3>2. QED
      <4>1. HoldsEarlier(d, one_txn[d])
        BY <3>1 DEF InOrder
      <4>2. one_txn[d] \in OneWindow!Txn
        BY <1>2
      <4>3. one_txn[d].key \in Key
        BY <4>2 DEF OneWindow!Txn
      <4>4. QED
        BY <4>1, <4>3
  <2>2. OneWindow!NextRow(d) = <<"slot", OneWindow!CurrentLine(one_txn[d]).slots[one_txn[d].night]>>
    BY <1>4 DEF OneWindow!NextRow
  <2>3. OneWindow!NextRow(d) = <<"slot", wanted(d)>>
    BY <2>1, <2>2 DEF HoldsEarlier, OneWindow!CurrentLine, WindowAt
  <2>4. wanted(d) \in WindowSlot
    BY <2>1, WindowNights DEF HoldsEarlier, WindowAt
  <2>5. QED
    BY <2>1, <2>3, <2>4, WindowAssumption
<1> DEFINE Wanted == {wanted(d)[2] : d \in S}
<1>6. Wanted \in SUBSET Nat /\ Wanted # {}
  BY <1>1, <1>5
<1>7. PICK d \in S : \A e \in S : wanted(d)[2] <= wanted(e)[2]
  <2>1. PICK least \in Wanted : \A n \in Wanted : least <= n
    <3> HIDE DEF Wanted
    <3>1. QED
      BY <1>6, LeastExists
  <2>2. QED
    BY <2>1
<1>8. PICK e \in S : one_held_by[<<"slot", wanted(e)>>] = d
  BY <1>3, <1>5
<1>9. PICK i \in DOMAIN WindowAt(one_txn[d]) : i < one_txn[d].night
        /\ wanted(e) = WindowAt(one_txn[d])[i]
  BY <1>5, <1>8 DEF HoldsEarlier
<1>10. wanted(e)[2] < wanted(d)[2]
  <2>1. one_txn[d].night \in DOMAIN WindowAt(one_txn[d]) /\ one_txn[d].key \in Key
    BY <1>5 DEF HoldsEarlier
  <2>2. WindowAt(one_txn[d])[i][2] < WindowAt(one_txn[d])[one_txn[d].night][2]
    BY <1>9, <2>1, WindowAssumption DEF WindowAt
  <2>3. QED
    BY <1>9, <2>2
<1>11. QED
  BY <1>5, <1>7, <1>10

(* Reservations of one line each, that lock their nights in the order of    *)
(* the dates, never wait for each other in a circle.                        *)
THEOREM WindowsNeverDeadlock == BothSpec => []OneWindowNoDeadlock
<1>1. BothInit => WindowSound
  BY WindowInit DEF BothInit
<1>2. WindowSound /\ [BothNext]_<<part, vars, oneVars>> => WindowSound'
  <2> SUFFICES ASSUME WindowSound, [BothNext]_<<part, vars, oneVars>>
               PROVE  WindowSound'
    OBVIOUS
  <2>1. CASE OneWindow!Next
    BY <2>1, WindowStep
  <2>2. CASE UNCHANGED oneVars
    <3>1. UNCHANGED <<one_now, one_status, one_request, one_held_by, one_txn, one_overdue_ids>>
      BY <2>2 DEF oneVars
    <3>2. \A c \in Conn : InOrder(c)'
      BY <3>1 DEF WindowSound, InOrder, HoldsNothing, HoldsEarlier, WindowAt
    <3>3. QED
      BY <3>1, <3>2 DEF WindowSound
  <2>3. QED
    BY <2>1, <2>2 DEF BothNext, oneVars
<1>3. WindowSound => OneWindowNoDeadlock
  BY NoCycle DEF OneWindowNoDeadlock
<1>4. QED
  BY <1>1, <1>2, <1>3, PTL DEF BothSpec
=============================================================================
