----------------------- MODULE ReservationLocks_proofs -----------------------
(* Whatever transactions overlap, roll back or are retried, a key has one   *)
(* reservation, and a hold that has run out never becomes a booking, for    *)
(* every number of connections, reservations, keys and rows.  The argument: *)
(* what a transaction has read under a lock stands until it lets go of it.  *)
EXTENDS ReservationLocks, TLAPS

-----------------------------------------------------------------------------
(* The invariant.                                                           *)

RowsSound ==
  /\ now \in Nat
  /\ status \in [Res -> Status] /\ request \in [Res -> Key \cup {"none"}]
  /\ hold_expiry_at \in [Res -> Nat]
  /\ held_by \in [Row -> Conn \cup {Nobody}]
  /\ overdue_ids \in [Sweeper -> SUBSET Res]
  /\ \A r \in Res : request[r] = "none" <=> status[r] = "none"
  /\ \A w \in Sweeper : \A r \in overdue_ids[w] : status[r] # "none"

(* The first lock of a call is behind it. *)
Inside(t) == t.at \in {"window", "commit"}

(* Holding a key, reserve() has a row nobody else has seen. *)
ReserveKnows(c, t) ==
  /\ t.at # "reservation"
  /\ t.at = "key" => t.res = NoRes
  /\ Inside(t) =>
       /\ t.res \in Res /\ status[t.res] = "none"
       /\ held_by[<<"key", t.key>>] = c
       /\ ~Recorded(t.key)
       /\ \A d \in Conn \ {c} : txn[d] # Idle => txn[d].res # t.res

CallKnows(c, t) ==
  /\ t.at # "key"
  /\ t.res \in Res /\ status[t.res] # "none" /\ t.key = request[t.res]
  /\ Inside(t) => held_by[<<"reservation", t.res>>] = c

Knows(c) ==
  LET t == txn[c]
  IN  t # Idle =>
        /\ t \in Txn
        /\ t.op = "reserve" => ReserveKnows(c, t)
        /\ t.op # "reserve" => CallKnows(c, t)

Sound == RowsSound /\ OneReservationPerKey /\ txn = [c \in Conn |-> txn[c]] /\ \A c \in Conn : Knows(c)

-----------------------------------------------------------------------------
LEMMA InitSound ==
  ASSUME Init
  PROVE  Sound
BY LocksAssumption DEF Init, Sound, RowsSound, Status, OneReservationPerKey, Knows

LEMMA TickSound ==
  ASSUME Sound, Tick
  PROVE  Sound'
BY DEF Tick, committedVars, Sound, RowsSound, OneReservationPerKey, Knows, ReserveKnows, CallKnows,
       Recorded

LEMMA RollbackSound ==
  ASSUME Sound, NEW c \in Conn, Rollback(c)
  PROVE  Sound'
<1>1. /\ UNCHANGED <<now, status, request, hold_expiry_at>>
      /\ held_by' = [row \in Row |-> IF held_by[row] = c THEN Nobody ELSE held_by[row]]
      /\ txn' = [txn EXCEPT ![c] = Idle]
      /\ overdue_ids' = [w \in Sweeper |-> IF w = c THEN {} ELSE overdue_ids[w]]
  BY DEF Rollback, Unlock, committedVars
<1>2. RowsSound' /\ OneReservationPerKey' /\ txn' = [d \in Conn |-> txn'[d]]
  BY <1>1 DEF Sound, RowsSound, OneReservationPerKey
<1>3. ASSUME NEW d \in Conn
      PROVE  Knows(d)'
  <2>1. CASE d = c
    BY <1>1, <2>1 DEF Knows, Sound
  <2>2. CASE d # c
    <3>1. txn'[d] = txn[d] /\ \A e \in Conn : txn'[e] # Idle => txn'[e] = txn[e]
      BY <1>1, <2>2 DEF Sound
    <3>2. \A row \in Row : held_by[row] = d => held_by'[row] = d
      BY <1>1, <2>2
    <3>3. \A t \in Txn : /\ <<"key", t.key>> \in Row
                         /\ t.res \in Res => <<"reservation", t.res>> \in Row
      BY DEF Txn, Row
    <3>4. QED
      BY <1>1, <2>2, <3>1, <3>2, <3>3
         DEF Sound, Knows, ReserveKnows, CallKnows, Recorded
  <2>3. QED
    BY <2>1, <2>2
<1>4. QED
  BY <1>2, <1>3 DEF Sound

(* A step that writes no committed row and takes at most a free lock.       *)
Takes(c) ==
  /\ UNCHANGED <<now, status, request, hold_expiry_at>>
  /\ txn' = [d \in Conn |-> txn'[d]]
  /\ \A d \in Conn \ {c} : txn'[d] = txn[d]
  /\ held_by' \in [Row -> Conn \cup {Nobody}]
  /\ \A row \in Row : held_by'[row] = held_by[row] \/ Free(c, row)

(* The reservation it is about is none, the same, unseen or a known one.    *)
About(c, t) ==
  \/ t.res = NoRes
  \/ txn[c] # Idle /\ t.res = txn[c].res
  \/ t.res \notin Used
  \/ t.res \in Res /\ status[t.res] # "none"

LEMMA OthersKeep ==
  ASSUME Sound, NEW c \in Conn, Takes(c), txn'[c] # Idle => About(c, txn'[c]),
         NEW d \in Conn, d # c
  PROVE  Knows(d)'
<1>1. /\ txn'[d] = txn[d]
      /\ UNCHANGED <<now, status, request, hold_expiry_at>>
  BY DEF Takes
<1>2. \A row \in Row : held_by[row] = d => held_by'[row] = d
  BY LocksAssumption DEF Free, Takes
<1>3. \A u \in Txn : /\ <<"key", u.key>> \in Row
                     /\ u.res \in Res => <<"reservation", u.res>> \in Row
  BY DEF Txn, Row
<1>4. SUFFICES ASSUME txn[d] # Idle
               PROVE  Knows(d)'
  BY <1>1 DEF Knows
<1>5. PICK u : u = txn[d]
  OBVIOUS
<1>6. u \in Txn /\ Knows(d)
  BY <1>4, <1>5 DEF Sound, Knows
<1>7. ASSUME u.op = "reserve"
      PROVE  ReserveKnows(d, u)'
  <2>1. ReserveKnows(d, u)
    BY <1>4, <1>5, <1>7, <1>6 DEF Knows
  <2>2. ASSUME Inside(u), NEW e \in Conn \ {d}, txn'[e] # Idle
        PROVE  txn'[e].res # u.res
    <3>1. /\ u.res \in Res /\ status[u.res] = "none"
          /\ \A f \in Conn \ {d} : txn[f] # Idle => txn[f].res # u.res
      BY <2>1, <2>2 DEF ReserveKnows
    <3>2. CASE e # c
      BY <2>2, <3>1, <3>2 DEF Takes
    <3>3. CASE e = c
      <4>1. u.res \in Used
        BY <1>4, <1>5 DEF Used
      <4>2. About(c, txn'[c])
        BY <2>2, <3>3
      <4>3. QED
        BY <3>1, <3>3, <4>1, <4>2, LocksAssumption DEF About
    <3>4. QED
      BY <3>2, <3>3
  <2>3. QED
    BY <1>1, <1>2, <1>3, <1>6, <2>1, <2>2 DEF ReserveKnows, Inside, Recorded
<1>8. ASSUME u.op # "reserve"
      PROVE  CallKnows(d, u)'
  <2>1. CallKnows(d, u)
    BY <1>4, <1>5, <1>8, <1>6 DEF Knows
  <2>2. QED
    BY <1>1, <1>2, <1>3, <1>6, <2>1 DEF CallKnows
<1>9. QED
  BY <1>1, <1>5, <1>6, <1>7, <1>8 DEF Knows, ReserveKnows, CallKnows, Inside, Recorded

(* With what has to be shown of c itself. *)
LEMMA TakesSound ==
  ASSUME Sound, NEW c \in Conn, Takes(c), UNCHANGED overdue_ids,
         txn'[c] # Idle => About(c, txn'[c]),
         Knows(c)'
  PROVE  Sound'
<1>1. \A d \in Conn : Knows(d)'
  BY OthersKeep
<1>2. RowsSound' /\ OneReservationPerKey' /\ txn' = [d \in Conn |-> txn'[d]]
  BY DEF Sound, RowsSound, OneReservationPerKey, Takes
<1>3. QED
  BY <1>1, <1>2 DEF Sound

LEMMA BeginSound ==
  ASSUME Sound, NEW c \in Conn, NEW t \in Txn, Begin(c, t),
         t.op = "reserve" => t.at = "key" /\ t.res = NoRes,
         t.op # "reserve" => /\ t.at = "reservation" /\ t.res \in Res
                             /\ status[t.res] # "none" /\ t.key = request[t.res]
  PROVE  Sound'
<1>1. /\ UNCHANGED <<now, status, request, hold_expiry_at, held_by, overdue_ids>>
      /\ txn' = [txn EXCEPT ![c] = t]
  BY DEF Begin, committedVars
<1>2. txn'[c] = t
  BY <1>1 DEF Sound
<1>3. Knows(c)'
  BY <1>1, <1>2 DEF Knows, ReserveKnows, CallKnows, Inside
<1>4. Takes(c)
  BY <1>1 DEF Sound, RowsSound, Takes
<1>5. About(c, txn'[c])
  BY <1>2 DEF About
<1>6. QED
  BY <1>1, <1>3, <1>4, <1>5, TakesSound

LEMMA BeginsSound ==
  ASSUME Sound, NEW c \in Conn,
         \/ \E k \in Key : BeginReserve(c, k)
         \/ \E r \in Res, op \in {"request_payment", "confirm", "cancel"} : BeginCall(c, op, r)
  PROVE  Sound'
<1>1. ASSUME NEW k \in Key, BeginReserve(c, k)
      PROVE  Sound'
  <2> DEFINE t == [op |-> "reserve", at |-> "key", key |-> k, res |-> NoRes,
                   deadline |-> 0, line |-> 1, night |-> 1]
  <2>1. t \in Txn /\ t.op = "reserve" /\ t.at = "key" /\ t.res = NoRes
    BY DEF Txn
  <2>2. Begin(c, t)
    BY <1>1 DEF BeginReserve
  <2>3. QED
    BY <2>1, <2>2, BeginSound
<1>2. ASSUME NEW r \in Res, NEW op \in {"request_payment", "confirm", "cancel"}, BeginCall(c, op, r)
      PROVE  Sound'
  <2> DEFINE t == [op |-> op, at |-> "reservation", key |-> request[r], res |-> r,
                   deadline |-> 0, line |-> 1, night |-> 1]
  <2>1. status[r] # "none" /\ request[r] \in Key
    BY <1>2 DEF BeginCall, Sound, RowsSound
  <2>2. t \in Txn /\ t.op = op /\ t.at = "reservation" /\ t.res = r /\ t.key = request[r]
    BY <2>1 DEF Txn
  <2>3. Begin(c, t)
    BY <1>2 DEF BeginCall
  <2>4. QED
    BY <2>1, <2>2, <2>3, BeginSound
<1>3. QED
  BY <1>1, <1>2

LEMMA SweepReadSound ==
  ASSUME Sound, NEW w \in Sweeper, SweepRead(w)
  PROVE  Sound'
<1>1. /\ UNCHANGED <<now, status, request, hold_expiry_at, held_by, txn>>
      /\ overdue_ids' = [overdue_ids EXCEPT ![w] = {r \in Res : HoldExpired(r)}]
  BY DEF SweepRead, committedVars
<1>2. \A r \in Res : HoldExpired(r) => status[r] # "none"
  BY DEF HoldExpired, Unsettled
<1>3. RowsSound'
  BY <1>1, <1>2 DEF Sound, RowsSound
<1>4. QED
  BY <1>1, <1>3 DEF Sound, OneReservationPerKey, Knows, ReserveKnows, CallKnows, Recorded

LEMMA BeginExpireSound ==
  ASSUME Sound, NEW w \in Sweeper, BeginExpire(w)
  PROVE  Sound'
<1>1. PICK r \in overdue_ids[w] :
        /\ txn' = [txn EXCEPT ![w] = [op |-> "expire", at |-> "reservation", key |-> request[r],
                                      res |-> r, deadline |-> 0, line |-> 1, night |-> 1]]
        /\ overdue_ids' = [overdue_ids EXCEPT ![w] = @ \ {r}]
        /\ UNCHANGED <<now, committedVars, held_by>>
  BY DEF BeginExpire
<1> PICK t : t = [op |-> "expire", at |-> "reservation", key |-> request[r],
                  res |-> r, deadline |-> 0, line |-> 1, night |-> 1]
  OBVIOUS
<1>2. w \in Conn /\ r \in Res /\ status[r] # "none" /\ request[r] \in Key
  BY DEF Sound, RowsSound, Conn
<1>3. t \in Txn /\ t.op = "expire" /\ t.at = "reservation" /\ t.res = r /\ t.key = request[r]
  BY <1>2 DEF Txn
<1>4. UNCHANGED <<now, status, request, hold_expiry_at, held_by>> /\ txn' = [txn EXCEPT ![w] = t]
  BY <1>1 DEF committedVars
<1>5. Knows(w)'
  <2>1. txn'[w] = t
    BY <1>2, <1>4 DEF Sound
  <2>2. CallKnows(w, t)'
    BY <1>2, <1>3, <1>4 DEF CallKnows, Inside
  <2>3. QED
    BY <1>3, <2>1, <2>2 DEF Knows
<1>6. \A d \in Conn : Knows(d)'
  <2>1. Takes(w)
    BY <1>2, <1>4 DEF Takes, Sound, RowsSound
  <2>2. About(w, txn'[w])
    BY <1>2, <1>3, <1>4 DEF About, Sound
  <2>3. QED
    BY <1>2, <1>5, <2>1, <2>2, OthersKeep
<1>7. RowsSound' /\ OneReservationPerKey' /\ txn' = [d \in Conn |-> txn'[d]]
  BY <1>1, <1>4 DEF Sound, RowsSound, OneReservationPerKey
<1>8. QED
  BY <1>6, <1>7 DEF Sound

-----------------------------------------------------------------------------
(* The statements of a transaction.                                         *)

LEMMA LockEffect ==
  ASSUME Sound, NEW c \in Conn, NEW row \in Row, Lock(c, row)
  PROVE  /\ held_by' \in [Row -> Conn \cup {Nobody}] /\ held_by'[row] = c
         /\ \A q \in Row : held_by'[q] = held_by[q] \/ Free(c, q)
         /\ \A q \in Row : held_by[q] = c => held_by'[q] = c
BY DEF Lock, Sound, RowsSound

LEMMA InsertKeySound ==
  ASSUME Sound, NEW c \in Conn, txn[c] # Idle, InsertKey(c)
  PROVE  Sound'
<1>1. CASE Rollback(c)
  BY <1>1, RollbackSound
<1>2. CASE ~Rollback(c)
  <2>1. PICK t : t = txn[c]
    OBVIOUS
  <2>2. t \in Txn /\ t.at = "key" /\ t.op = "reserve"
    BY <2>1 DEF InsertKey, Sound, Knows, CallKnows
  <2>3. <<"key", t.key>> \in Row /\ ~Recorded(t.key) /\ Lock(c, <<"key", t.key>>)
    BY <1>2, <2>1, <2>2 DEF InsertKey, Row, Txn
  <2>4. PICK r \in Res \ Used :
          txn' = [txn EXCEPT ![c] = [t EXCEPT !.at = "window", !.res = r, !.deadline = now + HoldMinutes]]
    BY <1>2, <2>1 DEF InsertKey
  <2>5. UNCHANGED <<now, status, request, hold_expiry_at, overdue_ids>>
    BY <1>2 DEF InsertKey, committedVars
  <2>6. PICK u : u = [t EXCEPT !.at = "window", !.res = r, !.deadline = now + HoldMinutes]
    OBVIOUS
  <2>7. /\ u \in Txn /\ u.op = "reserve" /\ u.at = "window" /\ u.res = r /\ u.key = t.key
    <3>1. now + HoldMinutes \in Nat
      BY LocksAssumption DEF Sound, RowsSound
    <3>2. QED
      BY <2>2, <2>6, <3>1 DEF Txn
  <2>8. /\ held_by' \in [Row -> Conn \cup {Nobody}] /\ held_by'[<<"key", t.key>>] = c
        /\ \A q \in Row : held_by'[q] = held_by[q] \/ Free(c, q)
    BY <2>3, LockEffect
  <2>9. status[r] = "none" /\ \A d \in Conn : txn[d] # Idle => txn[d].res # r
    BY <2>4 DEF Used
  <2>10. txn' = [txn EXCEPT ![c] = u] /\ txn'[c] = u /\ \A d \in Conn \ {c} : txn'[d] = txn[d]
    BY <2>4, <2>6 DEF Sound
  <2>11. ReserveKnows(c, u)'
    BY <2>3, <2>5, <2>7, <2>8, <2>9, <2>10 DEF ReserveKnows, Inside, Recorded
  <2>12. Knows(c)'
    BY <2>7, <2>10, <2>11 DEF Knows
  <2>13. Takes(c)
    BY <2>4, <2>5, <2>8, <2>10 DEF Takes, Sound
  <2>14. About(c, txn'[c])
    BY <2>4, <2>7, <2>10 DEF About
  <2>15. QED
    BY <2>5, <2>12, <2>13, <2>14, TakesSound
<1>3. QED
  BY <1>1, <1>2

LEMMA LockReservationSound ==
  ASSUME Sound, NEW c \in Conn, txn[c] # Idle, LockReservation(c)
  PROVE  Sound'
<1>1. CASE Rollback(c)
  BY <1>1, RollbackSound
<1>2. CASE ~Rollback(c)
  <2>1. PICK t : t = txn[c]
    OBVIOUS
  <2>2. t \in Txn /\ t.at = "reservation" /\ t.op # "reserve" /\ CallKnows(c, t)
    BY <2>1 DEF LockReservation, Sound, Knows, ReserveKnows
  <2>3. <<"reservation", t.res>> \in Row /\ Lock(c, <<"reservation", t.res>>)
    BY <1>2, <2>1, <2>2 DEF LockReservation, Row, CallKnows
  <2>4. PICK at \in {"window", "commit"} : txn' = [txn EXCEPT ![c].at = at]
    BY <1>2 DEF LockReservation
  <2>5. PICK u : u = [t EXCEPT !.at = at]
    OBVIOUS
  <2>6. u \in Txn /\ u.op = t.op /\ u.at = at /\ u.res = t.res /\ u.key = t.key
    BY <2>2, <2>4, <2>5 DEF Txn
  <2>7. txn' = [txn EXCEPT ![c] = u] /\ txn'[c] = u
    BY <2>1, <2>4, <2>5 DEF Sound
  <2>8. UNCHANGED <<now, status, request, hold_expiry_at, overdue_ids>>
    BY <1>2 DEF LockReservation, committedVars
  <2>9. /\ held_by' \in [Row -> Conn \cup {Nobody}] /\ held_by'[<<"reservation", t.res>>] = c
        /\ \A q \in Row : held_by'[q] = held_by[q] \/ Free(c, q)
    BY <2>3, LockEffect
  <2>10. CallKnows(c, u)'
    BY <2>2, <2>4, <2>6, <2>8, <2>9 DEF CallKnows, Inside
  <2>11. Knows(c)'
    BY <2>2, <2>6, <2>7, <2>10 DEF Knows
  <2>12. Takes(c)
    BY <2>7, <2>8, <2>9 DEF Takes, Sound
  <2>13. About(c, txn'[c])
    BY <2>1, <2>6, <2>7 DEF About
  <2>14. QED
    BY <2>8, <2>11, <2>12, <2>13, TakesSound
<1>3. QED
  BY <1>1, <1>2

(* A transaction that has locked its row of this night. *)
After(t) ==
  IF t.night < Len(CurrentLine(t).slots) THEN [t EXCEPT !.night = @ + 1]
  ELSE [t EXCEPT !.night = 1, !.line = @ + 1,
                 !.at = IF t.line = LastLine(t) THEN "commit" ELSE @]

LEMMA NextNight ==
  ASSUME NEW t \in Txn, t.at = "window", NEW u, u = After(t)
  PROVE  u \in Txn /\ u.op = t.op /\ Inside(u) /\ u.res = t.res /\ u.key = t.key
<1>1. CASE u = [t EXCEPT !.night = @ + 1]
  BY <1>1 DEF Txn, Inside
<1>2. CASE u = [t EXCEPT !.night = 1, !.line = @ + 1,
                         !.at = IF t.line = LastLine(t) THEN "commit" ELSE @]
  <2>1. PICK at : at = IF t.line = LastLine(t) THEN "commit" ELSE t.at
    OBVIOUS
  <2>2. at \in {"window", "commit"} /\ u = [t EXCEPT !.night = 1, !.line = @ + 1, !.at = at]
    BY <1>2, <2>1
  <2>3. t.line + 1 \in Nat /\ t.line \in Nat
    BY DEF Txn
  <2>4. u.op = t.op /\ u.at = at /\ u.res = t.res /\ u.key = t.key
    BY <2>2 DEF Txn
  <2>5. u \in Txn
    <3>1. PICK v : v = [t EXCEPT !.night = 1, !.line = @ + 1]
      OBVIOUS
    <3>2. v \in Txn
      BY <2>3, <3>1 DEF Txn
    <3>3. u = [v EXCEPT !.at = at]
      BY <2>2, <3>1 DEF Txn
    <3>4. QED
      BY <2>2, <3>2, <3>3 DEF Txn
  <2>6. QED
    BY <2>2, <2>4, <2>5 DEF Inside
<1>3. QED
  BY <1>1, <1>2 DEF After

LEMMA SlotEffect ==
  ASSUME Sound, NEW c \in Conn, txn[c] # Idle, LockSlot(c), ~Rollback(c)
  PROVE  /\ txn'[c] \in Txn /\ txn'[c].op = txn[c].op /\ Inside(txn'[c])
         /\ txn'[c].res = txn[c].res /\ txn'[c].key = txn[c].key
<1>1. PICK t : t = txn[c]
  OBVIOUS
<1>2. t \in Txn /\ t.at = "window"
  BY <1>1 DEF LockSlot, Sound, Knows
<1>3. PICK u : u = After(t)
  OBVIOUS
<1>4. txn' = [txn EXCEPT ![c] = u]
  BY <1>1, <1>3 DEF LockSlot, After
<1>5. txn'[c] = u
  BY <1>4 DEF Sound
<1>6. u \in Txn /\ u.op = t.op /\ Inside(u) /\ u.res = t.res /\ u.key = t.key
  BY <1>2, <1>3, NextNight
<1>7. QED
  BY <1>1, <1>5, <1>6

LEMMA LockSlotSound ==
  ASSUME Sound, NEW c \in Conn, txn[c] # Idle, LockSlot(c)
  PROVE  Sound'
<1>1. CASE Rollback(c)
  BY <1>1, RollbackSound
<1>2. CASE ~Rollback(c)
  <2>1. PICK t : t = txn[c]
    OBVIOUS
  <2>2. t \in Txn /\ t.at = "window" /\ Knows(c)
    BY <2>1 DEF LockSlot, Sound, Knows
  <2>3. PICK u : u = After(t)
    OBVIOUS
  <2>4. /\ Lock(c, <<"slot", CurrentLine(t).slots[t.night]>>)
        /\ txn' = [txn EXCEPT ![c] = u]
        /\ UNCHANGED <<now, status, request, hold_expiry_at, overdue_ids>>
    BY <1>2, <2>1, <2>3 DEF LockSlot, After, committedVars
  <2>5. u \in Txn /\ u.op = t.op /\ Inside(u) /\ u.res = t.res /\ u.key = t.key
    BY <2>2, <2>3, NextNight
  <2>6. /\ held_by' \in [Row -> Conn \cup {Nobody}]
        /\ \A q \in Row : held_by'[q] = held_by[q] \/ Free(c, q)
        /\ \A q \in Row : held_by[q] = c => held_by'[q] = c
    BY <2>4 DEF Lock, Sound, RowsSound
  <2>7. txn'[c] = u /\ Takes(c)
    BY <2>4, <2>6 DEF Takes, Sound
  <2>8. ASSUME t.op = "reserve"
        PROVE  ReserveKnows(c, u)'
    <3>1. ReserveKnows(c, t) /\ <<"key", t.key>> \in Row
      BY <2>1, <2>2, <2>8 DEF Knows, Txn, Row
    <3>2. QED
      BY <2>2, <2>4, <2>5, <2>6, <2>7, <3>1 DEF ReserveKnows, Inside, Recorded, Takes
  <2>9. ASSUME t.op # "reserve"
        PROVE  CallKnows(c, u)'
    <3>1. CallKnows(c, t) /\ <<"reservation", t.res>> \in Row
      BY <2>1, <2>2, <2>9 DEF Knows, CallKnows, Row
    <3>2. QED
      BY <2>2, <2>4, <2>5, <2>6, <3>1 DEF CallKnows, Inside
  <2>10. Knows(c)'
    BY <2>5, <2>7, <2>8, <2>9 DEF Knows
  <2>11. About(c, txn'[c])
    BY <2>1, <2>2, <2>5, <2>7 DEF About
  <2>12. QED
    BY <2>4, <2>7, <2>10, <2>11, TakesSound
<1>3. QED
  BY <1>1, <1>2

(* What a commit writes of the reservation's row. *)
LEMMA CommitEffect ==
  ASSUME Sound, NEW c \in Conn, txn[c] # Idle, Commit(c)
  PROVE  LET t == txn[c]
         IN  /\ t \in Txn /\ t.res \in Res /\ t.at = "commit"
             /\ \A r \in Res : r # t.res =>
                  /\ status'[r] = status[r] /\ request'[r] = request[r]
                  /\ hold_expiry_at'[r] = hold_expiry_at[r]
             /\ status'[t.res] \in Status \ {"none"} /\ request'[t.res] = t.key
             /\ status'[t.res] = "converted" => status[t.res] = "converted" \/ t.op = "confirm"
             /\ t.op # "reserve" => request'[t.res] = request[t.res]
             /\ t.op # "reserve" => hold_expiry_at'[t.res] = hold_expiry_at[t.res]
             /\ RowsSound'
<1>1. PICK t : t = txn[c]
  OBVIOUS
<1>2. /\ t \in Txn /\ t.at = "commit"
      /\ t.op = "reserve" => ReserveKnows(c, t)
      /\ t.op # "reserve" => CallKnows(c, t)
  BY <1>1 DEF Commit, Sound, Knows
<1>3. t.res \in Res /\ t.key \in Key /\ t.deadline \in Nat
  BY <1>2 DEF ReserveKnows, CallKnows, Inside, Txn
<1>4. /\ \/ status' = status /\ t.op # "reserve"
         \/ status' = [status EXCEPT ![t.res] = StatusAfter(t)]
      /\ request' = [request EXCEPT ![t.res] = t.key]
      /\ hold_expiry_at' = IF t.op = "reserve" THEN [hold_expiry_at EXCEPT ![t.res] = t.deadline]
                                               ELSE hold_expiry_at
      /\ held_by' = Unlock(c)
      /\ UNCHANGED <<now, overdue_ids>>
  BY <1>1 DEF Commit
<1>5. /\ StatusAfter(t) \in Status \ {"none"}
      /\ StatusAfter(t) = "converted" => t.op = "confirm"
  BY <1>2 DEF StatusAfter, Status, Unsettled, Settled, Txn
<1>6. t.op # "reserve" => status[t.res] # "none" /\ t.key = request[t.res]
  BY <1>2 DEF CallKnows
<1>7. /\ status \in [Res -> Status] /\ request \in [Res -> Key \cup {"none"}]
      /\ hold_expiry_at \in [Res -> Nat] /\ held_by \in [Row -> Conn \cup {Nobody}]
  BY DEF Sound, RowsSound
<1>8. /\ status' \in [Res -> Status] /\ request' \in [Res -> Key \cup {"none"}]
      /\ hold_expiry_at' \in [Res -> Nat] /\ held_by' \in [Row -> Conn \cup {Nobody}]
  BY <1>3, <1>4, <1>5, <1>7 DEF Unlock
<1>9. /\ \A r \in Res : r # t.res =>
           /\ status'[r] = status[r] /\ request'[r] = request[r]
           /\ hold_expiry_at'[r] = hold_expiry_at[r]
      /\ status'[t.res] \in Status \ {"none"} /\ request'[t.res] = t.key
      /\ status'[t.res] = "converted" => status[t.res] = "converted" \/ t.op = "confirm"
  BY <1>3, <1>4, <1>5, <1>6, <1>7
<1>10. \A r \in Res : request'[r] = "none" <=> status'[r] = "none"
  BY <1>3, <1>9, LocksAssumption DEF Sound, RowsSound
<1>11. \A w \in Sweeper : \A r \in overdue_ids'[w] : status'[r] # "none"
  BY <1>4, <1>9 DEF Sound, RowsSound
<1>12. RowsSound'
  BY <1>4, <1>8, <1>10, <1>11 DEF Sound, RowsSound
<1>13. QED
  BY <1>1, <1>2, <1>3, <1>4, <1>6, <1>9, <1>12

LEMMA CommitSound ==
  ASSUME Sound, NEW c \in Conn, txn[c] # Idle, Commit(c)
  PROVE  Sound'
<1>1. PICK t : t = txn[c]
  OBVIOUS
<1>2. /\ t \in Txn /\ t.res \in Res /\ t.at = "commit" /\ t.key \in Key
      /\ \A r \in Res : r # t.res => status'[r] = status[r] /\ request'[r] = request[r]
      /\ status'[t.res] # "none" /\ request'[t.res] = t.key
      /\ t.op # "reserve" => request'[t.res] = request[t.res]
      /\ RowsSound'
  BY <1>1, CommitEffect DEF Txn
<1>3. /\ txn' = [txn EXCEPT ![c] = Idle]
      /\ held_by' = [row \in Row |-> IF held_by[row] = c THEN Nobody ELSE held_by[row]]
  BY DEF Commit, Unlock
<1>4. /\ t.op = "reserve" => ReserveKnows(c, t)
      /\ t.op # "reserve" => CallKnows(c, t)
  BY <1>1 DEF Sound, Knows
<1>5. OneReservationPerKey'
  <2>1. CASE t.op = "reserve"
    <3>1. ~Recorded(t.key)
      BY <1>2, <1>4, <2>1 DEF ReserveKnows, Inside
    <3>2. QED
      BY <1>2, <3>1 DEF Recorded, Sound, OneReservationPerKey
  <2>2. CASE t.op # "reserve"
    BY <1>2, <2>2 DEF Sound, OneReservationPerKey
  <2>3. QED
    BY <2>1, <2>2
<1>6. ASSUME NEW d \in Conn
      PROVE  Knows(d)'
  <2>1. CASE d = c
    BY <1>3, <2>1 DEF Knows, Sound
  <2>2. CASE d # c
    <3>1. txn'[d] = txn[d] /\ \A e \in Conn : txn'[e] # Idle => txn'[e] = txn[e]
      BY <1>3, <2>2 DEF Sound
    <3>2. \A row \in Row : held_by[row] = d => held_by'[row] = d
      BY <1>3, <2>2
    <3>3. PICK u : u = txn[d]
      OBVIOUS
    <3>4. SUFFICES ASSUME u # Idle
                   PROVE  Knows(d)'
      BY <3>1, <3>3 DEF Knows
    <3>5. /\ u \in Txn /\ <<"key", u.key>> \in Row
          /\ u.res \in Res => <<"reservation", u.res>> \in Row
          /\ u.op = "reserve" => ReserveKnows(d, u)
          /\ u.op # "reserve" => CallKnows(d, u)
      BY <3>3, <3>4 DEF Sound, Knows, Txn, Row
    <3>6. ASSUME u.op = "reserve"
          PROVE  ReserveKnows(d, u)'
      <4>1. CASE ~Inside(u)
        BY <3>5, <3>6, <4>1 DEF ReserveKnows, Inside
      <4>2. CASE Inside(u)
        <5>1. /\ u.res \in Res /\ status[u.res] = "none" /\ held_by[<<"key", u.key>>] = d
              /\ ~Recorded(u.key)
              /\ \A e \in Conn \ {d} : txn[e] # Idle => txn[e].res # u.res
          BY <3>5, <3>6, <4>2 DEF ReserveKnows
        <5>2. t.res # u.res
          BY <1>1, <2>2, <5>1
        <5>3. status'[u.res] = "none"
          BY <1>2, <5>1, <5>2
        <5>4. request'[t.res] # u.key
          <6>1. CASE t.op = "reserve"
            BY <1>2, <1>4, <2>2, <5>1, <6>1 DEF ReserveKnows, Inside
          <6>2. CASE t.op # "reserve"
            BY <1>2, <5>1, <6>2 DEF Recorded
          <6>3. QED
            BY <6>1, <6>2
        <5>5. ~Recorded(u.key)'
          BY <1>2, <5>1, <5>4 DEF Recorded
        <5>6. \A e \in Conn \ {d} : txn'[e] # Idle => txn'[e].res # u.res
          BY <3>1, <5>1
        <5>7. held_by'[<<"key", u.key>>] = d
          BY <3>2, <3>5, <5>1
        <5>8. u.at # "reservation" /\ (u.at = "key" => u.res = NoRes)
          BY <3>5, <3>6 DEF ReserveKnows
        <5>9. QED
          BY <5>1, <5>3, <5>5, <5>6, <5>7, <5>8 DEF ReserveKnows
      <4>3. QED
        BY <4>1, <4>2
    <3>7. ASSUME u.op # "reserve"
          PROVE  CallKnows(d, u)'
      <4>1. CallKnows(d, u)
        BY <3>5, <3>7
      <4>2. status'[u.res] # "none"
        BY <1>2, <4>1 DEF CallKnows
      <4>3. request'[u.res] = request[u.res]
        <5>1. CASE u.res # t.res
          BY <1>2, <4>1, <5>1 DEF CallKnows
        <5>2. CASE u.res = t.res
          <6>1. t.op # "reserve"
            BY <1>2, <1>4, <4>1, <5>2 DEF ReserveKnows, Inside, CallKnows
          <6>2. QED
            BY <1>2, <5>2, <6>1
        <5>3. QED
          BY <5>1, <5>2
      <4>4. QED
        BY <3>2, <3>5, <4>1, <4>2, <4>3 DEF CallKnows, Inside
    <3>8. QED
      BY <3>1, <3>3, <3>5, <3>6, <3>7 DEF Knows, ReserveKnows, CallKnows, Inside, Recorded
  <2>3. QED
    BY <2>1, <2>2
<1>7. QED
  BY <1>2, <1>3, <1>5, <1>6 DEF Sound

LEMMA AtWork ==
  ASSUME NEW c \in Conn, InsertKey(c) \/ LockReservation(c) \/ LockSlot(c) \/ Commit(c)
  PROVE  txn[c] # Idle
<1>1. txn[c].at \in {"key", "reservation", "window", "commit"}
  BY DEF InsertKey, LockReservation, LockSlot, Commit
<1>2. Idle.at = "idle"
  BY DEF Idle
<1>3. QED
  BY <1>1, <1>2

LEMMA StepSound ==
  ASSUME Sound, [Next]_vars
  PROVE  Sound'
<1>1. CASE Tick
  BY <1>1, TickSound
<1>2. ASSUME NEW c \in Worker,
             \/ \E k \in Key : BeginReserve(c, k)
             \/ \E r \in Res, op \in {"request_payment", "confirm", "cancel"} : BeginCall(c, op, r)
      PROVE  Sound'
  BY <1>2, BeginsSound DEF Conn
<1>3. ASSUME NEW w \in Sweeper, SweepRead(w) \/ BeginExpire(w)
      PROVE  Sound'
  BY <1>3, SweepReadSound, BeginExpireSound
<1>4. ASSUME NEW c \in Conn, Step(c) \/ ConnectionLost(c)
      PROVE  Sound'
  <2>1. CASE BreakDeadlock(c) \/ ConnectionLost(c)
    BY <2>1, RollbackSound DEF BreakDeadlock, ConnectionLost
  <2>2. CASE InsertKey(c) \/ LockReservation(c) \/ LockSlot(c) \/ Commit(c)
    <3>1. txn[c] # Idle
      BY <2>2, AtWork
    <3>2. QED
      BY <2>2, <3>1, InsertKeySound, LockReservationSound, LockSlotSound, CommitSound
  <2>3. QED
    BY <1>4, <2>1, <2>2 DEF Step
<1>5. CASE UNCHANGED vars
  BY <1>5 DEF vars, Sound, RowsSound, OneReservationPerKey, Knows, ReserveKnows, CallKnows, Recorded
<1>6. QED
  BY <1>1, <1>2, <1>3, <1>4, <1>5 DEF Next

-----------------------------------------------------------------------------
(* The theorems.                                                            *)

(* The invariant above holds of every behaviour of the transactions of      *)
(* reservations/services.py, idempotency.py and the sweep.                  *)
THEOREM LocksSound == Spec => []Sound
<1>1. Init => Sound
  BY InitSound
<1>2. Sound /\ [Next]_vars => Sound'
  BY StepSound
<1>3. QED
  BY <1>1, <1>2, PTL DEF Spec

(* A retried or repeated reserve() never makes a second reservation.        *)
THEOREM KeysUnique == Spec => []OneReservationPerKey
<1>1. Sound => OneReservationPerKey
  BY DEF Sound
<1>2. QED
  BY <1>1, LocksSound, PTL

(* The hold is over, and no confirm() is at work on it. *)
Late(r) ==
  /\ status[r] \notin {"none", "converted"} /\ hold_expiry_at[r] < now
  /\ \A c \in Conn :
       txn[c] # Idle /\ txn[c].op = "confirm" /\ txn[c].res = r => txn[c].at = "reservation"

LEMMA LateHold ==
  ASSUME Sound, NEW r \in Res, HoldExpired(r), held_by[<<"reservation", r>>] = Nobody
  PROVE  Late(r)
<1>1. status[r] \notin {"none", "converted"} /\ hold_expiry_at[r] < now
  BY DEF HoldExpired, Unsettled
<1>2. ASSUME NEW c \in Conn, txn[c] # Idle, txn[c].op = "confirm", txn[c].res = r
      PROVE  txn[c].at = "reservation"
  <2>1. txn[c] \in Txn /\ CallKnows(c, txn[c])
    BY <1>2 DEF Sound, Knows
  <2>2. ~Inside(txn[c])
    BY <1>2, <2>1, LocksAssumption DEF CallKnows
  <2>3. QED
    BY <2>1, <2>2 DEF CallKnows, Inside, Txn
<1>3. QED
  BY <1>1, <1>2 DEF Late

(* Transactions that are not of confirm(), or have not its row, do no harm. *)
LEMMA LateKept ==
  ASSUME Sound, NEW r \in Res, Late(r), UNCHANGED <<now, status, hold_expiry_at>>,
         NEW c \in Conn, \A d \in Conn \ {c} : txn'[d] = txn[d],
         txn'[c] # Idle /\ txn'[c].op = "confirm" /\ txn'[c].res = r => txn'[c].at = "reservation"
  PROVE  Late(r)'
BY DEF Late

LEMMA LateStands ==
  ASSUME Sound, NEW r \in Res, Late(r), [Next]_vars
  PROVE  Late(r)'
<1>1. CASE Tick
  <2>1. now' = now + 1 /\ UNCHANGED <<status, hold_expiry_at, txn>>
    BY <1>1 DEF Tick, committedVars
  <2>2. now \in Nat /\ hold_expiry_at[r] \in Nat
    BY DEF Sound, RowsSound
  <2>3. hold_expiry_at'[r] < now'
    BY <2>1, <2>2 DEF Late
  <2>4. QED
    BY <2>1, <2>3 DEF Late
<1>2. ASSUME NEW c \in Conn, NEW t, Begin(c, t), t.op = "confirm" => t.at = "reservation"
      PROVE  Late(r)'
  <2>1. UNCHANGED <<now, status, hold_expiry_at>> /\ txn' = [txn EXCEPT ![c] = t]
    BY <1>2 DEF Begin, committedVars
  <2>2. txn'[c] = t /\ \A d \in Conn \ {c} : txn'[d] = txn[d]
    BY <2>1 DEF Sound
  <2>3. QED
    BY <1>2, <2>1, <2>2, LateKept
<1>3. ASSUME NEW c \in Worker,
             \/ \E k \in Key : BeginReserve(c, k)
             \/ \E q \in Res, op \in {"request_payment", "confirm", "cancel"} : BeginCall(c, op, q)
      PROVE  Late(r)'
  <2>1. PICK t : Begin(c, t) /\ (t.op = "confirm" => t.at = "reservation")
    <3>1. ASSUME NEW k \in Key, BeginReserve(c, k)
          PROVE  \E t : Begin(c, t) /\ (t.op = "confirm" => t.at = "reservation")
      <4>1. PICK t : t = [op |-> "reserve", at |-> "key", key |-> k, res |-> NoRes,
                          deadline |-> 0, line |-> 1, night |-> 1]
        OBVIOUS
      <4>2. Begin(c, t) /\ t.op = "reserve"
        BY <3>1, <4>1 DEF BeginReserve
      <4>3. QED
        BY <4>2
    <3>2. ASSUME NEW q \in Res, NEW op \in {"request_payment", "confirm", "cancel"},
                 BeginCall(c, op, q)
          PROVE  \E t : Begin(c, t) /\ (t.op = "confirm" => t.at = "reservation")
      <4>1. PICK t : t = [op |-> op, at |-> "reservation", key |-> request[q], res |-> q,
                          deadline |-> 0, line |-> 1, night |-> 1]
        OBVIOUS
      <4>2. Begin(c, t) /\ t.at = "reservation"
        BY <3>2, <4>1 DEF BeginCall
      <4>3. QED
        BY <4>2
    <3>3. QED
      BY <1>3, <3>1, <3>2
  <2>2. QED
    BY <1>2, <2>1 DEF Conn
<1>4. ASSUME NEW w \in Sweeper, SweepRead(w)
      PROVE  Late(r)'
  BY <1>4 DEF SweepRead, committedVars, Late
<1>5. ASSUME NEW w \in Sweeper, BeginExpire(w)
      PROVE  Late(r)'
  <2>1. PICK t : t.op = "expire" /\ txn' = [txn EXCEPT ![w] = t]
    BY <1>5 DEF BeginExpire
  <2>2. UNCHANGED <<now, status, hold_expiry_at>> /\ w \in Conn
    BY <1>5 DEF BeginExpire, committedVars, Conn
  <2>3. txn'[w] = t /\ \A d \in Conn \ {w} : txn'[d] = txn[d]
    BY <2>1, <2>2 DEF Sound
  <2>4. QED
    BY <2>1, <2>2, <2>3, LateKept
<1>6. ASSUME NEW c \in Conn, Rollback(c)
      PROVE  Late(r)'
  BY <1>6, LateKept DEF Rollback, committedVars, Sound
<1>7. ASSUME NEW c \in Conn, txn[c] # Idle,
             InsertKey(c) \/ LockReservation(c) \/ LockSlot(c), ~Rollback(c)
      PROVE  Late(r)'
  <2>1. PICK t : t = txn[c]
    OBVIOUS
  <2>2. /\ t \in Txn /\ Knows(c)
        /\ t.op = "reserve" => ReserveKnows(c, t)
        /\ t.op # "reserve" => CallKnows(c, t)
    BY <1>7, <2>1 DEF Sound, Knows
  <2>3. UNCHANGED <<now, status, hold_expiry_at>>
    BY <1>7 DEF InsertKey, LockReservation, LockSlot, committedVars
  <2>4. \A d \in Conn \ {c} : txn'[d] = txn[d]
    BY <1>7 DEF InsertKey, LockReservation, LockSlot, Sound
  <2>5. CASE t.op # "confirm"
    <3>1. txn'[c].op = t.op
      <4>1. CASE InsertKey(c)
        BY <1>7, <2>1, <2>2, <4>1 DEF InsertKey, Sound, Txn
      <4>2. CASE LockReservation(c)
        BY <1>7, <2>1, <2>2, <4>2 DEF LockReservation, Sound, Txn
      <4>3. CASE LockSlot(c)
        BY <1>7, <2>1, <4>3, SlotEffect
      <4>4. QED
        BY <1>7, <4>1, <4>2, <4>3
    <3>2. QED
      BY <2>3, <2>4, <2>5, <3>1, LateKept
  <2>6. CASE t.op = "confirm"
    <3>1. t.res # r
      <4>1. ASSUME t.res = r
            PROVE  FALSE
        <5>1. t.at = "reservation"
          BY <1>7, <2>1, <2>6, <4>1 DEF Late
        <5>2. LockReservation(c) /\ Accepts(t)
          BY <1>7, <2>1, <2>6, <5>1 DEF InsertKey, LockReservation, LockSlot
        <5>3. ~HoldExpired(r) /\ status[r] = "awaiting_payment"
          BY <2>6, <4>1, <5>2 DEF Accepts
        <5>4. QED
          BY <5>3 DEF Late, HoldExpired, Unsettled
      <4>2. QED
        BY <4>1
    <3>2. txn'[c].res = t.res
      <4>1. ~InsertKey(c)
        BY <2>1, <2>2, <2>6 DEF InsertKey, CallKnows
      <4>2. CASE LockReservation(c)
        BY <1>7, <2>1, <2>2, <4>2 DEF LockReservation, Sound, Txn
      <4>3. CASE LockSlot(c)
        BY <1>7, <2>1, <4>3, SlotEffect
      <4>4. QED
        BY <1>7, <4>1, <4>2, <4>3
    <3>3. QED
      BY <2>3, <2>4, <3>1, <3>2, LateKept
  <2>7. QED
    BY <2>5, <2>6
<1>8. ASSUME NEW c \in Conn, txn[c] # Idle, Commit(c)
      PROVE  Late(r)'
  <2>1. PICK t : t = txn[c]
    OBVIOUS
  <2>2. /\ t \in Txn /\ t.res \in Res /\ t.at = "commit"
        /\ r # t.res => status'[r] = status[r] /\ hold_expiry_at'[r] = hold_expiry_at[r]
        /\ status'[t.res] # "none"
        /\ status'[t.res] = "converted" => status[t.res] = "converted" \/ t.op = "confirm"
        /\ t.op # "reserve" => hold_expiry_at'[t.res] = hold_expiry_at[t.res]
    BY <1>8, <2>1, CommitEffect
  <2>3. t.op = "reserve" => status[t.res] = "none"
    BY <1>8, <2>1, <2>2 DEF Sound, Knows, ReserveKnows, Inside
  <2>4. t.op = "confirm" => t.res # r
    BY <1>8, <2>1, <2>2 DEF Late
  <2>5. status'[r] \notin {"none", "converted"} /\ hold_expiry_at'[r] = hold_expiry_at[r]
    BY <2>2, <2>3, <2>4 DEF Late
  <2>6. now' = now /\ \A d \in Conn : txn'[d] = txn[d] \/ txn'[d] = Idle
    BY <1>8 DEF Commit, Sound
  <2>7. QED
    BY <2>5, <2>6 DEF Late
<1>9. ASSUME NEW c \in Conn, Step(c) \/ ConnectionLost(c)
      PROVE  Late(r)'
  <2>1. InsertKey(c) \/ LockReservation(c) \/ LockSlot(c) \/ Commit(c) => txn[c] # Idle
    BY AtWork
  <2>2. QED
    BY <1>6, <1>7, <1>8, <1>9, <2>1 DEF Step, BreakDeadlock, ConnectionLost
<1>10. CASE UNCHANGED vars
  BY <1>10 DEF vars, Late
<1>11. QED
  BY <1>1, <1>3, <1>4, <1>5, <1>9, <1>10 DEF Next

(* A hold that has run out, with nobody at work on its row, is never booked *)
(* (reservations/services.py: confirm() reads the clock under the lock).    *)
THEOREM LateNeverConverted == Spec => NeverConvertedLate
<1> SUFFICES ASSUME NEW r \in Res
             PROVE  Spec => []( /\ HoldExpired(r)
                                /\ held_by[<<"reservation", r>>] = Nobody
                               => [](status[r] # "converted"))
  BY DEF NeverConvertedLate
<1>1. Sound /\ HoldExpired(r) /\ held_by[<<"reservation", r>>] = Nobody => Late(r)
  BY LateHold
<1>2. Sound /\ Late(r) /\ [Next]_vars => Late(r)'
  BY LateStands
<1>3. Late(r) => status[r] # "converted"
  BY DEF Late
<1>4. QED
  BY <1>1, <1>2, <1>3, LocksSound, PTL DEF Spec
=============================================================================
