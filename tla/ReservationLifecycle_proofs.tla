--------------------- MODULE ReservationLifecycle_proofs ---------------------
(***************************************************************************)
(* The ledger is exact and never oversold, for every set of reservations,  *)
(* sales, room types, dates, capacities and sweep runs.  Counters are sums *)
(* of quantities in the code; a quantity being a set of units here, the    *)
(* sums are cardinalities and the proof needs no induction over data.      *)
(***************************************************************************)
EXTENDS ReservationLifecycle, FiniteSetTheorems, TLAPS

(* The units of claimant c that need slot s. *)
Covering(c, s) == {u \in UnitsOf(c) : s \in Nights[u]}

(* NoOversell and LedgerMatches are inductive only together: a counter     *)
(* stays natural because it counts units, and a unit is counted once       *)
(* because a booking line belongs to a converted reservation.              *)
IInv == TypeOK /\ NoOversell /\ LedgerMatches /\ BookedIffConverted

-----------------------------------------------------------------------------
LEMMA CardinalityAdd ==
  ASSUME NEW S, NEW T, IsFiniteSet(S), IsFiniteSet(T), S \cap T = {}
  PROVE  Cardinality(S \cup T) = Cardinality(S) + Cardinality(T)
<1>1. Cardinality(S \cup T) = Cardinality(S) + Cardinality(T) - Cardinality({})
  BY FS_Union
<1>2. Cardinality(S) \in Nat /\ Cardinality(T) \in Nat
  BY FS_CardinalityType
<1>3. QED
  BY <1>1, <1>2, FS_EmptySet

LEMMA CardinalityRemove ==
  ASSUME NEW S, NEW T, IsFiniteSet(S), T \subseteq S
  PROVE  /\ Cardinality(T) =< Cardinality(S)
         /\ Cardinality(S \ T) = Cardinality(S) - Cardinality(T)
<1>1. S \cap T = T
  OBVIOUS
<1>2. Cardinality(T) =< Cardinality(S)
  BY FS_Subset
<1>3. Cardinality(S \ T) = Cardinality(S) - Cardinality(S \cap T)
  BY FS_Difference
<1>4. QED
  BY <1>1, <1>2, <1>3

(* What a claimant needs of a slot is a natural number, none outside the   *)
(* nights of its lines.                                                    *)
LEMMA DemandType ==
  ASSUME NEW c, NEW s
  PROVE  /\ IsFiniteSet(Covering(c, s))
         /\ Demand(c, s) = Cardinality(Covering(c, s))
         /\ Demand(c, s) \in Nat
         /\ s \notin Window(c) => Demand(c, s) = 0
<1>1. Covering(c, s) \subseteq Unit
  BY DEF Covering, UnitsOf
<1>2. IsFiniteSet(Covering(c, s))
  BY <1>1, FS_Subset, DataAssumption
<1>3. Demand(c, s) = Cardinality(Covering(c, s))
  BY DEF Demand, Covering
<1>4. ASSUME s \notin Window(c)
      PROVE  Demand(c, s) = 0
  <2>1. Covering(c, s) = {}
    BY <1>4 DEF Covering, Window
  <2>2. QED
    BY <2>1, <1>3, FS_EmptySet
<1>5. QED
  BY <1>2, <1>3, <1>4, FS_CardinalityType

LEMMA UnitSetsFinite ==
  ASSUME NEW s
  PROVE  /\ IsFiniteSet(HeldUnits(s)) /\ Cardinality(HeldUnits(s)) \in Nat
         /\ IsFiniteSet(SoldUnits(s)) /\ Cardinality(SoldUnits(s)) \in Nat
<1>1. HeldUnits(s) \subseteq Unit /\ SoldUnits(s) \subseteq Unit
  BY DEF HeldUnits, SoldUnits
<1>2. QED
  BY <1>1, FS_Subset, FS_CardinalityType, DataAssumption

-----------------------------------------------------------------------------
(* A reservation that becomes held adds its units, no others.              *)
LEMMA HeldGrows ==
  ASSUME TypeOK, NEW r \in Res, NEW s,
         status[r] = "none", status' = [status EXCEPT ![r] = "held"]
  PROVE  Cardinality(HeldUnits(s)') = Cardinality(HeldUnits(s)) + Demand(r, s)
<1>1. HeldUnits(s)' = HeldUnits(s) \cup Covering(r, s)
  BY DataAssumption DEF HeldUnits, Covering, UnitsOf, TypeOK, Unsettled
<1>2. HeldUnits(s) \cap Covering(r, s) = {}
  BY DEF HeldUnits, Covering, UnitsOf, Unsettled
<1>3. QED
  BY <1>1, <1>2, CardinalityAdd, DemandType, UnitSetsFinite

(* A reservation that stops being held takes exactly its own units away,   *)
(* and they were counted.                                                  *)
LEMMA HeldShrinks ==
  ASSUME TypeOK, NEW r \in Res, NEW s, NEW target \in Settled,
         status[r] \in Unsettled, status' = [status EXCEPT ![r] = target]
  PROVE  /\ Demand(r, s) =< Cardinality(HeldUnits(s))
         /\ Cardinality(HeldUnits(s)') = Cardinality(HeldUnits(s)) - Demand(r, s)
<1>1. HeldUnits(s)' = HeldUnits(s) \ Covering(r, s)
  BY DataAssumption DEF HeldUnits, Covering, UnitsOf, TypeOK, Unsettled, Settled
<1>2. Covering(r, s) \subseteq HeldUnits(s)
  BY DEF HeldUnits, Covering, UnitsOf
<1>3. /\ Cardinality(Covering(r, s)) =< Cardinality(HeldUnits(s))
      /\ Cardinality(HeldUnits(s) \ Covering(r, s))
           = Cardinality(HeldUnits(s)) - Cardinality(Covering(r, s))
  BY <1>2, CardinalityRemove, UnitSetsFinite
<1>4. QED
  BY <1>1, <1>3, DemandType

(* Steps that keep a reservation held, or unheld, keep the held units.     *)
LEMMA HeldSame ==
  ASSUME NEW s, \A r \in Res : status[r] \in Unsettled <=> status'[r] \in Unsettled
  PROVE  HeldUnits(s)' = HeldUnits(s)
BY DEF HeldUnits

-----------------------------------------------------------------------------
LEMMA InitIInv == Init => IInv
<1> SUFFICES ASSUME Init PROVE IInv
  OBVIOUS
<1>1. TypeOK
  BY BoundsAssumption DEF Init, TypeOK, Status
<1>2. NoOversell
  BY DEF Init, NoOversell
<1>3. ASSUME NEW s \in Slot
      PROVE  HeldUnits(s) = {} /\ SoldUnits(s) = {}
  BY DEF Init, HeldUnits, SoldUnits, Unsettled
<1>4. LedgerMatches
  BY <1>3, FS_EmptySet DEF LedgerMatches, Init
<1>5. BookedIffConverted
  BY DEF Init, BookedIffConverted
<1>6. QED
  BY <1>1, <1>2, <1>4, <1>5 DEF IInv

LEMMA ReserveIInv ==
  ASSUME IInv, NEW r \in Res, Reserve(r)
  PROVE  IInv'
<1> USE DEF IInv
<1>1. \A s \in Slot : Demand(r, s) \in Nat /\ (s \notin Window(r) => Demand(r, s) = 0)
  BY DemandType
<1>2. TypeOK'
  BY <1>1, BoundsAssumption DEF TypeOK, Reserve, Status, Unsettled, sweepVars
<1>3. NoOversell'
  BY <1>1 DEF NoOversell, Reserve, CanConsume, remaining, TypeOK
<1>4. LedgerMatches'
  <2> SUFFICES ASSUME NEW s \in Slot
               PROVE  /\ reserved'[s] = Cardinality(HeldUnits(s)')
                      /\ sold'[s] = Cardinality(SoldUnits(s)')
    BY DEF LedgerMatches
  <2>1. reserved'[s] = Cardinality(HeldUnits(s)')
    BY HeldGrows DEF Reserve, LedgerMatches
  <2>2. SoldUnits(s)' = SoldUnits(s)
    BY DEF SoldUnits, Reserve
  <2>3. QED
    BY <2>1, <2>2 DEF LedgerMatches, Reserve
<1>5. BookedIffConverted'
  BY DEF BookedIffConverted, Reserve, TypeOK
<1>6. QED
  BY <1>2, <1>3, <1>4, <1>5

LEMMA RequestPaymentIInv ==
  ASSUME IInv, NEW r \in Res, RequestPayment(r)
  PROVE  IInv'
<1> USE DEF IInv
<1>1. TypeOK'
  BY DEF TypeOK, RequestPayment, Status, Unsettled, slotVars, sweepVars
<1>2. NoOversell'
  BY DEF NoOversell, RequestPayment, slotVars
<1>3. LedgerMatches'
  <2> SUFFICES ASSUME NEW s \in Slot
               PROVE  /\ reserved'[s] = Cardinality(HeldUnits(s)')
                      /\ sold'[s] = Cardinality(SoldUnits(s)')
    BY DEF LedgerMatches
  <2>1. HeldUnits(s)' = HeldUnits(s)
    BY HeldSame DEF RequestPayment, Unsettled, TypeOK
  <2>2. SoldUnits(s)' = SoldUnits(s)
    BY DEF SoldUnits, RequestPayment
  <2>3. QED
    BY <2>1, <2>2 DEF LedgerMatches, RequestPayment, slotVars
<1>4. BookedIffConverted'
  BY DEF BookedIffConverted, RequestPayment, TypeOK
<1>5. QED
  BY <1>1, <1>2, <1>3, <1>4

LEMMA ConfirmIInv ==
  ASSUME IInv, NEW r \in Res, Confirm(r)
  PROVE  IInv'
<1> USE DEF IInv
<1>1. \A s \in Slot : Demand(r, s) \in Nat
  BY DemandType
<1>2. status[r] \in Unsettled /\ "converted" \in Settled
  BY DEF Confirm, CanConvert, Unsettled, Settled
<1>3. ASSUME NEW s \in Slot
      PROVE  /\ Demand(r, s) =< reserved[s]
             /\ reserved'[s] = Cardinality(HeldUnits(s)')
             /\ reserved'[s] = reserved[s] - Demand(r, s)
  BY <1>2, HeldShrinks DEF Confirm, LedgerMatches
<1>4. ASSUME NEW s \in Slot
      PROVE  sold'[s] = Cardinality(SoldUnits(s)')
  <2>1. SoldUnits(s)' = SoldUnits(s) \cup Covering(r, s)
    BY DEF SoldUnits, Covering, Confirm, UnitsOf
  <2>2. SoldUnits(s) \cap Covering(r, s) = {}
    BY DataAssumption
       DEF SoldUnits, Covering, UnitsOf, BookedIffConverted, Confirm, CanConvert, TypeOK
  <2>3. Cardinality(SoldUnits(s)') = Cardinality(SoldUnits(s)) + Demand(r, s)
    BY <2>1, <2>2, CardinalityAdd, DemandType, UnitSetsFinite
  <2>4. QED
    BY <2>3 DEF Confirm, LedgerMatches
<1>5. TypeOK'
  <2>1. reserved' \in [Slot -> Nat] /\ sold' \in [Slot -> Nat]
    BY <1>1, <1>3 DEF Confirm, TypeOK
  <2>2. QED
    BY <2>1 DEF TypeOK, Confirm, Status, Settled, UnitsOf, sweepVars
<1>6. NoOversell'
  BY <1>1 DEF NoOversell, Confirm, TypeOK
<1>7. LedgerMatches'
  BY <1>3, <1>4 DEF LedgerMatches
<1>8. BookedIffConverted'
  BY DataAssumption DEF BookedIffConverted, Confirm, CanConvert, UnitsOf, TypeOK
<1>9. QED
  BY <1>5, <1>6, <1>7, <1>8

LEMMA SettleIInv ==
  ASSUME IInv, NEW r \in Res, NEW target \in Settled \ {"converted"},
         ReleaseAndSettle(r, target),
         overdue_ids' \in [Sweeper -> SUBSET Res],
         UNCHANGED <<now, hold_expiry_at, booking_lines, sold_direct,
                     total_units, sold, out_of_service, crashes>>
  PROVE  IInv'
<1> USE DEF IInv
<1>1. /\ status[r] \in Unsettled
      /\ status' = [status EXCEPT ![r] = target]
      /\ reserved' = [s \in Slot |-> reserved[s] - Lesser(Demand(r, s), reserved[s])]
  BY DEF ReleaseAndSettle, ReleaseHold
<1>2. \A s \in Slot : Demand(r, s) \in Nat
  BY DemandType
<1>3. ASSUME NEW s \in Slot
      PROVE  /\ Demand(r, s) =< reserved[s]
             /\ Cardinality(HeldUnits(s)') = reserved[s] - Demand(r, s)
  BY <1>1, HeldShrinks DEF LedgerMatches
<1>4. ASSUME NEW s \in Slot
      PROVE  reserved'[s] = reserved[s] - Demand(r, s)
  BY <1>1, <1>3 DEF Lesser
<1>5. TypeOK'
  <2>1. reserved' \in [Slot -> Nat]
    BY <1>1, <1>2, <1>3, <1>4 DEF TypeOK
  <2>2. status' \in [Res -> Status]
    BY <1>1 DEF TypeOK, Status
  <2>3. QED
    BY <2>1, <2>2 DEF TypeOK
<1>6. NoOversell'
  BY <1>2, <1>4 DEF NoOversell, TypeOK
<1>7. LedgerMatches'
  <2>1. ASSUME NEW s \in Slot
        PROVE  SoldUnits(s)' = SoldUnits(s)
    BY DEF SoldUnits
  <2>2. QED
    BY <1>3, <1>4, <2>1 DEF LedgerMatches
<1>8. BookedIffConverted'
  BY <1>1 DEF BookedIffConverted, TypeOK, Unsettled
<1>9. QED
  BY <1>5, <1>6, <1>7, <1>8

LEMMA SellDirectIInv ==
  ASSUME IInv, NEW c \in Sale, SellDirect(c)
  PROVE  IInv'
<1> USE DEF IInv
<1>1. \A s \in Slot : Demand(c, s) \in Nat /\ (s \notin Window(c) => Demand(c, s) = 0)
  BY DemandType
<1>2. TypeOK'
  BY <1>1 DEF TypeOK, SellDirect, sweepVars
<1>3. NoOversell'
  BY <1>1 DEF NoOversell, SellDirect, CanConsume, remaining, TypeOK
<1>4. LedgerMatches'
  <2> SUFFICES ASSUME NEW s \in Slot
               PROVE  /\ reserved'[s] = Cardinality(HeldUnits(s)')
                      /\ sold'[s] = Cardinality(SoldUnits(s)')
    BY DEF LedgerMatches
  <2>1. HeldUnits(s)' = HeldUnits(s)
    BY DEF HeldUnits, SellDirect
  <2>2. SoldUnits(s)' = SoldUnits(s) \cup Covering(c, s)
    BY DEF SoldUnits, Covering, SellDirect, UnitsOf
  <2>3. SoldUnits(s) \cap Covering(c, s) = {}
    BY DataAssumption DEF SoldUnits, Covering, UnitsOf, BookedIffConverted, SellDirect
  <2>4. Cardinality(SoldUnits(s)') = Cardinality(SoldUnits(s)) + Demand(c, s)
    BY <2>2, <2>3, CardinalityAdd, DemandType, UnitSetsFinite
  <2>5. QED
    BY <2>1, <2>4 DEF LedgerMatches, SellDirect
<1>5. BookedIffConverted'
  BY DEF BookedIffConverted, SellDirect
<1>6. QED
  BY <1>2, <1>3, <1>4, <1>5

(* Steps that touch neither a counter nor a status nor a sale.             *)
LEMMA ClaimsUnchanged ==
  ASSUME IInv, UNCHANGED <<status, booking_lines, sold_direct, sold, reserved>>
  PROVE  LedgerMatches' /\ BookedIffConverted'
<1>1. ASSUME NEW s \in Slot
      PROVE  HeldUnits(s)' = HeldUnits(s) /\ SoldUnits(s)' = SoldUnits(s)
  BY DEF HeldUnits, SoldUnits
<1>2. QED
  BY <1>1 DEF IInv, LedgerMatches, BookedIffConverted

LEMMA InitializeHorizonIInv ==
  ASSUME IInv, NEW rt \in RoomType, NEW start \in Date, InitializeHorizon(rt, start)
  PROVE  IInv'
<1> USE DEF IInv
<1>1. \A s \in Slot : total_units'[s] \in Nat /\ total_units'[s] >= total_units[s]
  BY DataAssumption DEF InitializeHorizon, Initialized, TypeOK, Slot
<1>2. TypeOK'
  BY <1>1 DEF TypeOK, InitializeHorizon, sweepVars
<1>3. NoOversell'
  BY <1>1 DEF NoOversell, InitializeHorizon, TypeOK
<1>4. LedgerMatches' /\ BookedIffConverted'
  BY ClaimsUnchanged DEF InitializeHorizon
<1>5. QED
  BY <1>2, <1>3, <1>4

LEMMA AdjustOutOfServiceIInv ==
  ASSUME IInv, NEW rt \in RoomType, NEW first \in Date, NEW delta \in {-1, 1},
         AdjustOutOfService(rt, first, delta)
  PROVE  IInv'
<1> USE DEF IInv
<1>1. \A s \in Slot : \/ out_of_service'[s] = out_of_service[s]
                      \/ /\ out_of_service'[s] \in Nat
                         /\ sold[s] + reserved[s] + out_of_service'[s] =< total_units[s]
  BY DEF AdjustOutOfService, RowConstraints, TypeOK
<1>2. TypeOK'
  BY <1>1 DEF TypeOK, AdjustOutOfService, sweepVars
<1>3. NoOversell'
  BY <1>1 DEF NoOversell, AdjustOutOfService
<1>4. LedgerMatches' /\ BookedIffConverted'
  BY ClaimsUnchanged DEF AdjustOutOfService
<1>5. QED
  BY <1>2, <1>3, <1>4

(* The clock and the sweep's bookkeeping. *)
LEMMA QuietIInv ==
  ASSUME IInv, now' \in Nat, overdue_ids' \in [Sweeper -> SUBSET Res],
         crashes' \in 0..MaxCrashes,
         UNCHANGED <<status, hold_expiry_at, booking_lines, sold_direct, slotVars>>
  PROVE  IInv'
<1> USE DEF IInv
<1>1. TypeOK'
  BY DEF TypeOK, slotVars
<1>2. NoOversell'
  BY DEF NoOversell, slotVars
<1>3. LedgerMatches' /\ BookedIffConverted'
  BY ClaimsUnchanged DEF slotVars
<1>4. QED
  BY <1>1, <1>2, <1>3

LEMMA SweepExpireIInv ==
  ASSUME IInv, NEW w \in Sweeper, SweepExpire(w)
  PROVE  IInv'
<1>1. PICK r \in overdue_ids[w] :
        /\ Expire(r)
        /\ overdue_ids' = [overdue_ids EXCEPT ![w] = @ \ {r}]
        /\ UNCHANGED <<now, hold_expiry_at, booking_lines, sold_direct,
                       total_units, sold, out_of_service, crashes>>
  BY DEF SweepExpire
<1>2. r \in Res /\ overdue_ids' \in [Sweeper -> SUBSET Res]
  BY <1>1 DEF IInv, TypeOK
<1>3. CASE ReleaseAndSettle(r, "expired")
  BY <1>1, <1>2, <1>3, SettleIInv DEF Settled
<1>4. CASE UNCHANGED <<status, reserved>>
  BY <1>1, <1>2, <1>4, QuietIInv DEF IInv, TypeOK, slotVars
<1>5. QED
  BY <1>1, <1>3, <1>4 DEF Expire

LEMMA NextIInv ==
  ASSUME IInv, [Next]_vars
  PROVE  IInv'
<1> USE DEF IInv
<1>1. CASE Tick
  BY <1>1, QuietIInv DEF Tick, TypeOK, sweepVars
<1>2. ASSUME NEW rt \in RoomType, NEW d \in Date, InitializeHorizon(rt, d)
      PROVE  IInv'
  BY <1>2, InitializeHorizonIInv
<1>3. ASSUME NEW rt \in RoomType, NEW d \in Date, NEW delta \in {-1, 1},
             AdjustOutOfService(rt, d, delta)
      PROVE  IInv'
  BY <1>3, AdjustOutOfServiceIInv
<1>4. ASSUME NEW r \in Res, Reserve(r) \/ RequestPayment(r) \/ Confirm(r)
      PROVE  IInv'
  BY <1>4, ReserveIInv, RequestPaymentIInv, ConfirmIInv
<1>5. ASSUME NEW r \in Res, Cancel(r)
      PROVE  IInv'
  BY <1>5, SettleIInv DEF Cancel, Settled, sweepVars, TypeOK
<1>6. ASSUME NEW c \in Sale, SellDirect(c)
      PROVE  IInv'
  BY <1>6, SellDirectIInv
<1>7. ASSUME NEW w \in Sweeper, SweepRead(w)
      PROVE  IInv'
  BY <1>7, QuietIInv DEF SweepRead, overdue_holds, TypeOK
<1>8. ASSUME NEW w \in Sweeper, SweepExpire(w)
      PROVE  IInv'
  BY <1>8, SweepExpireIInv
<1>9. ASSUME NEW w \in Sweeper, SweepCrash(w)
      PROVE  IInv'
  <2>1. crashes' \in 0..MaxCrashes
    BY <1>9, BoundsAssumption DEF SweepCrash, TypeOK
  <2>2. QED
    BY <1>9, <2>1, QuietIInv DEF SweepCrash, TypeOK
<1>10. CASE UNCHANGED vars
  BY <1>10, QuietIInv DEF vars, sweepVars, TypeOK
<1>11. QED
  BY <1>1, <1>2, <1>3, <1>4, <1>5, <1>6, <1>7, <1>8, <1>9, <1>10 DEF Next

-----------------------------------------------------------------------------
(* Every reachable state satisfies the inductive invariant.                *)
THEOREM Invariance == Spec => []IInv
<1>1. Init => IInv
  BY InitIInv
<1>2. IInv /\ [Next]_vars => IInv'
  BY NextIInv
<1>3. QED
  BY <1>1, <1>2, PTL DEF Spec

(* Type correctness: no counter ever goes below zero.                      *)
THEOREM TypeCorrect == Spec => []TypeOK
<1>1. IInv => TypeOK
  BY DEF IInv
<1>2. QED
  BY <1>1, Invariance, PTL

(* No night is sold beyond its capacity, whatever is reserved, confirmed,  *)
(* cancelled, expired, sold at the desk or taken out of service, in        *)
(* whatever order (repository.py: lock, check, write).                     *)
THEOREM NeverOversold == Spec => []NoOversell
<1>1. IInv => NoOversell
  BY DEF IInv
<1>2. QED
  BY <1>1, Invariance, PTL

(* The counters of every slot are exactly the rooms held by unsettled      *)
(* reservations and sold to bookings and direct sales.                     *)
THEOREM LedgerExact == Spec => []LedgerMatches
<1>1. IInv => LedgerMatches
  BY DEF IInv
<1>2. QED
  BY <1>1, Invariance, PTL

(* confirm() books every unit of the reservation or none.                  *)
THEOREM BookingsExact == Spec => []BookedIffConverted
<1>1. IInv => BookedIffConverted
  BY DEF IInv
<1>2. QED
  BY <1>1, Invariance, PTL

-----------------------------------------------------------------------------
(* A settled reservation never changes again: every action that moves a    *)
(* status starts from one that is not settled.                             *)
THEOREM SettledForever == Spec => SettledIsFinal
<1>1. ASSUME TypeOK, [Next]_vars, NEW r \in Res, status[r] \in Settled
      PROVE  status'[r] = status[r]
  <2>1. ASSUME NEW q \in Res, NEW target, status[q] \notin Settled,
               status' = [status EXCEPT ![q] = target]
        PROVE  status'[r] = status[r]
    BY <1>1, <2>1 DEF TypeOK
  <2>2. ASSUME NEW q \in Res, NEW target, ReleaseAndSettle(q, target)
        PROVE  status'[r] = status[r]
    BY <2>1, <2>2 DEF ReleaseAndSettle, Settled, Unsettled
  <2>3. ASSUME NEW q \in Res, Reserve(q) \/ RequestPayment(q) \/ Confirm(q)
        PROVE  status'[r] = status[r]
    BY <2>1, <2>3 DEF Reserve, RequestPayment, Confirm, CanConvert, Settled
  <2>4. ASSUME NEW w \in Sweeper, SweepExpire(w)
        PROVE  status'[r] = status[r]
    BY <1>1, <2>2, <2>4 DEF SweepExpire, Expire, TypeOK
  <2>5. QED
    BY <1>1, <2>2, <2>3, <2>4
       DEF Next, vars, Tick, InitializeHorizon, AdjustOutOfService, Cancel, SellDirect,
           SweepRead, SweepCrash
<1>2. TypeOK /\ [Next]_vars
        => [\A r \in Res : status[r] \in Settled => status'[r] = status[r]]_vars
  BY <1>1
<1>3. QED
  BY <1>2, TypeCorrect, PTL DEF Spec, SettledIsFinal

(* The list a sweep run carries is never too long: whatever happened since *)
(* it was read, each reservation on it has run out of time.                *)
SweepListsOverdue ==
  \A w \in Sweeper : \A r \in overdue_ids[w] : status[r] # "none" /\ hold_expiry_at[r] < now

LEMMA SweepListsOverdueNext ==
  ASSUME TypeOK, SweepListsOverdue, [Next]_vars
  PROVE  SweepListsOverdue'
<1> USE DEF SweepListsOverdue
<1>1. CASE Tick
  BY <1>1 DEF Tick, TypeOK, sweepVars
<1>2. ASSUME NEW r \in Res, Reserve(r)
      PROVE  SweepListsOverdue'
  BY <1>2 DEF Reserve, TypeOK, sweepVars
<1>3. ASSUME NEW r \in Res, RequestPayment(r) \/ Confirm(r) \/ Cancel(r)
      PROVE  SweepListsOverdue'
  BY <1>3 DEF RequestPayment, Confirm, Cancel, ReleaseAndSettle, TypeOK, sweepVars
<1>4. ASSUME NEW w \in Sweeper, SweepRead(w)
      PROVE  SweepListsOverdue'
  BY <1>4 DEF SweepRead, overdue_holds, HoldExpired, Unsettled, TypeOK
<1>5. ASSUME NEW w \in Sweeper, SweepExpire(w)
      PROVE  SweepListsOverdue'
  <2>1. PICK r \in overdue_ids[w] :
          /\ Expire(r)
          /\ overdue_ids' = [overdue_ids EXCEPT ![w] = @ \ {r}]
          /\ UNCHANGED <<now, hold_expiry_at>>
    BY <1>5 DEF SweepExpire
  <2>2. ASSUME NEW q \in Res, status[q] # "none"
        PROVE  status'[q] # "none"
    BY <2>1, <2>2 DEF Expire, ReleaseAndSettle, TypeOK
  <2>3. QED
    BY <2>1, <2>2 DEF TypeOK
<1>6. ASSUME NEW w \in Sweeper, SweepCrash(w)
      PROVE  SweepListsOverdue'
  BY <1>6 DEF SweepCrash, TypeOK
<1>7. QED
  BY <1>1, <1>2, <1>3, <1>4, <1>5, <1>6
     DEF Next, vars, InitializeHorizon, AdjustOutOfService, SellDirect, sweepVars

(* A hold expires only when its time has passed, although expire() does    *)
(* not look at the clock (reservations/services.py:213-227, tasks.py:20).  *)
THEOREM ExpiryNeverEarly == Spec => NeverExpiredEarly
<1>1. Init => SweepListsOverdue
  BY DEF Init, SweepListsOverdue
<1>2. ASSUME TypeOK, SweepListsOverdue, [Next]_vars,
             NEW r \in Res, status[r] # "expired", status'[r] = "expired"
      PROVE  HoldExpired(r)
  <2>1. PICK w \in Sweeper : SweepExpire(w)
    BY <1>2 DEF Next, vars, Tick, InitializeHorizon, AdjustOutOfService, SellDirect, Reserve,
                RequestPayment, Confirm, Cancel, ReleaseAndSettle, SweepRead, SweepCrash, TypeOK
  <2>2. PICK q \in overdue_ids[w] : Expire(q)
    BY <2>1 DEF SweepExpire
  <2>3. q = r /\ status[r] \in Unsettled
    BY <1>2, <2>2 DEF Expire, ReleaseAndSettle, TypeOK
  <2>4. QED
    BY <1>2, <2>2, <2>3 DEF SweepListsOverdue, HoldExpired
<1>3. TypeOK /\ SweepListsOverdue /\ [Next]_vars => SweepListsOverdue'
  BY SweepListsOverdueNext
<1>4. TypeOK /\ SweepListsOverdue /\ [Next]_vars
        => [\A r \in Res : status[r] # "expired" /\ status'[r] = "expired" => HoldExpired(r)]_vars
  BY <1>2
<1>5. QED
  BY <1>1, <1>3, <1>4, TypeCorrect, PTL DEF Spec, NeverExpiredEarly

-----------------------------------------------------------------------------
(* The instance's own copy of Cardinality is the same operator.            *)
LEMMA LedgerCardinality ==
  ASSUME NEW S
  PROVE  Ledger!Cardinality(S) = Cardinality(S)
BY DEF Ledger!Cardinality, Cardinality

(* The capacity the ledger promises is the one the counters guard.         *)
LEMMA CountersWithinCapacity ==
  ASSUME IInv
  PROVE  Ledger!WithinCapacity
<1> SUFFICES ASSUME NEW s \in Slot
             PROVE  Cardinality(Ledger!Claimed(s)) + out_of_service[s] =< total_units[s]
  BY LedgerCardinality DEF Ledger!WithinCapacity
<1>1. Ledger!Claimed(s) = HeldUnits(s) \cup SoldUnits(s)
  BY DataAssumption
     DEF Ledger!Claimed, HeldUnits, SoldUnits, ClaimOf, IInv, BookedIffConverted, TypeOK,
         Claimant, Unsettled, Status, Settled
<1>2. HeldUnits(s) \cap SoldUnits(s) = {}
  BY DataAssumption
     DEF HeldUnits, SoldUnits, IInv, BookedIffConverted, TypeOK, Unsettled
<1>3. Cardinality(Ledger!Claimed(s)) = Cardinality(HeldUnits(s)) + Cardinality(SoldUnits(s))
  BY <1>1, <1>2, CardinalityAdd, UnitSetsFinite
<1>4. Cardinality(Ledger!Claimed(s)) = reserved[s] + sold[s]
  BY <1>3 DEF IInv, LedgerMatches
<1>5. QED
  BY <1>4 DEF IInv, NoOversell, TypeOK

LEMMA WithinCapacityNext == IInv' => Ledger!WithinCapacity'
<1>1. IInv => Ledger!WithinCapacity
  BY CountersWithinCapacity
<1>2. QED
  BY <1>1, PTL

LEMMA ClaimOfReservation ==
  ASSUME NEW r \in Res
  PROVE  /\ r \in Claimant
         /\ ClaimOf(r) = CASE status[r] = "none" -> "none"
                          [] status[r] \in Unsettled -> "held"
                          [] status[r] = "converted" -> "sold"
                          [] OTHER -> "released"
<1>1. r \notin Sale
  BY DataAssumption
<1>2. QED
  BY <1>1 DEF ClaimOf, Claimant

LEMMA ClaimOfSale ==
  ASSUME NEW c \in Sale
  PROVE  /\ c \in Claimant
         /\ ClaimOf(c) = IF c \in sold_direct THEN "sold" ELSE "none"
BY DEF ClaimOf, Claimant

(* A step in which only reservation r's phase changes, from p to q.        *)
LEMMA OnePhase ==
  ASSUME TypeOK, NEW r \in Res, NEW target \in Status,
         status' = [status EXCEPT ![r] = target], sold_direct' = sold_direct
  PROVE  [c \in Claimant |-> ClaimOf(c)]'
           = [[c \in Claimant |-> ClaimOf(c)] EXCEPT ![r] = ClaimOf(r)']
<1>1. ASSUME NEW c \in Claimant, c # r
      PROVE  ClaimOf(c)' = ClaimOf(c)
  <2>1. CASE c \in Sale
    BY <2>1 DEF ClaimOf
  <2>2. CASE c \in Res
    <3>1. status'[c] = status[c]
      BY <1>1, <2>2 DEF TypeOK
    <3>2. QED
      BY <2>2, <3>1 DEF ClaimOf
  <2>3. QED
    BY <1>1, <2>1, <2>2 DEF Claimant
<1>2. QED
  BY <1>1

(* Every service call is one step of the ledger, or none of its business.  *)
LEMMA StepRefines ==
  ASSUME IInv, IInv', [Next]_vars
  PROVE  [Ledger!Next]_(Ledger!ledgerVars)
<1> USE DEF Ledger!ledgerVars
<1>q. ASSUME UNCHANGED <<status, sold_direct, total_units, out_of_service>>
      PROVE  UNCHANGED Ledger!ledgerVars
  BY <1>q DEF ClaimOf
<1>1. ASSUME NEW r \in Res, Reserve(r)
      PROVE  Ledger!Hold(r)
  <2>1. [c \in Claimant |-> ClaimOf(c)]'
          = [[c \in Claimant |-> ClaimOf(c)] EXCEPT ![r] = "held"]
    BY <1>1, OnePhase, DataAssumption
       DEF IInv, TypeOK, Reserve, ClaimOf, Status, Unsettled, Claimant
  <2>2. ClaimOf(r) = "none" /\ r \in Claimant
    BY <1>1, ClaimOfReservation DEF Reserve, Unsettled
  <2>3. QED
    BY <1>1, WithinCapacityNext, <2>1, <2>2 DEF Ledger!Hold, Ledger!Take, Reserve
<1>2. ASSUME NEW r \in Res, RequestPayment(r)
      PROVE  UNCHANGED Ledger!ledgerVars
  <2>1. ClaimOf(r)' = ClaimOf(r)
    BY <1>2, DataAssumption DEF RequestPayment, ClaimOf, IInv, TypeOK, Unsettled
  <2>2. [c \in Claimant |-> ClaimOf(c)]' = [c \in Claimant |-> ClaimOf(c)]
    BY <1>2, <2>1, OnePhase DEF RequestPayment, IInv, Status, Unsettled
  <2>3. QED
    BY <1>2, <2>2 DEF RequestPayment, slotVars
<1>3. ASSUME NEW r \in Res, NEW target \in Settled, status[r] \in Unsettled,
             status' = [status EXCEPT ![r] = target],
             UNCHANGED <<sold_direct, total_units, out_of_service>>
      PROVE  Ledger!ConvertToSold(r) \/ Ledger!Release(r)
  <2>1. ClaimOf(r) = "held" /\ r \in Claimant /\ ClaimOf(r)' \in {"sold", "released"}
    BY <1>3, DataAssumption DEF ClaimOf, Claimant, Unsettled, Settled, IInv, TypeOK
  <2>2. [c \in Claimant |-> ClaimOf(c)]'
          = [[c \in Claimant |-> ClaimOf(c)] EXCEPT ![r] = ClaimOf(r)']
    BY <1>3, OnePhase DEF IInv, Status
  <2>3. QED
    BY <1>3, <2>1, <2>2 DEF Ledger!ConvertToSold, Ledger!Release, Ledger!Settle
<1>4. ASSUME NEW r \in Res, Confirm(r) \/ Cancel(r)
      PROVE  Ledger!ConvertToSold(r) \/ Ledger!Release(r)
  BY <1>3, <1>4 DEF Confirm, CanConvert, Cancel, ReleaseAndSettle, Settled, Unsettled
<1>5. ASSUME NEW w \in Sweeper, SweepExpire(w)
      PROVE  \/ \E r \in Res : Ledger!ConvertToSold(r) \/ Ledger!Release(r)
             \/ UNCHANGED Ledger!ledgerVars
  <2>1. PICK r \in Res : Expire(r) /\ UNCHANGED <<sold_direct, total_units, out_of_service>>
    BY <1>5 DEF SweepExpire, IInv, TypeOK
  <2>2. QED
    BY <1>3, <1>q, <2>1 DEF Expire, ReleaseAndSettle, Settled
<1>6. ASSUME NEW c \in Sale, SellDirect(c)
      PROVE  Ledger!SellDirect(c)
  <2>1. [x \in Claimant |-> ClaimOf(x)]'
          = [[x \in Claimant |-> ClaimOf(x)] EXCEPT ![c] = "sold"]
    <3>1. ClaimOf(c)' = "sold"
      BY <1>6, ClaimOfSale DEF SellDirect, ClaimOf
    <3>2. ASSUME NEW x \in Claimant, x # c
          PROVE  ClaimOf(x)' = ClaimOf(x)
      BY <1>6, <3>2 DEF SellDirect, ClaimOf
    <3>3. QED
      BY <3>1, <3>2
  <2>2. ClaimOf(c) = "none" /\ c \in Claimant
    BY <1>6, ClaimOfSale DEF SellDirect
  <2>3. QED
    BY <1>6, WithinCapacityNext, <2>1, <2>2 DEF Ledger!SellDirect, Ledger!Take, SellDirect
<1>7. ASSUME NEW rt \in RoomType, NEW d \in Date, InitializeHorizon(rt, d)
      PROVE  Ledger!Open
  BY <1>7 DEF Ledger!Open, InitializeHorizon, Initialized, IInv, TypeOK, ClaimOf
<1>8. ASSUME NEW rt \in RoomType, NEW d \in Date, NEW delta \in {-1, 1},
             AdjustOutOfService(rt, d, delta)
      PROVE  Ledger!Withdraw
  BY <1>8, WithinCapacityNext DEF Ledger!Withdraw, AdjustOutOfService, IInv, TypeOK, ClaimOf
<1>9. CASE Tick \/ (\E w \in Sweeper : SweepRead(w) \/ SweepCrash(w)) \/ UNCHANGED vars
  BY <1>9, <1>q DEF Tick, SweepRead, SweepCrash, vars, slotVars
<1>10. QED
  BY <1>1, <1>2, <1>4, <1>5, <1>6, <1>7, <1>8, <1>9 DEF Next, Ledger!Next, Claimant

(* The services implement the ledger's promise: every claim is held at     *)
(* once or not at all, settled once, and within capacity.                  *)
THEOREM ImplementsLedger == Spec => LedgerSpec
<1>1. Init => Ledger!Init
  <2> SUFFICES ASSUME Init PROVE Ledger!Init
    OBVIOUS
  <2>1. ASSUME NEW c \in Claimant
        PROVE  ClaimOf(c) = "none"
    <3>1. CASE c \in Sale
      BY <3>1, ClaimOfSale DEF Init
    <3>2. CASE c \in Res
      BY <3>2, ClaimOfReservation DEF Init, Unsettled
    <3>3. QED
      BY <3>1, <3>2 DEF Claimant
  <2>2. QED
    BY <2>1 DEF Init, Ledger!Init
<1>2. IInv /\ IInv' /\ [Next]_vars => [Ledger!Next]_(Ledger!ledgerVars)
  BY StepRefines
<1>3. QED
  BY <1>1, <1>2, Invariance, PTL DEF Spec, Ledger!Spec, LedgerSpec
=============================================================================
