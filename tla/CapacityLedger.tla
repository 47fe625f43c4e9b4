--------------------------- MODULE CapacityLedger ---------------------------
(***************************************************************************)
(* What the availability ledger promises its callers, with no counters, no *)
(* rows and no transactions: every claimant (a reservation or a front-desk *)
(* sale) is in one phase, a unit counts against the nights it covers while *)
(* its claimant holds or owns it, and no night is ever claimed beyond its  *)
(* capacity.  The detailed modules implement this specification.           *)
(***************************************************************************)
EXTENDS Integers, FiniteSets

CONSTANTS
  Slot,       \* one (room type, business date) of the direct channel
  Unit,       \* one room of one line of one claimant
  Claimant,   \* reservations and direct sales
  Owner,      \* [Unit -> Claimant]
  Nights      \* [Unit -> SUBSET Slot]

VARIABLES
  claim,          \* [Claimant -> Phase]
  capacity,       \* [Slot -> Nat]; an unopened slot has capacity 0
  out_of_service  \* [Slot -> Nat]

ledgerVars == <<claim, capacity, out_of_service>>

Phase == {"none", "held", "sold", "released"}

UnitsOf(c) == {u \in Unit : Owner[u] = c}

Claimed(s) ==
  {u \in Unit : s \in Nights[u] /\ claim[Owner[u]] \in {"held", "sold"}}

(* The promise itself: what is claimed on a night, and what is out of      *)
(* service, fits in that night's capacity.                                 *)
WithinCapacity ==
  \A s \in Slot : Cardinality(Claimed(s)) + out_of_service[s] =< capacity[s]

Init ==
  /\ claim = [c \in Claimant |-> "none"]
  /\ out_of_service = [s \in Slot |-> 0]
  /\ capacity \in [Slot -> Nat]

(* All or nothing: a claimant takes every night of every unit in one step. *)
Take(c, phase) ==
  /\ claim[c] = "none"
  /\ claim' = [claim EXCEPT ![c] = phase]
  /\ WithinCapacity'
  /\ UNCHANGED <<capacity, out_of_service>>

Hold(c) == Take(c, "held")

SellDirect(c) == Take(c, "sold")

Settle(c, phase) ==
  /\ claim[c] = "held"
  /\ claim' = [claim EXCEPT ![c] = phase]
  /\ UNCHANGED <<capacity, out_of_service>>

ConvertToSold(c) == Settle(c, "sold")

Release(c) == Settle(c, "released")

Open ==
  /\ capacity' \in [Slot -> Nat]
  /\ \A s \in Slot : capacity[s] # 0 => capacity'[s] = capacity[s]
  /\ UNCHANGED <<claim, out_of_service>>

Withdraw ==
  /\ out_of_service' \in [Slot -> Nat]
  /\ WithinCapacity'
  /\ UNCHANGED <<claim, capacity>>

Next ==
  \/ \E c \in Claimant : Hold(c) \/ SellDirect(c) \/ ConvertToSold(c) \/ Release(c)
  \/ Open
  \/ Withdraw

Spec == Init /\ [][Next]_ledgerVars
=============================================================================
