-------------------------- MODULE MCTwoLockOrders ---------------------------
(* The reservations of MultiLine and those of OneLine, beside each other.   *)
(* They share no row and no connection, so a behaviour of both is, part by  *)
(* part, a behaviour of one while the other rests: one part is chosen at    *)
(* the start and runs alone.                                                *)
EXTENDS MCReservationLocks

CONSTANTS
  WindowSlot,     \* <<room type, night>>
  WindowLines,    \* [Key -> one line each]
  WindowCapacity

(* A line asks for the nights of its stay, earliest first.                  *)
ASSUME WindowAssumption ==
  /\ \A s \in WindowSlot : s[2] \in Nat
  /\ \A k \in Key :
       /\ Len(WindowLines[k]) = 1
       /\ LET slots == WindowLines[k][1].slots
          IN  /\ slots \in Seq(WindowSlot) /\ slots # <<>>
              /\ \A i, j \in DOMAIN slots : i < j => slots[i][2] < slots[j][2]

VARIABLES
  part,
  one_now, one_status, one_request, one_hold_expiry_at, one_slot, one_held_by, one_txn,
  one_overdue_ids

OneWindow ==
  INSTANCE ReservationLocks WITH
    Slot <- WindowSlot, Lines <- WindowLines, Capacity <- WindowCapacity,
    now <- one_now, status <- one_status, request <- one_request,
    hold_expiry_at <- one_hold_expiry_at, slot <- one_slot, held_by <- one_held_by,
    txn <- one_txn, overdue_ids <- one_overdue_ids

oneVars ==
  <<one_now, one_status, one_request, one_hold_expiry_at, one_slot, one_held_by, one_txn,
    one_overdue_ids>>

BothInit == part \in {"multi_line", "one_window"} /\ Init /\ OneWindow!Init

BothNext ==
  /\ part' = part
  /\ \/ part = "multi_line" /\ Next /\ UNCHANGED oneVars
     \/ part = "one_window" /\ OneWindow!Next /\ UNCHANGED vars

BothSpec == BothInit /\ [][BothNext]_<<part, vars, oneVars>>

(* No lock cycle among reservations of one line each, whose windows overlap *)
(* (repository.py:14, "deterministic lock ordering").                       *)
OneWindowNoDeadlock == OneWindow!NoDeadlock
=============================================================================
