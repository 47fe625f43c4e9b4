---------------------------- MODULE EventDelivery ----------------------------
(***************************************************************************)
(* What a consumer of the event log may rely on: it is handed only events  *)
(* that happened, each at most once, and in the order of their times.      *)
(***************************************************************************)
EXTENDS Naturals, Sequences

CONSTANT Event   \* events, numbered in the order of their times

VARIABLES
  recorded,   \* events whose change was committed
  delivered   \* what the consumer has folded, in its order

vars == <<recorded, delivered>>

Init == recorded = {} /\ delivered = <<>>

Record(e) ==
  /\ e \notin recorded
  /\ recorded' = recorded \cup {e}
  /\ UNCHANGED delivered

Deliver(e) ==
  /\ e \in recorded
  /\ \A i \in DOMAIN delivered : delivered[i] < e
  /\ delivered' = Append(delivered, e)
  /\ UNCHANGED recorded

Next == \E e \in Event : Record(e) \/ Deliver(e)

Spec == Init /\ [][Next]_vars
=============================================================================
