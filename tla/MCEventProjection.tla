-------------------------- MODULE MCEventProjection --------------------------
(* EventProjection with interchangeable rooms and interchangeable relays. *)
EXTENDS EventProjection, TLC

Symmetry == Permutations(Room) \cup Permutations(Relay)
=============================================================================
