-------------------------- MODULE MCRoomOperations --------------------------
(* Two rooms of one type; the first line's guest comes back with the third. *)
EXTENDS RoomOperations, TLC

CONSTANTS c1, c2, c3, arrival, walk_in, return_stay, late_arrival, regular

AllEligible == [l \in Line |-> Room]

RegularGuest == [l \in Line |-> IF l \in {arrival, return_stay} THEN regular ELSE NoGuest]

ConnSymmetry == Permutations(Conn)
=============================================================================
