------------------------- MODULE MCReservationLocks -------------------------
(* MultiLine: one night, two reservations over both room types; the         *)
(* family's lists the standard rooms first, the couple's the suite first.   *)
(* There is room for both, so that settling one may touch the other's hold. *)
(* OneLine: windows of one room type that share two nights, and one room    *)
(* too few for both.                                                        *)
EXTENDS ReservationLocks, TLC

CONSTANTS standard, suite, family, couple

line(rt, nights, quantity) ==
  [slots |-> [n \in 1..Len(nights) |-> <<rt, nights[n]>>], quantity |-> quantity]

MultiLine ==
  (family :> <<line(standard, <<1>>, 2), line(suite, <<1>>, 1)>>)
  @@ (couple :> <<line(suite, <<1>>, 1), line(standard, <<1>>, 1)>>)

MultiCapacity == (<<standard, 1>> :> 3) @@ (<<suite, 1>> :> 2)

MultiSlot == {<<standard, 1>>, <<suite, 1>>}

OneLine ==
  (family :> <<line(standard, <<1, 2, 3>>, 1)>>) @@ (couple :> <<line(standard, <<2, 3>>, 2)>>)

OneSlot == {<<standard, 1>>, <<standard, 2>>, <<standard, 3>>}

OneCapacity == [s \in OneSlot |-> 2]
=============================================================================
