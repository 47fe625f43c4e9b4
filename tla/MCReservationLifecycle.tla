----------------------- MODULE MCReservationLifecycle -----------------------
(* A family wants two standard rooms for two nights; a couple wants the     *)
(* suite for both nights and a standard room for the second (two lines);    *)
(* the front desk sells one standard room for the first night.  There are   *)
(* three standard rooms and one suite: all three claims fit, and no longer  *)
(* do once a standard room is out of service.                               *)
EXTENDS ReservationLifecycle, TLC

CONSTANTS standard, suite, family, couple, desk

MCTotalUnits == (standard :> 3) @@ (suite :> 1)

(* <<claimant, line number, room of the line>> *)
MCNights ==
  LET both(rt) == {<<rt, 1>>, <<rt, 2>>}
  IN (<<family, 1, 1>> :> both(standard)) @@ (<<family, 1, 2>> :> both(standard))
     @@ (<<couple, 1, 1>> :> both(suite)) @@ (<<couple, 2, 1>> :> {<<standard, 2>>})
     @@ (<<desk, 1, 1>> :> {<<standard, 1>>})

MCUnit == DOMAIN MCNights

MCOwner == [u \in MCUnit |-> u[1]]
=============================================================================
