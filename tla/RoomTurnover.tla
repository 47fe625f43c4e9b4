---------------------------- MODULE RoomTurnover ----------------------------
(***************************************************************************)
(* What the front desk and housekeeping promise about the rooms, without   *)
(* transactions, locks, versions or task rows: a room goes round the cycle *)
(* ready - occupied - dirty - cleaning - inspected, has a guest exactly    *)
(* while it is occupied, and a line stays once, in one room.               *)
(***************************************************************************)
CONSTANTS Room, Line, NoLine

VARIABLES
  phase,    \* [Room -> Phase]
  guest,    \* [Room -> Line \cup {NoLine}]: who has the room
  departed  \* lines that have stayed

vars == <<phase, guest, departed>>

Phase == {"ready", "occupied", "dirty", "cleaning", "inspected", "out_of_service"}

Init ==
  /\ phase = [r \in Room |-> "ready"]
  /\ guest = [r \in Room |-> NoLine]
  /\ departed = {}

Move(r, from, to) == phase[r] = from /\ phase' = [phase EXCEPT ![r] = to]

CheckIn(l, r) ==
  /\ Move(r, "ready", "occupied")
  /\ l \notin departed
  /\ \A other \in Room : guest[other] # l
  /\ guest' = [guest EXCEPT ![r] = l]
  /\ UNCHANGED departed

CheckOut(r) ==
  /\ Move(r, "occupied", "dirty")
  /\ departed' = departed \cup {guest[r]}
  /\ guest' = [guest EXCEPT ![r] = NoLine]

(* What happens to a room that nobody has. *)
Turn(r) ==
  /\ \/ Move(r, "dirty", "cleaning")
     \/ Move(r, "cleaning", "inspected")
     \/ Move(r, "inspected", "ready")      \* the inspector approves
     \/ Move(r, "inspected", "cleaning")   \* or rejects
     \/ Move(r, "ready", "out_of_service")
     \/ Move(r, "out_of_service", "cleaning")
  /\ UNCHANGED <<guest, departed>>

Next == \E r \in Room : CheckOut(r) \/ Turn(r) \/ \E l \in Line : CheckIn(l, r)

Spec == Init /\ [][Next]_vars
=============================================================================
