-------------------------- MODULE MCRoomsContended --------------------------
(* Two rooms and their staff over two days, and beside them two rooms that  *)
(* four lines want on one day, one of them the second stay of a guest who   *)
(* then prefers another room than the others.  The two share nothing, so a  *)
(* behaviour of both is, part by part, a behaviour of one while the other   *)
(* rests: one part is chosen at the start and runs alone.                   *)
EXTENDS MCRoomOperations

CONSTANTS Contender

ASSUME ContendedAssumption == NoLine \notin Contender

VARIABLES
  part,
  day, wanted_status, wanted_room, offered_state, offered_version, offered_line,
  turn_status, turn_version, turn_line, turn_verdict, row_held_by, row_txn

Contended ==
  INSTANCE RoomOperations WITH
    Line <- Contender, Eligible <- [l \in Contender |-> Room],
    Guest <- [l \in Contender |-> IF l \in {arrival, return_stay} THEN regular ELSE NoGuest],
    StaffOp <- {}, MaxDay <- 0, MaxVersion <- 0,
    today <- day, line_status <- wanted_status, line_room <- wanted_room,
    room_state <- offered_state, room_version <- offered_version, current_line <- offered_line,
    task_status <- turn_status, task_version <- turn_version, task_line <- turn_line,
    verdict <- turn_verdict, held_by <- row_held_by, txn <- row_txn

staffVars ==
  <<today, line_status, line_room, room_state, room_version, current_line,
    task_status, task_version, task_line, verdict, held_by, txn>>
contendedVars ==
  <<day, wanted_status, wanted_room, offered_state, offered_version, offered_line,
    turn_status, turn_version, turn_line, turn_verdict, row_held_by, row_txn>>

BothInit == part \in {"staff", "contended"} /\ Init /\ Contended!Init

BothNext ==
  /\ part' = part
  /\ \/ part = "staff" /\ Next /\ UNCHANGED contendedVars
     \/ part = "contended" /\ Contended!Next /\ UNCHANGED staffVars

BothSpec == BothInit /\ [][BothNext]_<<part, staffVars, contendedVars>>

(* No lock cycle among the requests for rooms, whoever prefers which. *)
ContendedNoDeadlock == Contended!NoDeadlock
=============================================================================
