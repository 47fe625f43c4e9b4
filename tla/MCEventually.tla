---------------------------- MODULE MCEventually ----------------------------
(* What must come to an end: the transactions over the reservations of      *)
(* MultiLine, those over two rooms, and the deliveries of notification      *)
(* jobs.  They share nothing and one of them, chosen at the start, runs     *)
(* alone; the others have nothing under way, so their fairness asks for     *)
(* nothing.                                                                 *)
EXTENDS MCReservationLocks

CONSTANTS
  Courier, Dispatcher, Reaper, MAX_RETRIES, MaxEvent, MaxMessages, Nothing,  \* notifications
  Desk, Room, Line, regular, NoGuest, NoLine, NoRoom, NoTask                 \* rooms

VARIABLES
  part,
  log, late, checkpoint, withheld, run, job_status, version, retry_count, failures, successes,
  overdue, queue, worker, reaping, calls, accepted,
  today, line_status, line_room, room_state, room_version, current_line,
  task_status, task_version, task_line, verdict, room_held_by, room_txn

Notifications == INSTANCE NotificationDelivery WITH Worker <- Courier

(* Both lines are stays of one guest, for whom the rooms rank alike. *)
Rooms ==
  INSTANCE RoomOperations WITH
    Conn <- Desk, Eligible <- [l \in Line |-> Room], Guest <- [l \in Line |-> regular],
    StaffOp <- {}, MaxDay <- 0, MaxVersion <- 0, held_by <- room_held_by, txn <- room_txn

notificationVars ==
  <<log, late, checkpoint, withheld, run, job_status, version, retry_count, failures, successes,
    overdue, queue, worker, reaping, calls, accepted>>
roomVars ==
  <<today, line_status, line_room, room_state, room_version, current_line,
    task_status, task_version, task_line, verdict, room_held_by, room_txn>>

AllInit ==
  /\ part \in {"locks", "notifications", "rooms"}
  /\ Init /\ Notifications!Init /\ Rooms!Init

AllNext ==
  /\ part' = part
  /\ \/ part = "locks" /\ Next /\ UNCHANGED <<notificationVars, roomVars>>
     \/ part = "notifications" /\ Notifications!Next /\ UNCHANGED <<vars, roomVars>>
     \/ part = "rooms" /\ Rooms!Next /\ UNCHANGED <<vars, notificationVars>>

FairSpecs ==
  /\ AllInit /\ [][AllNext]_<<part, vars, notificationVars, roomVars>>
  /\ Fairness /\ Notifications!Fairness /\ Rooms!Fairness

(* No job stays in delivering for ever. *)
NoneStuck == Notifications!NoneStuck

(* Every request for a room ends. *)
RequestsEnd == Rooms!RequestsEnd
=============================================================================
