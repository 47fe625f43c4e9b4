--------------------------- MODULE RoomOperations ---------------------------
(***************************************************************************)
(* Check-in, check-out and housekeeping as database transactions (READ     *)
(* COMMITTED).  Two disciplines meet on the row of a room:                 *)
(*  - allocate_line() reads its candidates without a lock, then locks them *)
(*    one at a time (SELECT ... FOR UPDATE) and looks again;               *)
(*  - every other operation reads rooms and tasks without a lock and       *)
(*    writes them with UPDATE ... WHERE version = <as read>, which waits   *)
(*    for the row, and fails if the version has moved (VersionedMixin).    *)
(* A row that is locked or updated stays locked to the end of the request, *)
(* and what a transaction wrote becomes visible when it commits.           *)
(*                                                                         *)
(* The idempotency key of a call is inserted before anything else; calls   *)
(* with keys of their own never meet there, and a second call with the     *)
(* same key replays the first, so keys are left out.                       *)
(***************************************************************************)
EXTENDS Integers, FiniteSets, FiniteSetsExt

CONSTANTS
  Conn,        \* connections serving API requests
  Room,        \* ids of rooms
  Line,        \* booking lines, confirmed when the model starts
  Eligible,    \* [Line -> SUBSET Room]: of the line's property and room type
  Guest,       \* [Line -> guest profile or NoGuest]
  StaffOp,     \* transitions applied directly with RoomStateMachine.apply()
  MaxDay,      \* bound of the calendar
  MaxVersion,  \* bound of the direct operations on one room
  NoGuest, NoLine, NoRoom, NoTask, Nobody

Day == 0..MaxDay

(* hk_task_uq_room_date_kind: one departure task per room and business date *)
(* and departures are the only tasks there are, so this is the task's key.  *)
Task == Room \X Day

Record == ({"line"} \X Line) \cup ({"room"} \X Room) \cup ({"task", "inspection"} \X Task)

(* Room.operational_state: the declared transitions, [source, target]. *)
Transition ==
  [allocate          |-> <<"vacant_clean", "occupied_clean">>,
   checkout          |-> <<"occupied_clean", "vacant_dirty">>,
   clean             |-> <<"vacant_dirty", "cleaning">>,
   complete_cleaning |-> <<"cleaning", "inspected">>,
   approve           |-> <<"inspected", "vacant_clean">>,
   reject            |-> <<"inspected", "cleaning">>,
   service           |-> <<"occupied_clean", "occupied_dirty">>,
   service_complete  |-> <<"occupied_dirty", "occupied_clean">>,
   defect            |-> <<"vacant_clean", "out_of_service">>,
   maintenance       |-> <<"occupied_clean", "out_of_order">>,
   restore           |-> <<"out_of_service", "cleaning">>,
   restore_direct    |-> <<"out_of_order", "vacant_clean">>]

OperationalState == UNION {{Transition[n][1], Transition[n][2]} : n \in DOMAIN Transition}

ASSUME RoomsAssumption ==
  /\ Room \subseteq Nat
  /\ Eligible \in [Line -> SUBSET Room]
  /\ StaffOp \subseteq {"service", "service_complete", "defect", "maintenance",
                        "restore", "restore_direct"}
  /\ MaxDay \in Nat /\ MaxVersion \in Nat
  /\ NoLine \notin Line /\ NoRoom \notin Room /\ NoTask \notin Task /\ Nobody \notin Conn

VARIABLES
  today,
  line_status, line_room,                    \* BookingLine
  room_state, room_version, current_line,    \* Room
  task_status, task_version, task_line,      \* HousekeepingTask
  verdict,                                   \* Inspection
  held_by,  \* [Record -> Conn \cup {Nobody}]
  txn       \* [Conn -> the open transaction, or Idle]

lineVars == <<line_status, line_room>>
roomVars == <<room_state, room_version, current_line>>
taskVars == <<task_status, task_version, task_line, verdict>>
committedVars == <<today, lineVars, roomVars, taskVars>>
vars == <<committedVars, held_by, txn>>

TaskStatus == {"none", "planned", "assigned", "in_progress", "quality_check", "verified", "defect"}

(* The states a task may be in for an operation on it to start. *)
TaskSource ==
  [assign            |-> {"planned"},
   start_cleaning    |-> {"planned", "assigned"},
   complete_cleaning |-> {"in_progress"},
   inspect           |-> {"quality_check"}]

TaskOp == DOMAIN TaskSource

Idle == [op |-> "none"]

(* at: what the transaction does next.  seen_*: the versions its unlocked   *)
(* reads returned.  to_lock, vacant, known: candidates not yet locked,      *)
(* locked ones that were still vacant, and those that score 1.              *)
Txn ==
  [op : {"allocate", "check_out"} \cup TaskOp \cup StaffOp,
   at : {"line", "candidates", "inspection", "room", "task", "commit"},
   line : Line \cup {NoLine}, room : Room \cup {NoRoom}, task : Task \cup {NoTask},
   result : {"pass", "fail"},
   seen_version : Nat, seen_task_version : Nat,
   to_lock : SUBSET Room, vacant : SUBSET Room, known : SUBSET Room]

NewTxn == [op |-> "none", at |-> "line", line |-> NoLine, room |-> NoRoom, task |-> NoTask,
           result |-> "pass", seen_version |-> 0, seen_task_version |-> 0,
           to_lock |-> {}, vacant |-> {}, known |-> {}]

(* A definition whose name carries a suffix is the one it is named after    *)
(* with a slip in it, for the properties to catch; nothing else uses it.    *)
RoomTransition_AlwaysApproves(op, result) ==
  CASE op = "check_out" -> "checkout"
    [] op = "start_cleaning" -> "clean"
    [] op = "inspect" -> "approve"
    [] OTHER -> op

(* The room's transition an operation asks for; assign() asks for none. *)
RoomTransition(op, result) ==
  CASE op = "check_out" -> "checkout"
    [] op = "start_cleaning" -> "clean"
    [] op = "inspect" -> IF result = "pass" THEN "approve" ELSE "reject"
    [] OTHER -> op

Source(op, result) == Transition[RoomTransition(op, result)][1]
Target(op, result) == Transition[RoomTransition(op, result)][2]

TaskTarget_RoomState(op, result) ==
  CASE op = "assign" -> "assigned"
    [] op = "start_cleaning" -> "in_progress"
    [] op = "complete_cleaning" -> "inspected"
    [] op = "inspect" -> IF result = "pass" THEN "verified" ELSE "defect"

TaskTarget(op, result) ==
  CASE op = "assign" -> "assigned"
    [] op = "start_cleaning" -> "in_progress"
    [] op = "complete_cleaning" -> "quality_check"
    [] op = "inspect" -> IF result = "pass" THEN "verified" ELSE "defect"

-----------------------------------------------------------------------------
Init ==
  /\ today = 0
  /\ line_status = [l \in Line |-> "confirmed"]
  /\ line_room = [l \in Line |-> NoRoom]
  /\ room_state = [r \in Room |-> "vacant_clean"]
  /\ room_version = [r \in Room |-> 0]
  /\ current_line = [r \in Room |-> NoLine]
  /\ task_status = [k \in Task |-> "none"]
  /\ task_version = [k \in Task |-> 0]
  /\ task_line = [k \in Task |-> NoLine]
  /\ verdict = [k \in Task |-> "none"]
  /\ held_by = [x \in Record |-> Nobody]
  /\ txn = [c \in Conn |-> Idle]

NewDay ==
  /\ today < MaxDay
  /\ today' = today + 1
  /\ UNCHANGED <<lineVars, roomVars, taskVars, held_by, txn>>

Free(c, x) == held_by[x] \in {Nobody, c}

Unlock(c) == held_by' = [x \in Record |-> IF held_by[x] = c THEN Nobody ELSE held_by[x]]

Rollback_KeepsLocks(c) ==
  /\ txn' = [txn EXCEPT ![c] = Idle]
  /\ UNCHANGED <<committedVars, held_by>>

(* The call raises, or the connection is lost: nothing of it remains. *)
Rollback(c) ==
  /\ Unlock(c)
  /\ txn' = [txn EXCEPT ![c] = Idle]
  /\ UNCHANGED committedVars

(* The transaction gets the row and goes on as t. *)
Advance(c, x, t) ==
  /\ held_by' = [held_by EXCEPT ![x] = c]
  /\ txn' = [txn EXCEPT ![c] = t]
  /\ UNCHANGED committedVars

Begin(c, t) ==
  /\ txn[c] = Idle
  /\ txn' = [txn EXCEPT ![c] = t]
  /\ UNCHANGED <<committedVars, held_by>>

BeginLine(c, op, l) == Begin(c, [NewTxn EXCEPT !.op = op, !.line = l])

-----------------------------------------------------------------------------
(* Allocation.                                                              *)

(* Rooms the guest has had before; they score 1, all others 0. *)
StayContinuity(l) ==
  IF Guest[l] = NoGuest THEN {}
  ELSE {line_room[m] : m \in {m \in Line \ {l} : Guest[m] = Guest[l]}}

vacant_clean_candidates(l) == {r \in Eligible[l] : room_state[r] = "vacant_clean"}

LockLineAndScore_AnyLine(c) ==
  LET t == txn[c]
      candidates == vacant_clean_candidates(t.line)
  IN /\ t.op = "allocate" /\ t.at = "line"
     /\ Free(c, <<"line", t.line>>)
     /\ Advance(c, <<"line", t.line>>,
                [t EXCEPT !.at = "candidates", !.to_lock = candidates,
                          !.known = candidates \cap StayContinuity(t.line)])

(* The row of the line, and the unlocked reads that follow: candidates and  *)
(* scores.  Nobody who lacks the lock can tell the statements apart.        *)
LockLineAndScore(c) ==
  LET t == txn[c]
      candidates == vacant_clean_candidates(t.line)
  IN /\ t.op = "allocate" /\ t.at = "line"
     /\ Free(c, <<"line", t.line>>)
     /\ IF line_status[t.line] = "confirmed" /\ line_room[t.line] = NoRoom
          THEN Advance(c, <<"line", t.line>>,
                       [t EXCEPT !.at = "candidates", !.to_lock = candidates,
                                 !.known = candidates \cap StayContinuity(t.line)])
          ELSE Rollback(c)

NextCandidate_BestFirst(t) ==
  Min(IF t.to_lock \cap t.known # {} THEN t.to_lock \cap t.known ELSE t.to_lock)

(* Candidates are locked by ascending id, the same for every guest. *)
NextCandidate(t) == Min(t.to_lock)

StillVacant_AsScored(r) == TRUE

StillVacant(r) == room_state[r] = "vacant_clean"

LockCandidate(c) ==
  LET t == txn[c]
      r == NextCandidate(t)
  IN /\ t.op = "allocate" /\ t.at = "candidates" /\ t.to_lock # {}
     /\ Free(c, <<"room", r>>)
     /\ Advance(c, <<"room", r>>,
                [t EXCEPT !.to_lock = @ \ {r},
                          !.vacant = IF StillVacant(r) THEN @ \cup {r} ELSE @])

(* The best of the rooms found vacant: one the guest knows, else the lowest *)
(* id.  NoEligibleRoom if there is none.                                    *)
ChooseRoom(c) ==
  LET t == txn[c]
      preferred == t.vacant \cap t.known
  IN /\ t.op = "allocate" /\ t.at = "candidates" /\ t.to_lock = {}
     /\ IF t.vacant = {}
          THEN Rollback(c)
          ELSE /\ txn' = [txn EXCEPT ![c] = [t EXCEPT !.at = "commit",
                                !.room = Min(IF preferred # {} THEN preferred ELSE t.vacant)]]
               /\ UNCHANGED <<committedVars, held_by>>

-----------------------------------------------------------------------------
(* Check-out, housekeeping and direct transitions.                          *)

(* check_out_and_create_task(): the row of the line; then its room is read, *)
(* and must be in the state the transition starts from.                     *)
LockLineAndReadRoom(c) ==
  LET t == txn[c]
      r == line_room[t.line]
  IN /\ t.op = "check_out" /\ t.at = "line"
     /\ Free(c, <<"line", t.line>>)
     /\ IF line_status[t.line] = "checked_in" /\ room_state[r] = Source(t.op, t.result)
          THEN Advance(c, <<"line", t.line>>,
                       [t EXCEPT !.at = "room", !.room = r, !.seen_version = room_version[r]])
          ELSE Rollback(c)

(* An operation on a task reads task and room together, without a lock, and *)
(* goes on only if both are in the state it starts from.                    *)
ReadTask(c, op, k, result) ==
  LET r == k[1]
  IN /\ task_status[k] \in TaskSource[op]
     /\ op # "assign" => room_state[r] = Source(op, result)
     /\ Begin(c, [NewTxn EXCEPT
                    !.op = op, !.task = k, !.room = r, !.result = result,
                    !.at = CASE op = "assign" -> "task" [] op = "inspect" -> "inspection"
                             [] OTHER -> "room",
                    !.seen_version = room_version[r], !.seen_task_version = task_version[k]])

(* One verdict per task: a second one waits for the first, and fails if it  *)
(* was committed.                                                           *)
InsertInspection(c) ==
  LET t == txn[c]
  IN /\ t.op = "inspect" /\ t.at = "inspection"
     /\ Free(c, <<"inspection", t.task>>)
     /\ IF verdict[t.task] = "none"
          THEN Advance(c, <<"inspection", t.task>>, [t EXCEPT !.at = "room"])
          ELSE Rollback(c)

ReadRoom(c, op, r) ==
  /\ room_version[r] < MaxVersion
  /\ room_state[r] = Source(op, "pass")
  /\ Begin(c, [NewTxn EXCEPT !.op = op, !.at = "room", !.room = r,
                             !.seen_version = room_version[r]])

VersionMatches_Forced(version, seen) == TRUE

(* UPDATE ... WHERE version = seen: ConcurrencyError if no row matches. *)
VersionMatches(version, seen) == version = seen

UpdateRoom(c) ==
  LET t == txn[c]
  IN /\ t.at = "room"
     /\ Free(c, <<"room", t.room>>)
     /\ IF VersionMatches(room_version[t.room], t.seen_version)
          THEN Advance(c, <<"room", t.room>>,
                       [t EXCEPT !.at = IF t.op \in StaffOp THEN "commit" ELSE "task"])
          ELSE Rollback(c)

UpdateTask(c) ==
  LET t == txn[c]
  IN /\ t.op \in TaskOp /\ t.at = "task"
     /\ Free(c, <<"task", t.task>>)
     /\ IF VersionMatches(task_version[t.task], t.seen_task_version)
          THEN Advance(c, <<"task", t.task>>, [t EXCEPT !.at = "commit"])
          ELSE Rollback(c)

InsertTask_UpdateOrCreate(c) ==
  LET t == txn[c]
      k == <<t.room, today>>
  IN /\ t.op = "check_out" /\ t.at = "task"
     /\ Free(c, <<"task", k>>)
     /\ Advance(c, <<"task", k>>, [t EXCEPT !.at = "commit", !.task = k])

(* The departure task, for the day on which the insertion happens. *)
InsertTask(c) ==
  LET t == txn[c]
      k == <<t.room, today>>
  IN /\ t.op = "check_out" /\ t.at = "task"
     /\ Free(c, <<"task", k>>)
     /\ IF task_status[k] = "none"
          THEN Advance(c, <<"task", k>>, [t EXCEPT !.at = "commit", !.task = k])
          ELSE Rollback(c)

-----------------------------------------------------------------------------
(* All that a transaction wrote becomes visible, and its locks are freed.   *)

CommitRoom_ForgetsLine(t) ==
  IF t.op = "assign" THEN UNCHANGED roomVars
  ELSE /\ room_state' = [room_state EXCEPT ![t.room] = Target(t.op, t.result)]
       /\ room_version' = [room_version EXCEPT ![t.room] = @ + 1]
       /\ UNCHANGED current_line

CommitRoom(t) ==
  IF t.op = "assign" THEN UNCHANGED roomVars
  ELSE /\ room_state' = [room_state EXCEPT ![t.room] = Target(t.op, t.result)]
       /\ room_version' = [room_version EXCEPT ![t.room] = @ + 1]
       /\ current_line' = IF t.op = "allocate" THEN [current_line EXCEPT ![t.room] = t.line]
                          ELSE current_line

CommitLine(t) ==
  CASE t.op = "allocate" -> /\ line_status' = [line_status EXCEPT ![t.line] = "checked_in"]
                            /\ line_room' = [line_room EXCEPT ![t.line] = t.room]
    [] t.op = "check_out" -> /\ line_status' = [line_status EXCEPT ![t.line] = "checked_out"]
                             /\ UNCHANGED line_room
    [] OTHER -> UNCHANGED lineVars

CommitTask(t) ==
  CASE t.op = "check_out" -> /\ task_status' = [task_status EXCEPT ![t.task] = "planned"]
                             /\ task_line' = [task_line EXCEPT ![t.task] = t.line]
                             /\ UNCHANGED <<task_version, verdict>>
    [] t.op \in TaskOp ->
         /\ task_status' = [task_status EXCEPT ![t.task] = TaskTarget(t.op, t.result)]
         /\ task_version' = [task_version EXCEPT ![t.task] = @ + 1]
         /\ verdict' = IF t.op = "inspect" THEN [verdict EXCEPT ![t.task] = t.result] ELSE verdict
         /\ UNCHANGED task_line
    [] OTHER -> UNCHANGED taskVars

Commit(c) ==
  LET t == txn[c]
  IN /\ t # Idle /\ t.at = "commit"
     /\ CommitRoom(t) /\ CommitLine(t) /\ CommitTask(t)
     /\ Unlock(c)
     /\ txn' = [txn EXCEPT ![c] = Idle]
     /\ UNCHANGED today

ConnectionLost(c) == txn[c] # Idle /\ Rollback(c)

-----------------------------------------------------------------------------
Step(c) ==
  /\ txn[c] # Idle
  /\ \/ LockLineAndScore(c) \/ LockCandidate(c) \/ ChooseRoom(c)
     \/ LockLineAndReadRoom(c) \/ InsertInspection(c)
     \/ UpdateRoom(c) \/ UpdateTask(c) \/ InsertTask(c)
     \/ Commit(c)

Request(c) ==
  \/ \E l \in Line, op \in {"allocate", "check_out"} : BeginLine(c, op, l)
  \/ \E k \in Task, op \in TaskOp \ {"inspect"} : ReadTask(c, op, k, "pass")
  \/ \E k \in Task, result \in {"pass", "fail"} : ReadTask(c, "inspect", k, result)
  \/ \E r \in Room, op \in StaffOp : ReadRoom(c, op, r)

Next == NewDay \/ \E c \in Conn : Request(c) \/ Step(c) \/ ConnectionLost(c)

Spec == Init /\ [][Next]_vars

(* A connection that lives executes its next statement; PostgreSQL serves   *)
(* the waiters of a row in the order in which they came.                    *)
Fairness == \A c \in Conn : SF_vars(Step(c))

FairSpec == Spec /\ Fairness

-----------------------------------------------------------------------------
TypeOK ==
  /\ today \in Day
  /\ line_status \in [Line -> {"confirmed", "checked_in", "checked_out"}]
  /\ line_room \in [Line -> Room \cup {NoRoom}]
  /\ room_state \in [Room -> OperationalState]
  /\ room_version \in [Room -> Nat]
  /\ current_line \in [Room -> Line \cup {NoLine}]
  /\ task_status \in [Task -> TaskStatus]
  /\ task_version \in [Task -> Nat]
  /\ task_line \in [Task -> Line \cup {NoLine}]
  /\ verdict \in [Task -> {"none", "pass", "fail"}]
  /\ held_by \in [Record -> Conn \cup {Nobody}]
  /\ txn \in [Conn -> {Idle} \cup Txn]

InHouse(r) == {l \in Line : line_status[l] = "checked_in" /\ line_room[l] = r}

(* README.md:73: no two parties are ever given the same room. *)
OneGuestPerRoom == \A r \in Room : Cardinality(InHouse(r)) =< 1

(* A room is occupied exactly while a checked-in line has it, and then its  *)
(* current_booking_line_id is that line.                                    *)
OccupiedIffCheckedIn ==
  \A r \in Room :
    InHouse(r) = IF room_state[r] \in {"occupied_clean", "occupied_dirty"} THEN {current_line[r]} ELSE {}

OpenTask(k) == task_status[k] \notin {"none", "verified", "defect"}

(* The two state machines of housekeeping/models.py:117-122 keep in step,   *)
(* whatever calls overlap: a room has at most one open task, and its state  *)
(* is the one the task is about.                                            *)
TaskMatchesRoom ==
  \A k \in Task :
    OpenTask(k) =>
      /\ \A other \in Task : OpenTask(other) /\ other[1] = k[1] => other = k
      /\ room_state[k[1]] = CASE task_status[k] \in {"planned", "assigned"} -> "vacant_dirty"
                              [] task_status[k] = "in_progress" -> "cleaning"
                              [] task_status[k] = "quality_check" -> "inspected"

(* Every departure leaves a task of its own, of the room the line had. *)
OneTaskPerDeparture ==
  \A l \in Line :
    line_status[l] = "checked_out" =>
      \E k \in Task : task_line[k] = l /\ k[1] = line_room[l] /\ task_status[k] # "none"

(* SDD S10.3: a room a guest has used is offered again only by the approval *)
(* of the task of that departure.                                           *)
ReadyOnlyIfInspected ==
  [][\A r \in Room :
       room_state[r] # "vacant_clean" /\ room_state'[r] = "vacant_clean" =>
         \E k \in Task : /\ k[1] = r /\ task_line[k] = current_line[r]
                         /\ verdict[k] = "none" /\ verdict'[k] = "pass"]_vars

(* housekeeping/models.py:161-163: a room that failed its inspection is     *)
(* being cleaned under a new task.                                          *)
CleaningHasTask ==
  \A r \in Room : room_state[r] = "cleaning" => \E k \in Task : k[1] = r /\ OpenTask(k)

-----------------------------------------------------------------------------
(* The row a transaction asks for next. *)
Wants(c) ==
  LET t == txn[c]
  IN CASE t.at = "line" -> <<"line", t.line>>
       [] t.at = "candidates" -> <<"room", NextCandidate(t)>>
       [] t.at = "inspection" -> <<"inspection", t.task>>
       [] t.at = "room" -> <<"room", t.room>>
       [] t.at = "task" -> <<"task", IF t.op = "check_out" THEN <<t.room, today>> ELSE t.task>>

Blocked(c) ==
  /\ txn[c] # Idle
  /\ txn[c].at # "commit"
  /\ txn[c].at = "candidates" => txn[c].to_lock # {}
  /\ ~Free(c, Wants(c))

(* allocation/services.py:127-137: transactions queue for rooms but never   *)
(* form a cycle.                                                            *)
NoDeadlock ==
  \A S \in (SUBSET Conn) \ {{}} : ~ \A c \in S : Blocked(c) /\ held_by[Wants(c)] \in S

(* Every request comes to its end, by commit or rollback. *)
RequestsEnd == \A c \in Conn : txn[c] # Idle ~> txn[c] = Idle

Phase(r) ==
  CASE room_state[r] = "vacant_clean" -> "ready"
    [] room_state[r] \in {"occupied_clean", "occupied_dirty"} -> "occupied"
    [] room_state[r] = "vacant_dirty" -> "dirty"
    [] OTHER -> room_state[r]

Turnover == INSTANCE RoomTurnover WITH
              phase <- [r \in Room |-> Phase(r)],
              guest <- [r \in Room |-> IF InHouse(r) = {} THEN NoLine
                                       ELSE CHOOSE l \in InHouse(r) : TRUE],
              departed <- {l \in Line : line_status[l] = "checked_out"}

(* Overlapping requests do to rooms and guests what one at a time could. *)
TurnoverSpec == Turnover!Spec
=============================================================================
