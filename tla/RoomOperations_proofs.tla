------------------------ MODULE RoomOperations_proofs ------------------------
(***************************************************************************)
(* Front desk and housekeeping keep rooms, lines and tasks in step, for    *)
(* every set of connections, rooms and lines.  The argument is the one     *)
(* behind optimistic versions: a transaction that has its row's lock and   *)
(* found the version it had read knows that the row is still what it read. *)
(***************************************************************************)
EXTENDS RoomOperations, FiniteSetTheorems, WellFoundedInduction, TLAPS

RoomOp == {"allocate", "check_out", "start_cleaning", "complete_cleaning", "inspect"} \cup StaffOp

Result == {"pass", "fail"}

-----------------------------------------------------------------------------
(* The tables.                                                             *)
LEMMA OpNames ==
  /\ TaskOp = {"assign", "start_cleaning", "complete_cleaning", "inspect"}
  /\ StaffOp \cap (TaskOp \cup {"allocate", "check_out", "none"}) = {}
BY RoomsAssumption DEF TaskOp, TaskSource

LEMMA MinOfRooms ==
  ASSUME NEW S \in SUBSET Room, S # {}
  PROVE  Min(S) \in S
<1> DEFINE R == OpToRel(<, Nat)
<1>1. S \subseteq Nat
  BY RoomsAssumption
<1>2. IsWellFoundedOn(R, Nat)
  BY NatLessThanWellFounded
<1>3. \A x, y \in Nat : <<x, y>> \in R <=> x < y
  BY DEF OpToRel
<1> HIDE DEF R
<1>4. \E x \in S : \A y \in S : ~ (<<y, x>> \in R)
  BY <1>1, <1>2, WFMin
<1>5. PICK x \in S : \A y \in S : ~ (<<y, x>> \in R)
  BY <1>4
<1>6. ASSUME NEW y \in S
      PROVE  x =< y
  <2>1. ~ (y < x)
    BY <1>1, <1>3, <1>5
  <2>2. QED
    BY <1>1, <2>1
<1>7. QED
  BY <1>6 DEF Min

LEMMA SourceTarget ==
  ASSUME NEW op \in RoomOp, NEW result \in Result
  PROVE  Source(op, result) \in OperationalState /\ Target(op, result) \in OperationalState
<1>1. RoomTransition(op, result) \in DOMAIN Transition
  BY RoomsAssumption DEF RoomTransition, Transition, RoomOp, Result
<1>2. QED
  BY <1>1 DEF Source, Target, OperationalState

LEMMA TaskTargetType ==
  ASSUME NEW op \in TaskOp, NEW result \in Result
  PROVE  TaskTarget(op, result) \in TaskStatus
BY OpNames DEF TaskTarget, TaskStatus, Result

-----------------------------------------------------------------------------
(* What the transaction of c knows.  It has seen the room of t: if the      *)
(* version has not moved, the room is where the transition starts; and the  *)
(* transaction owns the room: it has the lock, and saw the version it has.  *)
RoomSeen(t) ==
  /\ t.room \in Room
  /\ t.seen_version =< room_version[t.room]
  /\ t.seen_version = room_version[t.room] => room_state[t.room] = Source(t.op, t.result)

RoomOwned(c, t) ==
  /\ held_by[<<"room", t.room>>] = c
  /\ t.seen_version = room_version[t.room]

AllocateKnows(c, t) ==
  /\ t.line \in Line
  /\ t.at \in {"line", "candidates", "commit"}
  /\ t.at = "line" => t.vacant = {}
  /\ t.at # "line" => /\ held_by[<<"line", t.line>>] = c
                      /\ line_status[t.line] = "confirmed"
  /\ \A r \in t.vacant : /\ held_by[<<"room", r>>] = c
                          /\ room_state[r] = "vacant_clean"
  /\ t.at = "commit" => t.room \in t.vacant

CheckOutKnows(c, t) ==
  /\ t.line \in Line
  /\ t.at \in {"line", "room", "task", "commit"}
  /\ t.at # "line" => /\ held_by[<<"line", t.line>>] = c
                      /\ line_status[t.line] = "checked_in"
                      /\ line_room[t.line] = t.room
                      /\ RoomSeen(t)
  /\ t.at \in {"task", "commit"} => RoomOwned(c, t)
  /\ t.at = "commit" => /\ t.task \in Task /\ t.task[1] = t.room
                        /\ held_by[<<"task", t.task>>] = c
                        /\ task_status[t.task] = "none"

TaskOpKnows(c, t) ==
  /\ t.task \in Task /\ t.task[1] = t.room
  /\ t.at \in {"inspection", "room", "task", "commit"}
  /\ t.seen_task_version =< task_version[t.task]
  /\ t.seen_task_version = task_version[t.task] => task_status[t.task] \in TaskSource[t.op]
  /\ t.op = "assign" => t.at \in {"task", "commit"}
  /\ t.op # "assign" => /\ RoomSeen(t)
                        /\ t.at \in {"task", "commit"} => RoomOwned(c, t)
  /\ t.op = "inspect" /\ t.at # "inspection" => /\ held_by[<<"inspection", t.task>>] = c
                                                /\ verdict[t.task] = "none"
  /\ t.at = "commit" => /\ held_by[<<"task", t.task>>] = c
                        /\ t.seen_task_version = task_version[t.task]

StaffKnows(c, t) ==
  /\ t.at \in {"room", "commit"}
  /\ RoomSeen(t)
  /\ t.at = "commit" => RoomOwned(c, t)

Knows(c) ==
  LET t == txn[c]
  IN t # Idle => /\ t.op = "allocate" => AllocateKnows(c, t)
                 /\ t.op = "check_out" => CheckOutKnows(c, t)
                 /\ t.op \in TaskOp => TaskOpKnows(c, t)
                 /\ t.op \in StaffOp => StaffKnows(c, t)

RoomGiven == \A l \in Line : line_status[l] # "confirmed" => line_room[l] \in Room

(* What a transaction knows is true of the tables, to its end. *)
Sound == TypeOK /\ RoomGiven /\ \A c \in Conn : Knows(c)

-----------------------------------------------------------------------------
LEMMA InitSound == Init => Sound
<1> SUFFICES ASSUME Init PROVE Sound
  OBVIOUS
<1>1. "vacant_clean" \in OperationalState
  <2>1. "allocate" \in DOMAIN Transition /\ Transition["allocate"][1] = "vacant_clean"
    BY DEF Transition
  <2>2. QED
    BY <2>1 DEF OperationalState
<1>2. TypeOK
  BY <1>1, RoomsAssumption DEF Init, TypeOK, TaskStatus, Day
<1>3. \A c \in Conn : Knows(c)
  BY DEF Init, Knows
<1>4. RoomGiven
  BY DEF Init, RoomGiven
<1>5. QED
  BY <1>2, <1>3, <1>4 DEF Sound

(* A transaction cannot tell what others do while they only read, lock free *)
(* rows, or give up.                                                        *)
LEMMA OthersKeep ==
  ASSUME TypeOK, NEW d \in Conn, Knows(d), txn'[d] = txn[d],
         UNCHANGED <<lineVars, roomVars, taskVars>>,
         \A x \in Record : held_by[x] = d => held_by'[x] = d
  PROVE  Knows(d)'
<1> DEFINE t == txn[d]
<1> SUFFICES ASSUME t # Idle
             PROVE  /\ t.op = "allocate" => AllocateKnows(d, t)'
                    /\ t.op = "check_out" => CheckOutKnows(d, t)'
                    /\ t.op \in TaskOp => TaskOpKnows(d, t)'
                    /\ t.op \in StaffOp => StaffKnows(d, t)'
  BY DEF Knows
<1>1. t \in Txn
  BY DEF TypeOK
<1>2. ASSUME t.op = "allocate"
      PROVE  AllocateKnows(d, t)'
  BY <1>1, <1>2 DEF Knows, AllocateKnows, Record, Txn, lineVars, roomVars
<1>3. ASSUME t.op = "check_out"
      PROVE  CheckOutKnows(d, t)'
  BY <1>1, <1>3 DEF Knows, CheckOutKnows, RoomSeen, RoomOwned, Record, Txn, lineVars, roomVars,
     taskVars
<1>4. ASSUME t.op \in TaskOp
      PROVE  TaskOpKnows(d, t)'
  BY <1>1, <1>4 DEF Knows, TaskOpKnows, RoomSeen, RoomOwned, Record, Txn, roomVars, taskVars
<1>5. ASSUME t.op \in StaffOp
      PROVE  StaffKnows(d, t)'
  BY <1>1, <1>5 DEF Knows, StaffKnows, RoomSeen, RoomOwned, Record, Txn, roomVars
<1>6. QED
  BY <1>2, <1>3, <1>4, <1>5

LEMMA RollbackSound ==
  ASSUME Sound, NEW c \in Conn, Rollback(c)
  PROVE  Sound'
<1>1. TypeOK'
  BY DEF Sound, TypeOK, Rollback, Unlock, committedVars, lineVars, roomVars, taskVars
<1>2. ASSUME NEW d \in Conn, d # c
      PROVE  Knows(d)'
  <2>1. txn'[d] = txn[d] /\ \A x \in Record : held_by[x] = d => held_by'[x] = d
    BY <1>2 DEF Rollback, Unlock, Sound, TypeOK
  <2>2. QED
    BY <1>2, <2>1, OthersKeep DEF Sound, Rollback, committedVars
<1>3. Knows(c)'
  BY DEF Rollback, Knows, Sound, TypeOK
<1>4. QED
  BY <1>1, <1>2, <1>3 DEF Sound, RoomGiven, Rollback, committedVars, lineVars

(* Going on with or without a new lock is sound if what c then knows is.    *)
LEMMA AdvanceSound ==
  ASSUME Sound, NEW c \in Conn, NEW x \in Record, NEW t \in Txn,
         Free(c, x), Advance(c, x, t), Knows(c)'
  PROVE  Sound'
<1>1. TypeOK'
  BY DEF Sound, TypeOK, Advance, committedVars, lineVars, roomVars, taskVars
<1>2. ASSUME NEW d \in Conn, d # c
      PROVE  Knows(d)'
  <2>1. txn'[d] = txn[d] /\ \A y \in Record : held_by[y] = d => held_by'[y] = d
    BY <1>2, RoomsAssumption DEF Advance, Free, Sound, TypeOK
  <2>2. QED
    BY <1>2, <2>1, OthersKeep DEF Sound, Advance, committedVars
<1>3. QED
  BY <1>1, <1>2 DEF Sound, RoomGiven, Advance, committedVars, lineVars

LEMMA MoveOnSound ==
  ASSUME Sound, NEW c \in Conn, NEW t \in Txn, Knows(c)',
         txn' = [txn EXCEPT ![c] = t], UNCHANGED <<committedVars, held_by>>
  PROVE  Sound'
<1>1. TypeOK'
  BY DEF Sound, TypeOK, committedVars, lineVars, roomVars, taskVars
<1>2. ASSUME NEW d \in Conn, d # c
      PROVE  Knows(d)'
  <2>1. txn'[d] = txn[d]
    BY <1>2 DEF Sound, TypeOK
  <2>2. QED
    BY <2>1, OthersKeep DEF Sound, committedVars
<1>3. QED
  BY <1>1, <1>2 DEF Sound, RoomGiven, committedVars, lineVars

-----------------------------------------------------------------------------
(* Requests.                                                               *)
LEMMA BeginLineSound ==
  ASSUME Sound, NEW c \in Conn, NEW l \in Line, NEW op \in {"allocate", "check_out"},
         BeginLine(c, op, l)
  PROVE  Sound'
<1> DEFINE t == [NewTxn EXCEPT !.op = op, !.line = l]
<1>1. t \in Txn
  BY DEF NewTxn, Txn
<1>2. txn'[c] = t
  BY DEF BeginLine, Begin, Sound, TypeOK
<1>3. Knows(c)'
  BY <1>2, OpNames DEF Knows, AllocateKnows, CheckOutKnows, NewTxn
<1>4. QED
  BY <1>1, <1>3, MoveOnSound DEF BeginLine, Begin

LEMMA ReadTaskSound ==
  ASSUME Sound, NEW c \in Conn, NEW op \in TaskOp, NEW k \in Task, NEW result \in Result,
         ReadTask(c, op, k, result)
  PROVE  Sound'
<1> DEFINE r == k[1]
           t == [NewTxn EXCEPT
                   !.op = op, !.task = k, !.room = r, !.result = result,
                   !.at = CASE op = "assign" -> "task" [] op = "inspect" -> "inspection"
                            [] OTHER -> "room",
                   !.seen_version = room_version[r], !.seen_task_version = task_version[k]]
<1>1. r \in Room /\ room_version[r] \in Nat /\ task_version[k] \in Nat
  BY DEF Task, Sound, TypeOK
<1>2. t \in Txn
  BY <1>1, OpNames DEF NewTxn, Txn, Result
<1>3. txn'[c] = t
  BY DEF ReadTask, Begin, Sound, TypeOK
<1>4. /\ t.op = op /\ t.task = k /\ t.room = r /\ t.result = result
      /\ t.at = CASE op = "assign" -> "task" [] op = "inspect" -> "inspection" [] OTHER -> "room"
      /\ t.seen_version = room_version[r] /\ t.seen_task_version = task_version[k]
  BY DEF NewTxn
<1>5. UNCHANGED <<room_version, room_state, task_version, task_status>>
  BY DEF ReadTask, Begin, committedVars, roomVars, taskVars
<1> HIDE DEF t
<1>6. TaskOpKnows(c, txn[c])'
  BY <1>1, <1>3, <1>4, <1>5, OpNames DEF ReadTask, TaskOpKnows, RoomSeen, Source
<1>7. Knows(c)'
  BY <1>3, <1>4, <1>6, OpNames DEF Knows
<1>8. QED
  BY <1>2, <1>7, MoveOnSound DEF ReadTask, Begin, t

LEMMA ReadRoomSound ==
  ASSUME Sound, NEW c \in Conn, NEW op \in StaffOp, NEW r \in Room, ReadRoom(c, op, r)
  PROVE  Sound'
<1> DEFINE t == [NewTxn EXCEPT !.op = op, !.at = "room", !.room = r,
                               !.seen_version = room_version[r]]
<1>1. t \in Txn
  BY DEF NewTxn, Txn, Sound, TypeOK
<1>2. txn'[c] = t
  BY DEF ReadRoom, Begin, Sound, TypeOK
<1>3. StaffKnows(c, txn[c])'
  BY <1>2 DEF ReadRoom, Begin, StaffKnows, RoomSeen, NewTxn, Source, committedVars, roomVars,
     Sound, TypeOK
<1>4. t.op = op
  BY DEF NewTxn
<1>5. Knows(c)'
  BY <1>2, <1>3, <1>4, OpNames DEF Knows
<1>6. QED
  BY <1>1, <1>5, MoveOnSound DEF ReadRoom, Begin

-----------------------------------------------------------------------------
(* Statements.                                                             *)
LEMMA AllocateStepsSound ==
  ASSUME Sound, NEW c \in Conn, txn[c] # Idle,
         LockLineAndScore(c) \/ LockCandidate(c) \/ ChooseRoom(c)
  PROVE  Sound'
<1> DEFINE t == txn[c]
<1>1. t \in Txn /\ t.op = "allocate" /\ AllocateKnows(c, t)
  BY DEF Sound, TypeOK, Knows, LockLineAndScore, LockCandidate, ChooseRoom
<1>2. t.line \in Line /\ <<"line", t.line>> \in Record
  BY <1>1 DEF AllocateKnows, Record
<1>3. CASE LockLineAndScore(c)
  <2> DEFINE u == [t EXCEPT !.at = "candidates", !.to_lock = vacant_clean_candidates(t.line),
                            !.known = vacant_clean_candidates(t.line) \cap StayContinuity(t.line)]
  <2>1. CASE Rollback(c)
    BY <2>1, RollbackSound
  <2>2. CASE /\ line_status[t.line] = "confirmed"
             /\ Advance(c, <<"line", t.line>>, u)
    <3>1. vacant_clean_candidates(t.line) \subseteq Room
      BY <1>2, RoomsAssumption DEF vacant_clean_candidates
    <3>2. u \in Txn /\ u.op = "allocate" /\ u.line = t.line /\ u.at = "candidates" /\ u.vacant = {}
      BY <1>1, <1>3, <3>1 DEF Txn, AllocateKnows, LockLineAndScore
    <3> HIDE DEF u
    <3>3. txn'[c] = u /\ held_by'[<<"line", t.line>>] = c /\ line_status' = line_status
      BY <1>2, <2>2 DEF Advance, Sound, TypeOK, committedVars, lineVars
    <3>4. Knows(c)'
      BY <1>2, <2>2, <3>2, <3>3, OpNames DEF Knows, AllocateKnows
    <3>5. QED
      BY <1>2, <1>3, <2>2, <3>2, <3>4, AdvanceSound DEF LockLineAndScore
  <2>3. QED
    BY <1>3, <2>1, <2>2 DEF LockLineAndScore
<1>4. CASE LockCandidate(c)
  <2> DEFINE r == NextCandidate(t)
             u == [t EXCEPT !.to_lock = @ \ {r},
                            !.vacant = IF StillVacant(r) THEN @ \cup {r} ELSE @]
  <2>1. r \in Room /\ <<"room", r>> \in Record
    BY <1>1, <1>4, MinOfRooms DEF LockCandidate, NextCandidate, Txn, Record
  <2>2. u \in Txn /\ u.op = "allocate" /\ u.line = t.line /\ u.at = "candidates"
        /\ u.vacant = IF StillVacant(r) THEN t.vacant \cup {r} ELSE t.vacant
    BY <1>1, <1>4, <2>1 DEF Txn, LockCandidate
  <2>3. Free(c, <<"room", r>>) /\ Advance(c, <<"room", r>>, u)
    BY <1>4 DEF LockCandidate
  <2> HIDE DEF u, r
  <2>4. /\ txn'[c] = u
        /\ held_by'[<<"room", r>>] = c
        /\ \A y \in Record : held_by[y] = c => held_by'[y] = c
        /\ UNCHANGED <<line_status, room_state>>
    BY <2>1, <2>3 DEF Advance, Sound, TypeOK, committedVars, lineVars, roomVars
  <2>5. \A s \in t.vacant : <<"room", s>> \in Record
    BY <1>1 DEF Txn, Record
  <2>6. AllocateKnows(c, txn[c])'
    BY <1>1, <1>2, <1>4, <2>2, <2>4, <2>5 DEF AllocateKnows, StillVacant, LockCandidate
  <2>7. Knows(c)'
    BY <2>2, <2>4, <2>6, OpNames DEF Knows
  <2>8. QED
    BY <2>1, <2>2, <2>3, <2>7, AdvanceSound
<1>5. CASE ChooseRoom(c)
  <2> DEFINE preferred == t.vacant \cap t.known
             room == Min(IF preferred # {} THEN preferred ELSE t.vacant)
             u == [t EXCEPT !.at = "commit", !.room = room]
  <2>1. CASE Rollback(c)
    BY <2>1, RollbackSound
  <2>2. CASE t.vacant # {} /\ txn' = [txn EXCEPT ![c] = u] /\ UNCHANGED <<committedVars, held_by>>
    <3>1. t.vacant \subseteq Room
      BY <1>1 DEF Txn
    <3>2. room \in t.vacant
      BY <2>2, <3>1, MinOfRooms
    <3> HIDE DEF room
    <3>3. u \in Txn /\ u.op = "allocate" /\ u.line = t.line /\ u.at = "commit"
          /\ u.vacant = t.vacant /\ u.room = room
      BY <1>1, <3>1, <3>2 DEF Txn
    <3> HIDE DEF u
    <3>4. txn'[c] = u
      BY <2>2 DEF Sound, TypeOK
    <3>5. AllocateKnows(c, txn[c])'
      BY <1>1, <1>5, <2>2, <3>2, <3>3, <3>4
         DEF AllocateKnows, ChooseRoom, committedVars, lineVars, roomVars
    <3>6. Knows(c)'
      BY <3>3, <3>4, <3>5, OpNames DEF Knows
    <3>7. QED
      BY <2>2, <3>3, <3>6, MoveOnSound
  <2>3. QED
    BY <1>5, <2>1, <2>2 DEF ChooseRoom
<1>6. QED
  BY <1>3, <1>4, <1>5

LEMMA CheckOutStepsSound ==
  ASSUME Sound, NEW c \in Conn, txn[c] # Idle, LockLineAndReadRoom(c) \/ InsertTask(c)
  PROVE  Sound'
<1> DEFINE t == txn[c]
<1>1. t \in Txn /\ t.op = "check_out" /\ CheckOutKnows(c, t)
  BY DEF Sound, TypeOK, Knows, LockLineAndReadRoom, InsertTask
<1>2. t.line \in Line /\ <<"line", t.line>> \in Record
  BY <1>1 DEF CheckOutKnows, Record
<1>3. CASE LockLineAndReadRoom(c)
  <2> DEFINE r == line_room[t.line]
             u == [t EXCEPT !.at = "room", !.room = r, !.seen_version = room_version[r]]
  <2>1. CASE Rollback(c)
    BY <2>1, RollbackSound
  <2>2. CASE /\ line_status[t.line] = "checked_in" /\ room_state[r] = Source(t.op, t.result)
             /\ Advance(c, <<"line", t.line>>, u)
    <3>1. r \in Room /\ room_version[r] \in Nat
      BY <1>2, <2>2 DEF Sound, RoomGiven, TypeOK
    <3>2. /\ u \in Txn /\ u.op = "check_out" /\ u.line = t.line /\ u.at = "room"
          /\ u.room = r /\ u.result = t.result /\ u.seen_version = room_version[r]
      BY <1>1, <3>1 DEF Txn
    <3> HIDE DEF u
    <3>3. /\ txn'[c] = u /\ held_by'[<<"line", t.line>>] = c
          /\ UNCHANGED <<line_status, line_room, room_state, room_version>>
      BY <1>2, <2>2 DEF Advance, Sound, TypeOK, committedVars, lineVars, roomVars
    <3>4. CheckOutKnows(c, txn[c])'
      BY <1>1, <1>2, <2>2, <3>1, <3>2, <3>3 DEF CheckOutKnows, RoomSeen
    <3>5. Knows(c)'
      BY <3>2, <3>3, <3>4, OpNames DEF Knows
    <3>6. QED
      BY <1>2, <1>3, <2>2, <3>2, <3>5, AdvanceSound DEF LockLineAndReadRoom
  <2>3. QED
    BY <1>3, <2>1, <2>2 DEF LockLineAndReadRoom
<1>4. CASE InsertTask(c)
  <2> DEFINE k == <<t.room, today>>
             u == [t EXCEPT !.at = "commit", !.task = k]
  <2>1. CASE Rollback(c)
    BY <2>1, RollbackSound
  <2>2. CASE task_status[k] = "none" /\ Advance(c, <<"task", k>>, u)
    <3>1. k \in Task /\ k[1] = t.room /\ <<"task", k>> \in Record
      BY <1>1, <1>4 DEF InsertTask, CheckOutKnows, RoomSeen, Task, Record, Sound, TypeOK
    <3> HIDE DEF k
    <3>2. /\ u \in Txn /\ u.op = "check_out" /\ u.line = t.line /\ u.at = "commit"
          /\ u.room = t.room /\ u.result = t.result /\ u.seen_version = t.seen_version
          /\ u.task = k
      BY <1>1, <3>1 DEF Txn
    <3> HIDE DEF u
    <3>3. /\ txn'[c] = u /\ held_by'[<<"task", k>>] = c
          /\ \A y \in Record : held_by[y] = c => held_by'[y] = c
          /\ UNCHANGED <<line_status, line_room, room_state, room_version, task_status>>
      BY <2>2, <3>1 DEF Advance, Sound, TypeOK, committedVars, lineVars, roomVars, taskVars
    <3>4. <<"room", t.room>> \in Record
      BY <1>1, <1>4 DEF InsertTask, CheckOutKnows, RoomSeen, Record
    <3>5. CheckOutKnows(c, txn[c])'
      BY <1>1, <1>2, <1>4, <2>2, <3>1, <3>2, <3>3, <3>4
         DEF CheckOutKnows, RoomSeen, RoomOwned, InsertTask
    <3>6. Knows(c)'
      BY <3>2, <3>3, <3>5, OpNames DEF Knows
    <3>7. QED
      BY <1>4, <2>2, <3>1, <3>2, <3>6, AdvanceSound DEF InsertTask, k
  <2>3. QED
    BY <1>4, <2>1, <2>2 DEF InsertTask
<1>5. QED
  BY <1>3, <1>4

LEMMA TaskStepsSound ==
  ASSUME Sound, NEW c \in Conn, txn[c] # Idle, InsertInspection(c) \/ UpdateTask(c)
  PROVE  Sound'
<1> DEFINE t == txn[c]
<1>1. t \in Txn /\ t.op \in TaskOp /\ TaskOpKnows(c, t)
  BY OpNames DEF Sound, TypeOK, Knows, InsertInspection, UpdateTask
<1>2. t.task \in Task
  BY <1>1 DEF TaskOpKnows
<1>3. t.room \in Room
  BY <1>1, <1>2 DEF TaskOpKnows, Task
<1>4. /\ <<"inspection", t.task>> \in Record /\ <<"task", t.task>> \in Record
      /\ <<"room", t.room>> \in Record
  BY <1>2, <1>3 DEF Record
<1>5. CASE InsertInspection(c)
  <2> DEFINE u == [t EXCEPT !.at = "room"]
  <2>1. CASE Rollback(c)
    BY <2>1, RollbackSound
  <2>2. CASE verdict[t.task] = "none" /\ Advance(c, <<"inspection", t.task>>, u)
    <3>1. /\ u \in Txn /\ u.op = t.op /\ u.at = "room" /\ u.task = t.task /\ u.room = t.room
          /\ u.result = t.result /\ u.seen_version = t.seen_version
          /\ u.seen_task_version = t.seen_task_version
      BY <1>1 DEF Txn
    <3> HIDE DEF u
    <3>2. /\ txn'[c] = u /\ held_by'[<<"inspection", t.task>>] = c
          /\ UNCHANGED <<room_state, room_version, task_status, task_version, verdict>>
      BY <1>4, <2>2 DEF Advance, Sound, TypeOK, committedVars, roomVars, taskVars
    <3>3. TaskOpKnows(c, txn[c])'
      BY <1>1, <1>5, <2>2, <3>1, <3>2 DEF TaskOpKnows, RoomSeen, InsertInspection
    <3>4. Knows(c)'
      BY <1>1, <3>1, <3>2, <3>3, OpNames DEF Knows
    <3>5. QED
      BY <1>4, <1>5, <2>2, <3>1, <3>4, AdvanceSound DEF InsertInspection
  <2>3. QED
    BY <1>5, <2>1, <2>2 DEF InsertInspection
<1>6. CASE UpdateTask(c)
  <2> DEFINE u == [t EXCEPT !.at = "commit"]
  <2>1. CASE Rollback(c)
    BY <2>1, RollbackSound
  <2>2. CASE task_version[t.task] = t.seen_task_version /\ Advance(c, <<"task", t.task>>, u)
    <3>1. /\ u \in Txn /\ u.op = t.op /\ u.at = "commit" /\ u.task = t.task /\ u.room = t.room
          /\ u.result = t.result /\ u.seen_version = t.seen_version
          /\ u.seen_task_version = t.seen_task_version
      BY <1>1 DEF Txn
    <3> HIDE DEF u
    <3>2. /\ txn'[c] = u /\ held_by'[<<"task", t.task>>] = c
          /\ \A y \in Record : held_by[y] = c => held_by'[y] = c
          /\ UNCHANGED <<room_state, room_version, task_status, task_version, verdict>>
      BY <1>4, <2>2 DEF Advance, Sound, TypeOK, committedVars, roomVars, taskVars
    <3>3. TaskOpKnows(c, txn[c])'
      BY <1>1, <1>4, <1>6, <2>2, <3>1, <3>2 DEF TaskOpKnows, RoomSeen, RoomOwned, UpdateTask
    <3>4. Knows(c)'
      BY <1>1, <3>1, <3>2, <3>3, OpNames DEF Knows
    <3>5. QED
      BY <1>4, <1>6, <2>2, <3>1, <3>4, AdvanceSound DEF UpdateTask
  <2>3. QED
    BY <1>6, <2>1, <2>2 DEF UpdateTask, VersionMatches
<1>7. QED
  BY <1>5, <1>6

LEMMA UpdateRoomSound ==
  ASSUME Sound, NEW c \in Conn, txn[c] # Idle, UpdateRoom(c)
  PROVE  Sound'
<1> DEFINE t == txn[c]
           next == IF t.op \in StaffOp THEN "commit" ELSE "task"
           u == [t EXCEPT !.at = next]
<1>1. t \in Txn /\ t.at = "room" /\ Knows(c)
  BY DEF Sound, TypeOK, UpdateRoom
<1>2. t.op \in {"check_out"} \cup (TaskOp \ {"assign"}) \cup StaffOp
  BY <1>1, OpNames DEF Knows, AllocateKnows, TaskOpKnows, Txn
<1>3. RoomSeen(t)
  BY <1>1, <1>2 DEF Knows, CheckOutKnows, TaskOpKnows, StaffKnows
<1>4. t.room \in Room /\ <<"room", t.room>> \in Record
  BY <1>3 DEF RoomSeen, Record
<1>5. CASE Rollback(c)
  BY <1>5, RollbackSound
<1>6. CASE room_version[t.room] = t.seen_version /\ Advance(c, <<"room", t.room>>, u)
  <2>1. /\ u \in Txn /\ u.op = t.op /\ u.at = next /\ u.task = t.task /\ u.room = t.room
        /\ u.line = t.line /\ u.result = t.result /\ u.seen_version = t.seen_version
        /\ u.seen_task_version = t.seen_task_version
    BY <1>1 DEF Txn
  <2> HIDE DEF u
  <2>2. /\ txn'[c] = u /\ held_by'[<<"room", t.room>>] = c
        /\ \A y \in Record : held_by[y] = c => held_by'[y] = c
        /\ UNCHANGED <<line_status, line_room, room_state, room_version,
                       task_status, task_version, verdict>>
    BY <1>4, <1>6 DEF Advance, Sound, TypeOK, committedVars, lineVars, roomVars, taskVars
  <2>3. RoomSeen(txn[c])' /\ RoomOwned(c, txn[c])'
    BY <1>3, <1>6, <2>1, <2>2 DEF RoomSeen, RoomOwned
  <2>4. ASSUME t.op = "check_out"
        PROVE  CheckOutKnows(c, txn[c])'
    <3>1. <<"line", t.line>> \in Record
      BY <1>1, <2>4 DEF Knows, CheckOutKnows, Record
    <3>2. next = "task"
      BY <2>4, OpNames
    <3>3. QED
      BY <1>1, <2>1, <2>2, <2>3, <2>4, <3>1, <3>2 DEF Knows, CheckOutKnows
  <2>5. ASSUME t.op \in TaskOp
        PROVE  TaskOpKnows(c, txn[c])'
    <3>1. <<"inspection", t.task>> \in Record
      BY <1>1, <2>5 DEF Knows, TaskOpKnows, Record
    <3>2. next = "task"
      BY <2>5, OpNames
    <3>3. QED
      BY <1>1, <1>2, <2>1, <2>2, <2>3, <2>5, <3>1, <3>2, OpNames DEF Knows, TaskOpKnows
  <2>6. ASSUME t.op \in StaffOp
        PROVE  StaffKnows(c, txn[c])'
    BY <2>1, <2>2, <2>3, <2>6 DEF StaffKnows
  <2>7. Knows(c)'
    BY <1>2, <2>1, <2>2, <2>4, <2>5, <2>6, OpNames DEF Knows
  <2>8. QED
    BY <1>4, <1>6, <2>1, <2>7, AdvanceSound DEF UpdateRoom
<1>7. QED
  BY <1>5, <1>6 DEF UpdateRoom, VersionMatches

-----------------------------------------------------------------------------
(* Commits.  A transaction about to move a room has its lock, and the room  *)
(* is where the transition starts.                                          *)
LEMMA ReadyToCommit ==
  ASSUME Sound, NEW c \in Conn, txn[c] # Idle, txn[c].at = "commit"
  PROVE  LET t == txn[c]
         IN /\ t \in Txn /\ Knows(c) /\ t.op \in RoomOp \cup {"assign"}
            /\ t.op # "assign" => /\ t.room \in Room
                                  /\ held_by[<<"room", t.room>>] = c
                                  /\ room_state[t.room] = Source(t.op, t.result)
            /\ t.op = "allocate" => AllocateKnows(c, t)
            /\ t.op = "check_out" => CheckOutKnows(c, t)
            /\ t.op \in TaskOp => TaskOpKnows(c, t)
<1> DEFINE t == txn[c]
<1>1. t \in Txn /\ Knows(c)
  BY DEF Sound, TypeOK
<1>2. t.op \in RoomOp \cup {"assign"}
  BY <1>1, OpNames DEF Txn, RoomOp
<1>3. /\ t.op = "allocate" => AllocateKnows(c, t)
      /\ t.op = "check_out" => CheckOutKnows(c, t)
      /\ t.op \in TaskOp => TaskOpKnows(c, t)
      /\ t.op \in StaffOp => StaffKnows(c, t)
  BY <1>1 DEF Knows
<1>4. Source("allocate", t.result) = "vacant_clean"
  BY DEF Source, RoomTransition, Transition
<1>5. CASE t.op = "allocate"
  BY <1>1, <1>2, <1>3, <1>4, <1>5, OpNames DEF AllocateKnows, Txn
<1>6. CASE t.op = "check_out"
  BY <1>1, <1>2, <1>3, <1>6, OpNames DEF CheckOutKnows, RoomSeen, RoomOwned
<1>7. CASE t.op \in TaskOp
  BY <1>1, <1>2, <1>3, <1>7, OpNames DEF TaskOpKnows, RoomSeen, RoomOwned
<1>8. CASE t.op \in StaffOp
  BY <1>1, <1>2, <1>3, <1>8, OpNames DEF StaffKnows, RoomSeen, RoomOwned
<1>9. QED
  BY <1>2, <1>5, <1>6, <1>7, <1>8, OpNames DEF RoomOp

(* A commit changes only rows it has locked, moves the version of a row     *)
(* with the row, and leaves the tables well-formed.                         *)
LEMMA CommitEffects ==
  ASSUME Sound, NEW c \in Conn, txn[c] # Idle, Commit(c)
  PROVE  /\ TypeOK' /\ RoomGiven'
         /\ \A l \in Line : held_by[<<"line", l>>] # c =>
              line_status'[l] = line_status[l] /\ line_room'[l] = line_room[l]
         /\ \A r \in Room :
              /\ held_by[<<"room", r>>] # c =>
                   room_state'[r] = room_state[r] /\ room_version'[r] = room_version[r]
              /\ room_version[r] =< room_version'[r]
              /\ room_version'[r] = room_version[r] => room_state'[r] = room_state[r]
         /\ \A k \in Task :
              /\ held_by[<<"task", k>>] # c =>
                   task_status'[k] = task_status[k] /\ task_version'[k] = task_version[k]
              /\ held_by[<<"inspection", k>>] # c => verdict'[k] = verdict[k]
              /\ task_version[k] =< task_version'[k]
              /\ task_version'[k] = task_version[k] /\ task_status[k] # "none" =>
                   task_status'[k] = task_status[k]
<1> DEFINE t == txn[c]
<1>1. TypeOK /\ RoomGiven
  BY DEF Sound
<1>2. t.at = "commit"
  BY DEF Commit
<1>3. /\ t \in Txn /\ t.op \in RoomOp \cup {"assign"}
      /\ t.op # "assign" => t.room \in Room /\ held_by[<<"room", t.room>>] = c
      /\ t.op = "allocate" => AllocateKnows(c, t)
      /\ t.op = "check_out" => CheckOutKnows(c, t)
      /\ t.op \in TaskOp => TaskOpKnows(c, t)
  BY <1>2, ReadyToCommit
<1>4. t.result \in Result
  BY <1>3 DEF Txn, Result
<1>5. /\ room_state' \in [Room -> OperationalState] /\ room_version' \in [Room -> Nat]
      /\ current_line' \in [Room -> Line \cup {NoLine}]
      /\ \A r \in Room :
            /\ held_by[<<"room", r>>] # c =>
                 room_state'[r] = room_state[r] /\ room_version'[r] = room_version[r]
            /\ room_version[r] =< room_version'[r]
            /\ room_version'[r] = room_version[r] => room_state'[r] = room_state[r]
  <2>1. CASE t.op = "assign"
    BY <1>1, <2>1 DEF Commit, CommitRoom, TypeOK, roomVars
  <2>2. CASE t.op # "assign"
    <3>1. Target(t.op, t.result) \in OperationalState
      BY <1>3, <1>4, <2>2, SourceTarget
    <3>2. t.op = "allocate" => t.line \in Line
      BY <1>3 DEF AllocateKnows
    <3>3. QED
      BY <1>1, <1>3, <2>2, <3>1, <3>2 DEF Commit, CommitRoom, TypeOK
  <2>3. QED
    BY <2>1, <2>2
<1>6. /\ line_status' \in [Line -> {"confirmed", "checked_in", "checked_out"}]
      /\ line_room' \in [Line -> Room \cup {NoRoom}]
      /\ RoomGiven'
      /\ \A l \in Line : held_by[<<"line", l>>] # c =>
            line_status'[l] = line_status[l] /\ line_room'[l] = line_room[l]
  <2>1. CASE t.op = "allocate"
    BY <1>1, <1>2, <1>3, <2>1 DEF Commit, CommitLine, AllocateKnows, TypeOK, RoomGiven
  <2>2. CASE t.op = "check_out"
    BY <1>1, <1>2, <1>3, <2>2 DEF Commit, CommitLine, CheckOutKnows, TypeOK, RoomGiven
  <2>3. CASE t.op \notin {"allocate", "check_out"}
    BY <1>1, <2>3 DEF Commit, CommitLine, TypeOK, RoomGiven, lineVars
  <2>4. QED
    BY <2>1, <2>2, <2>3
<1>7. /\ task_status' \in [Task -> TaskStatus] /\ task_version' \in [Task -> Nat]
      /\ task_line' \in [Task -> Line \cup {NoLine}]
      /\ verdict' \in [Task -> {"none", "pass", "fail"}]
      /\ \A k \in Task :
            /\ held_by[<<"task", k>>] # c =>
                 task_status'[k] = task_status[k] /\ task_version'[k] = task_version[k]
            /\ held_by[<<"inspection", k>>] # c => verdict'[k] = verdict[k]
            /\ task_version[k] =< task_version'[k]
            /\ task_version'[k] = task_version[k] /\ task_status[k] # "none" =>
                 task_status'[k] = task_status[k]
  <2>1. CASE t.op = "check_out"
    <3>1. t.task \in Task /\ t.line \in Line /\ held_by[<<"task", t.task>>] = c
          /\ task_status[t.task] = "none"
      BY <1>2, <1>3, <2>1 DEF CheckOutKnows
    <3>2. /\ task_status' = [task_status EXCEPT ![t.task] = "planned"]
          /\ task_line' = [task_line EXCEPT ![t.task] = t.line]
          /\ task_version' = task_version /\ verdict' = verdict
      BY <2>1, OpNames DEF Commit, CommitTask
    <3>3. task_status \in [Task -> TaskStatus] /\ task_version \in [Task -> Nat]
          /\ task_line \in [Task -> Line \cup {NoLine}] /\ verdict \in [Task -> {"none", "pass", "fail"}]
          /\ "planned" \in TaskStatus
      BY <1>1 DEF TypeOK, TaskStatus
    <3>4. /\ task_status' \in [Task -> TaskStatus] /\ task_line' \in [Task -> Line \cup {NoLine}]
          /\ \A k \in Task : k # t.task => task_status'[k] = task_status[k]
      BY <3>1, <3>2, <3>3
    <3>5. \A k \in Task : task_version[k] =< task_version'[k]
      BY <3>2, <3>3
    <3>6. QED
      BY <3>1, <3>2, <3>3, <3>4, <3>5
  <2>2. CASE t.op \in TaskOp
    <3>1. t.task \in Task /\ held_by[<<"task", t.task>>] = c
          /\ (t.op = "inspect" => held_by[<<"inspection", t.task>>] = c)
      BY <1>2, <1>3, <2>2 DEF TaskOpKnows
    <3>2. TaskTarget(t.op, t.result) \in TaskStatus
      BY <1>4, <2>2, TaskTargetType
    <3>3. t.op # "check_out"
      BY <2>2, OpNames
    <3>4. /\ task_status' = [task_status EXCEPT ![t.task] = TaskTarget(t.op, t.result)]
          /\ task_version' = [task_version EXCEPT ![t.task] = @ + 1]
          /\ task_line' = task_line
      BY <2>2, <3>3 DEF Commit, CommitTask
    <3>5. verdict' = IF t.op = "inspect" THEN [verdict EXCEPT ![t.task] = t.result] ELSE verdict
      BY <2>2, <3>3 DEF Commit, CommitTask
    <3>6. verdict' \in [Task -> {"none", "pass", "fail"}]
          /\ \A k \in Task : held_by[<<"inspection", k>>] # c => verdict'[k] = verdict[k]
      BY <1>1, <1>4, <3>1, <3>5 DEF TypeOK, Result
    <3>7. task_status \in [Task -> TaskStatus] /\ task_version \in [Task -> Nat]
          /\ task_line \in [Task -> Line \cup {NoLine}]
      BY <1>1 DEF TypeOK
    <3>8. /\ task_status' \in [Task -> TaskStatus] /\ task_version' \in [Task -> Nat]
          /\ \A k \in Task : k # t.task =>
               task_status'[k] = task_status[k] /\ task_version'[k] = task_version[k]
      BY <3>1, <3>2, <3>4, <3>7
    <3>9. task_version'[t.task] = task_version[t.task] + 1
      BY <3>1, <3>4, <3>7
    <3>10. \A k \in Task : /\ task_version[k] =< task_version'[k]
                           /\ task_version'[k] = task_version[k] => k # t.task
      BY <3>1, <3>7, <3>8, <3>9
    <3>11. QED
      BY <3>1, <3>4, <3>6, <3>7, <3>8, <3>10
  <2>3. CASE t.op \notin TaskOp \cup {"check_out"}
    BY <1>1, <2>3 DEF Commit, CommitTask, TypeOK, taskVars
  <2>4. QED
    BY <2>1, <2>2, <2>3
<1>8. /\ today' \in Day
      /\ held_by' \in [Record -> Conn \cup {Nobody}]
      /\ txn' \in [Conn -> {Idle} \cup Txn]
  BY <1>1 DEF Commit, Unlock, TypeOK
<1>9. QED
  BY <1>5, <1>6, <1>7, <1>8 DEF TypeOK

LEMMA CommitSound ==
  ASSUME Sound, NEW c \in Conn, txn[c] # Idle, Commit(c)
  PROVE  Sound'
<1>1. TypeOK' /\ RoomGiven'
  BY CommitEffects
<1>2. Knows(c)'
  BY DEF Commit, Knows, Sound, TypeOK
<1>3. ASSUME NEW d \in Conn, d # c
      PROVE  Knows(d)'
  <2> DEFINE t == txn[d]
  <2>1. txn'[d] = t
    BY <1>3 DEF Commit, Sound, TypeOK
  <2>2. \A x \in Record : held_by[x] = d => held_by'[x] = d /\ held_by[x] # c
    BY <1>3 DEF Commit, Unlock, Sound, TypeOK
  <2> SUFFICES ASSUME t # Idle
               PROVE  /\ t.op = "allocate" => AllocateKnows(d, txn[d])'
                      /\ t.op = "check_out" => CheckOutKnows(d, txn[d])'
                      /\ t.op \in TaskOp => TaskOpKnows(d, txn[d])'
                      /\ t.op \in StaffOp => StaffKnows(d, txn[d])'
    BY <2>1 DEF Knows
  <2>3. t \in Txn /\ Knows(d) /\ room_version \in [Room -> Nat] /\ room_version' \in [Room -> Nat]
        /\ task_version \in [Task -> Nat] /\ task_version' \in [Task -> Nat]
    BY <1>1 DEF Sound, TypeOK
  <2>4. /\ \A l \in Line : <<"line", l>> \in Record
        /\ \A r \in Room : <<"room", r>> \in Record
        /\ \A k \in Task : <<"task", k>> \in Record /\ <<"inspection", k>> \in Record
    BY DEF Record
  <2>5. t.seen_version \in Nat /\ t.seen_task_version \in Nat /\ t.vacant \subseteq Room
    BY <2>3 DEF Txn
  <2>6. ASSUME RoomSeen(t)
        PROVE  RoomSeen(txn[d])'
    <3>1. /\ t.room \in Room
          /\ t.seen_version =< room_version[t.room] /\ room_version[t.room] =< room_version'[t.room]
      BY <2>6, CommitEffects DEF RoomSeen
    <3>2. room_version[t.room] \in Nat /\ room_version'[t.room] \in Nat
      BY <2>3, <3>1
    <3>3. t.seen_version =< room_version'[t.room]
      BY <2>5, <3>1, <3>2
    <3>4. ASSUME t.seen_version = room_version'[t.room]
          PROVE  room_state'[t.room] = Source(t.op, t.result)
      <4>1. room_version'[t.room] = room_version[t.room] /\ t.seen_version = room_version[t.room]
        BY <2>5, <3>1, <3>2, <3>4
      <4>2. QED
        BY <2>6, <3>1, <4>1, CommitEffects DEF RoomSeen
    <3>5. QED
      BY <2>1, <3>1, <3>3, <3>4 DEF RoomSeen
  <2>7. ASSUME RoomSeen(t), RoomOwned(d, t)
        PROVE  RoomOwned(d, txn[d])'
    BY <2>1, <2>2, <2>4, <2>7, CommitEffects DEF RoomSeen, RoomOwned
  <2>8. ASSUME t.op = "allocate"
        PROVE  AllocateKnows(d, txn[d])'
    BY <2>1, <2>2, <2>3, <2>4, <2>5, <2>8, CommitEffects DEF Knows, AllocateKnows
  <2>9. ASSUME t.op = "check_out"
        PROVE  CheckOutKnows(d, txn[d])'
    <3>1. CheckOutKnows(d, t)
      BY <2>3, <2>9 DEF Knows
    <3>2. ASSUME t.at # "line"
          PROVE  /\ held_by'[<<"line", t.line>>] = d
                 /\ line_status'[t.line] = "checked_in"
                 /\ line_room'[t.line] = t.room
                 /\ RoomSeen(txn[d])'
      <4>1. /\ t.line \in Line /\ held_by[<<"line", t.line>>] = d
            /\ line_status[t.line] = "checked_in" /\ line_room[t.line] = t.room /\ RoomSeen(t)
        BY <3>1, <3>2 DEF CheckOutKnows
      <4>2. held_by'[<<"line", t.line>>] = d /\ held_by[<<"line", t.line>>] # c
        BY <2>2, <2>4, <4>1
      <4>3. line_status'[t.line] = line_status[t.line] /\ line_room'[t.line] = line_room[t.line]
        BY <4>1, <4>2, CommitEffects
      <4>4. QED
        BY <2>6, <4>1, <4>2, <4>3
    <3>3. ASSUME t.at \in {"task", "commit"}
          PROVE  RoomOwned(d, txn[d])'
      <4>1. RoomSeen(t) /\ RoomOwned(d, t)
        BY <3>1, <3>3 DEF CheckOutKnows
      <4>2. QED
        BY <2>7, <4>1
    <3>4. ASSUME t.at = "commit"
          PROVE  held_by'[<<"task", t.task>>] = d /\ task_status'[t.task] = "none"
      <4>1. t.task \in Task /\ held_by[<<"task", t.task>>] = d /\ task_status[t.task] = "none"
        BY <3>1, <3>4 DEF CheckOutKnows
      <4>2. held_by'[<<"task", t.task>>] = d /\ held_by[<<"task", t.task>>] # c
        BY <2>2, <2>4, <4>1
      <4>3. task_status'[t.task] = task_status[t.task]
        BY <4>1, <4>2, CommitEffects
      <4>4. QED
        BY <4>1, <4>2, <4>3
    <3>5. QED
      BY <2>1, <3>1, <3>2, <3>3, <3>4 DEF CheckOutKnows
  <2>10. ASSUME t.op \in TaskOp
         PROVE  TaskOpKnows(d, txn[d])'
    <3>1. TaskOpKnows(d, t)
      BY <2>3, <2>10 DEF Knows
    <3>2. "none" \notin TaskSource[t.op]
      BY <2>10, OpNames DEF TaskSource
    <3>3. t.seen_task_version =< task_version'[t.task]
      BY <2>3, <2>5, <3>1, CommitEffects DEF TaskOpKnows
    <3>4. ASSUME t.seen_task_version = task_version'[t.task]
          PROVE  task_status'[t.task] \in TaskSource[t.op]
      <4>1. t.task \in Task /\ t.seen_task_version =< task_version[t.task]
            /\ task_version[t.task] =< task_version'[t.task]
        BY <3>1, CommitEffects DEF TaskOpKnows
      <4>2. task_version[t.task] = t.seen_task_version
        BY <2>3, <2>5, <3>4, <4>1
      <4>3. task_status[t.task] \in TaskSource[t.op]
        BY <3>1, <4>2 DEF TaskOpKnows
      <4>4. task_version'[t.task] = task_version[t.task]
        BY <3>4, <4>2
      <4>5. task_status'[t.task] = task_status[t.task] \/ task_status[t.task] = "none"
        BY <4>1, <4>4, CommitEffects
      <4>6. QED
        BY <3>2, <4>3, <4>5
    <3>5. QED
      BY <2>1, <2>2, <2>4, <2>6, <2>7, <3>1, <3>3, <3>4, CommitEffects DEF TaskOpKnows
  <2>11. ASSUME t.op \in StaffOp
         PROVE  StaffKnows(d, txn[d])'
    BY <2>1, <2>3, <2>6, <2>7, <2>11 DEF Knows, StaffKnows
  <2>12. QED
    BY <2>8, <2>9, <2>10, <2>11
<1>4. QED
  BY <1>1, <1>2, <1>3 DEF Sound

-----------------------------------------------------------------------------
LEMMA NextSound == Sound /\ [Next]_vars => Sound'
<1> SUFFICES ASSUME Sound, [Next]_vars PROVE Sound'
  OBVIOUS
<1>1. ASSUME UNCHANGED <<lineVars, roomVars, taskVars, held_by, txn>>, today' \in Day
      PROVE  Sound'
  <2>1. TypeOK' /\ RoomGiven'
    BY <1>1 DEF Sound, TypeOK, RoomGiven, lineVars, roomVars, taskVars
  <2>2. \A d \in Conn : Knows(d)'
    BY <1>1, OthersKeep DEF Sound
  <2>3. QED
    BY <2>1, <2>2 DEF Sound
<1>2. CASE NewDay
  BY <1>1, <1>2, RoomsAssumption DEF NewDay, Day, Sound, TypeOK
<1>3. ASSUME NEW c \in Conn, Request(c)
      PROVE  Sound'
  <2>1. CASE \E l \in Line, op \in {"allocate", "check_out"} : BeginLine(c, op, l)
    BY <2>1, BeginLineSound
  <2>2. CASE \E k \in Task, op \in TaskOp, result \in Result : ReadTask(c, op, k, result)
    BY <2>2, ReadTaskSound
  <2>3. CASE \E r \in Room, op \in StaffOp : ReadRoom(c, op, r)
    BY <2>3, ReadRoomSound
  <2>4. "inspect" \in TaskOp /\ "pass" \in Result /\ Result = {"pass", "fail"}
    BY OpNames DEF Result
  <2>5. QED
    BY <1>3, <2>1, <2>2, <2>3, <2>4 DEF Request
<1>4. ASSUME NEW c \in Conn, Step(c)
      PROVE  Sound'
  BY <1>4, AllocateStepsSound, CheckOutStepsSound, TaskStepsSound, UpdateRoomSound, CommitSound
     DEF Step
<1>5. ASSUME NEW c \in Conn, ConnectionLost(c)
      PROVE  Sound'
  BY <1>5, RollbackSound DEF ConnectionLost
<1>6. CASE UNCHANGED vars
  BY <1>1, <1>6 DEF vars, committedVars, Sound, TypeOK
<1>7. QED
  BY <1>2, <1>3, <1>4, <1>5, <1>6 DEF Next

(* Every row is well-formed, and what a transaction has seen is true while  *)
(* the row's version stands, whatever calls overlap                         *)
(* (apps/shared/models/mixins.py, VersionedMixin.save).                     *)
THEOREM TransactionsSound == Spec => []Sound
BY InitSound, NextSound, PTL DEF Spec

(* The tables are always well-formed. *)
THEOREM RoomsTypeCorrect == Spec => []TypeOK
<1>1. Sound => TypeOK
  BY DEF Sound
<1>2. QED
  BY <1>1, TransactionsSound, PTL

-----------------------------------------------------------------------------
(* Rooms, guests and tasks.                                                *)
LEMMA TablesChangeOnCommit ==
  ASSUME [Next]_vars
  PROVE  \/ UNCHANGED <<lineVars, roomVars, taskVars>>
         \/ \E c \in Conn : txn[c] # Idle /\ Commit(c)
<1>1. CASE UNCHANGED vars \/ NewDay
  BY <1>1 DEF vars, committedVars, NewDay
<1>2. ASSUME NEW c \in Conn, Request(c)
      PROVE  UNCHANGED committedVars
  BY <1>2 DEF Request, BeginLine, ReadTask, ReadRoom, Begin
<1>3. ASSUME NEW c \in Conn, Step(c), ~Commit(c)
      PROVE  UNCHANGED committedVars
  BY <1>3 DEF Step, LockLineAndScore, LockCandidate, ChooseRoom, LockLineAndReadRoom,
              InsertInspection, UpdateRoom, UpdateTask, InsertTask, Advance, Rollback
<1>4. ASSUME NEW c \in Conn, ConnectionLost(c)
      PROVE  UNCHANGED committedVars
  BY <1>4 DEF ConnectionLost, Rollback
<1>5. ASSUME NEW c \in Conn, Step(c)
      PROVE  txn[c] # Idle
  BY <1>5 DEF Step
<1>6. QED
  BY <1>1, <1>2, <1>3, <1>4, <1>5 DEF Next, committedVars

Occupied == {"occupied_clean", "occupied_dirty"}

(* Where transitions lead, as far as guests and tasks are concerned. *)
LEMMA Moves ==
  ASSUME NEW op \in RoomOp, NEW result \in Result
  PROVE  LET from == Source(op, result)
             to == Target(op, result)
         IN /\ op = "allocate" => from = "vacant_clean" /\ to = "occupied_clean"
            /\ op = "check_out" => from = "occupied_clean" /\ to = "vacant_dirty"
            /\ op = "start_cleaning" => from = "vacant_dirty" /\ to = "cleaning"
            /\ op = "complete_cleaning" => from = "cleaning" /\ to = "inspected"
            /\ op = "inspect" => /\ from = "inspected"
                                 /\ to = IF result = "pass" THEN "vacant_clean" ELSE "cleaning"
            /\ op \in StaffOp => /\ from \notin {"vacant_dirty", "cleaning", "inspected"}
                                 /\ op # "maintenance" => (from \in Occupied <=> to \in Occupied)
BY RoomsAssumption
   DEF Source, Target, RoomTransition, Transition, RoomOp, Result, Occupied

LEMMA InHouseStep ==
  ASSUME Sound, OccupiedIffCheckedIn, "maintenance" \notin StaffOp,
         NEW c \in Conn, txn[c] # Idle, Commit(c)
  PROVE  OccupiedIffCheckedIn'
<1> DEFINE t == txn[c]
<1>1. t.at = "commit"
  BY DEF Commit
<1>2. /\ t.op \in RoomOp \cup {"assign"} /\ t.result \in Result
      /\ t.op # "assign" => t.room \in Room /\ room_state[t.room] = Source(t.op, t.result)
      /\ t.op = "allocate" => AllocateKnows(c, t)
      /\ t.op = "check_out" => CheckOutKnows(c, t)
  BY <1>1, ReadyToCommit DEF Txn, Result
<1>3. TypeOK
  BY DEF Sound
<1>4. SUFFICES ASSUME NEW r \in Room
               PROVE  InHouse(r)' = IF room_state'[r] \in Occupied THEN {current_line'[r]} ELSE {}
  BY DEF OccupiedIffCheckedIn, Occupied
<1>5. InHouse(r) = IF room_state[r] \in Occupied THEN {current_line[r]} ELSE {}
  BY DEF OccupiedIffCheckedIn, Occupied
<1>6. CASE t.op = "allocate"
  <2>1. t.line \in Line /\ line_status[t.line] = "confirmed"
    BY <1>1, <1>2, <1>6 DEF AllocateKnows
  <2>2. /\ line_status' = [line_status EXCEPT ![t.line] = "checked_in"]
        /\ line_room' = [line_room EXCEPT ![t.line] = t.room]
        /\ room_state' = [room_state EXCEPT ![t.room] = Target(t.op, t.result)]
        /\ current_line' = [current_line EXCEPT ![t.room] = t.line]
    BY <1>6 DEF Commit, CommitLine, CommitRoom
  <2>3. room_state[t.room] = "vacant_clean" /\ Target(t.op, t.result) = "occupied_clean"
    BY <1>2, <1>6, Moves DEF RoomOp
  <2>4. InHouse(r)' = IF r = t.room THEN InHouse(r) \cup {t.line} ELSE InHouse(r)
    BY <1>2, <1>3, <1>6, <2>1, <2>2 DEF InHouse, TypeOK
  <2>5. QED
    BY <1>2, <1>3, <1>5, <1>6, <2>2, <2>3, <2>4 DEF TypeOK, Occupied
<1>7. CASE t.op = "check_out"
  <2>1. t.line \in Line /\ line_status[t.line] = "checked_in" /\ line_room[t.line] = t.room
    BY <1>1, <1>2, <1>7 DEF CheckOutKnows
  <2>2. /\ line_status' = [line_status EXCEPT ![t.line] = "checked_out"]
        /\ line_room' = line_room
        /\ room_state' = [room_state EXCEPT ![t.room] = Target(t.op, t.result)]
        /\ current_line' = current_line
    BY <1>7 DEF Commit, CommitLine, CommitRoom
  <2>3. room_state[t.room] = "occupied_clean" /\ Target(t.op, t.result) = "vacant_dirty"
    BY <1>2, <1>7, Moves DEF RoomOp
  <2>4. InHouse(r)' = InHouse(r) \ {t.line}
    BY <1>3, <2>1, <2>2 DEF InHouse, TypeOK
  <2>5. r # t.room => t.line \notin InHouse(r)
    BY <2>1 DEF InHouse
  <2>6. r = t.room => t.line \in InHouse(r)
    BY <2>1 DEF InHouse
  <2>7. QED
    BY <1>2, <1>3, <1>5, <1>7, <2>2, <2>3, <2>4, <2>5, <2>6 DEF TypeOK, Occupied
<1>8. CASE t.op \notin {"allocate", "check_out"}
  <2>1. InHouse(r)' = InHouse(r) /\ current_line' = current_line
    BY <1>8 DEF Commit, CommitLine, CommitRoom, InHouse, lineVars, roomVars
  <2>2. room_state'[r] \in Occupied <=> room_state[r] \in Occupied
    <3>1. CASE t.op = "assign"
      BY <3>1 DEF Commit, CommitRoom, roomVars
    <3>2. CASE t.op # "assign"
      <4>1. Source(t.op, t.result) \in Occupied <=> Target(t.op, t.result) \in Occupied
        BY <1>2, <1>8, <3>2, Moves DEF RoomOp, Occupied
      <4>2. room_state' = [room_state EXCEPT ![t.room] = Target(t.op, t.result)]
        BY <3>2 DEF Commit, CommitRoom
      <4>3. QED
        BY <1>2, <1>3, <3>2, <4>1, <4>2 DEF TypeOK
    <3>3. QED
      BY <3>1, <3>2
  <2>3. QED
    BY <1>5, <2>1, <2>2
<1>9. QED
  BY <1>6, <1>7, <1>8

(* A room is occupied exactly while a checked-in line has it                *)
(* (apps/allocation/services.py, apps/housekeeping/services.py), as long as *)
(* nobody takes an occupied room out of order under its guest.              *)
THEOREM RoomsMatchGuests ==
  ASSUME "maintenance" \notin StaffOp
  PROVE  Spec => []OccupiedIffCheckedIn
<1>1. Init => OccupiedIffCheckedIn
  BY DEF Init, OccupiedIffCheckedIn, InHouse
<1>2. Sound /\ OccupiedIffCheckedIn /\ [Next]_vars => OccupiedIffCheckedIn'
  <2> SUFFICES ASSUME Sound, OccupiedIffCheckedIn, [Next]_vars
               PROVE  OccupiedIffCheckedIn'
    OBVIOUS
  <2>1. CASE UNCHANGED <<lineVars, roomVars, taskVars>>
    BY <2>1 DEF OccupiedIffCheckedIn, InHouse, lineVars, roomVars
  <2>2. QED
    BY <2>1, InHouseStep, TablesChangeOnCommit
<1>3. QED
  BY <1>1, <1>2, TransactionsSound, PTL DEF Spec

(* No room is ever given to two guests (README.md:73). *)
THEOREM NoDoubleAssignment ==
  ASSUME "maintenance" \notin StaffOp
  PROVE  Spec => []OneGuestPerRoom
<1>1. OccupiedIffCheckedIn => OneGuestPerRoom
  <2> SUFFICES ASSUME OccupiedIffCheckedIn, NEW r \in Room
               PROVE  Cardinality(InHouse(r)) =< 1
    BY DEF OneGuestPerRoom
  <2>1. CASE InHouse(r) = {current_line[r]}
    <3>1. Cardinality({current_line[r]}) = 1
      BY FS_Singleton
    <3>2. QED
      BY <2>1, <3>1
  <2>2. CASE InHouse(r) = {}
    <3>1. Cardinality(InHouse(r)) = 0
      BY <2>2, FS_EmptySet
    <3>2. QED
      BY <3>1
  <2>3. QED
    BY <2>1, <2>2 DEF OccupiedIffCheckedIn
<1>2. QED
  BY <1>1, RoomsMatchGuests, PTL
-----------------------------------------------------------------------------
(* Rooms and tasks.                                                         *)
LEMMA TasksStep ==
  ASSUME Sound, TaskMatchesRoom, NEW c \in Conn, txn[c] # Idle, Commit(c)
  PROVE  TaskMatchesRoom'
<1> DEFINE t == txn[c]
           Of(status) == CASE status \in {"planned", "assigned"} -> "vacant_dirty"
                           [] status = "in_progress" -> "cleaning"
                           [] status = "quality_check" -> "inspected"
           Open == {"planned", "assigned", "in_progress", "quality_check"}
<1>1. /\ TypeOK /\ t.op \in RoomOp \cup {"assign"} /\ t.result \in Result
      /\ t.op # "assign" => t.room \in Room /\ room_state[t.room] = Source(t.op, t.result)
      /\ t.op = "check_out" => t.task \in Task /\ t.task[1] = t.room
      /\ t.op \in TaskOp => /\ t.task \in Task /\ t.task[1] = t.room
                            /\ task_status[t.task] \in TaskSource[t.op]
  <2>1. t.at = "commit"
    BY DEF Commit
  <2>2. QED
    BY <2>1, ReadyToCommit DEF Sound, Txn, Result, CheckOutKnows, TaskOpKnows
<1>2. /\ \A k \in Task : OpenTask(k) <=> task_status[k] \in Open
      /\ \A k \in Task : OpenTask(k)' <=> task_status'[k] \in Open
  <2>1. TypeOK'
    BY CommitEffects
  <2>2. QED
    BY <1>1, <2>1 DEF OpenTask, TypeOK, TaskStatus
<1>3. \A k \in Task : task_status[k] \in Open =>
        /\ \A other \in Task : task_status[other] \in Open /\ other[1] = k[1] => other = k
        /\ room_state[k[1]] = Of(task_status[k])
  BY <1>2 DEF TaskMatchesRoom
<1>4. SUFFICES ASSUME NEW k \in Task, task_status'[k] \in Open
               PROVE  /\ \A other \in Task :
                           task_status'[other] \in Open /\ other[1] = k[1] => other = k
                      /\ room_state'[k[1]] = Of(task_status'[k])
  BY <1>2 DEF TaskMatchesRoom
<1>5. \A j \in Task : j[1] \in Room
  BY DEF Task
<1>6. CASE t.op = "check_out"
  <2>1. /\ task_status' = [task_status EXCEPT ![t.task] = "planned"]
        /\ room_state' = [room_state EXCEPT ![t.room] = "vacant_dirty"]
        /\ room_state[t.room] = "occupied_clean"
    <3>1. /\ room_state[t.room] = "occupied_clean" /\ Target(t.op, t.result) = "vacant_dirty"
      BY <1>1, <1>6, Moves DEF RoomOp
    <3>2. /\ task_status' = [task_status EXCEPT ![t.task] = "planned"]
          /\ room_state' = [room_state EXCEPT ![t.room] = Target(t.op, t.result)]
      BY <1>6, OpNames DEF Commit, CommitTask, CommitRoom
    <3>3. QED
      BY <3>1, <3>2
  <2>2. \A j \in Task : j[1] = t.room => task_status[j] \notin Open
    BY <1>3, <2>1
  <2>3. QED
    BY <1>1, <1>3, <1>4, <1>5, <1>6, <2>1, <2>2 DEF TypeOK
<1>7. CASE t.op \in TaskOp
  <2>1. /\ task_status' = [task_status EXCEPT ![t.task] = TaskTarget(t.op, t.result)]
        /\ task_status[t.task] \in Open
    BY <1>1, <1>7, OpNames DEF Commit, CommitTask, TaskSource
  <2>2. CASE t.op = "assign"
    <3>1. /\ room_state' = room_state
          /\ TaskTarget(t.op, t.result) = "assigned" /\ task_status[t.task] = "planned"
      BY <1>1, <1>7, <2>2 DEF Commit, CommitRoom, roomVars, TaskTarget, TaskSource
    <3>2. QED
      BY <1>1, <1>3, <1>4, <2>1, <3>1 DEF TypeOK
  <2>3. CASE t.op # "assign"
    <3>1. /\ room_state' = [room_state EXCEPT ![t.room] = Target(t.op, t.result)]
          /\ TaskTarget(t.op, t.result) \in Open =>
               Target(t.op, t.result) = Of(TaskTarget(t.op, t.result))
      <4>1. room_state' = [room_state EXCEPT ![t.room] = Target(t.op, t.result)]
        BY <2>3 DEF Commit, CommitRoom
      <4>2. t.op \in {"start_cleaning", "complete_cleaning", "inspect"}
        BY <1>7, <2>3, OpNames
      <4>3. QED
        BY <1>1, <4>1, <4>2, Moves DEF RoomOp, TaskTarget, Result
    <3>2. \A j \in Task : j # t.task /\ j[1] = t.room => task_status[j] \notin Open
      BY <1>1, <1>3, <1>7, <2>1
    <3>3. QED
      BY <1>1, <1>3, <1>4, <1>5, <1>7, <2>1, <2>3, <3>1, <3>2 DEF TypeOK
  <2>4. QED
    BY <2>2, <2>3
<1>8. CASE t.op = "allocate" \/ t.op \in StaffOp
  <2>1. task_status' = task_status
    BY <1>8, OpNames DEF Commit, CommitTask, taskVars
  <2>2. room_state[t.room] \notin {"vacant_dirty", "cleaning", "inspected"}
    BY <1>1, <1>8, OpNames, Moves DEF RoomOp
  <2>3. room_state' = [room_state EXCEPT ![t.room] = Target(t.op, t.result)]
    BY <1>8, OpNames DEF Commit, CommitRoom
  <2>4. k[1] # t.room
    BY <1>3, <1>4, <2>1, <2>2
  <2>5. QED
    BY <1>1, <1>3, <1>4, <1>5, <2>1, <2>3, <2>4 DEF TypeOK
<1>9. QED
  BY <1>1, <1>6, <1>7, <1>8, OpNames DEF RoomOp

(* The task's state machine and the room's keep in step, whatever calls     *)
(* overlap and whatever the staff does to rooms directly                    *)
(* (apps/housekeeping/models.py:117-122).                                   *)
THEOREM TasksMatchRooms == Spec => []TaskMatchesRoom
<1>1. Init => TaskMatchesRoom
  BY DEF Init, TaskMatchesRoom, OpenTask
<1>2. Sound /\ TaskMatchesRoom /\ [Next]_vars => TaskMatchesRoom'
  <2> SUFFICES ASSUME Sound, TaskMatchesRoom, [Next]_vars
               PROVE  TaskMatchesRoom'
    OBVIOUS
  <2>1. CASE UNCHANGED <<lineVars, roomVars, taskVars>>
    BY <2>1 DEF TaskMatchesRoom, OpenTask, lineVars, roomVars, taskVars
  <2>2. QED
    BY <2>1, TasksStep, TablesChangeOnCommit
<1>3. QED
  BY <1>1, <1>2, TransactionsSound, PTL DEF Spec

LEMMA DeparturesStep ==
  ASSUME Sound, OneTaskPerDeparture, NEW c \in Conn, txn[c] # Idle, Commit(c)
  PROVE  OneTaskPerDeparture'
<1> DEFINE t == txn[c]
<1>1. /\ TypeOK /\ TypeOK' /\ t.op \in RoomOp \cup {"assign"} /\ t.result \in Result
      /\ t.op = "allocate" => t.line \in Line /\ line_status[t.line] = "confirmed"
      /\ t.op = "check_out" => /\ t.line \in Line /\ line_room[t.line] = t.room
                               /\ t.task \in Task /\ t.task[1] = t.room
                               /\ task_status[t.task] = "none"
      /\ t.op \in TaskOp => t.task \in Task
  <2>1. t.at = "commit"
    BY DEF Commit
  <2>2. QED
    BY <2>1, ReadyToCommit, CommitEffects
       DEF Sound, Txn, Result, AllocateKnows, CheckOutKnows, TaskOpKnows
<1>2. SUFFICES ASSUME NEW l \in Line, line_status'[l] = "checked_out"
               PROVE  \E k \in Task : /\ task_line'[k] = l /\ k[1] = line_room'[l]
                                      /\ task_status'[k] # "none"
  BY DEF OneTaskPerDeparture
<1>3. CASE t.op = "check_out" /\ l = t.line
  <2>1. task_line'[t.task] = l /\ line_room' = line_room /\ task_status'[t.task] = "planned"
    <3>1. /\ task_line' = [task_line EXCEPT ![t.task] = t.line]
          /\ task_status' = [task_status EXCEPT ![t.task] = "planned"]
          /\ line_room' = line_room
      BY <1>3, OpNames DEF Commit, CommitTask, CommitLine
    <3>2. QED
      BY <1>1, <1>3, <3>1 DEF TypeOK
  <2>2. QED
    BY <1>1, <1>3, <2>1
<1>4. CASE ~(t.op = "check_out" /\ l = t.line)
  <2>1. line_status[l] = "checked_out" /\ line_room'[l] = line_room[l]
    BY <1>1, <1>2, <1>4 DEF Commit, CommitLine, TypeOK, lineVars
  <2>2. PICK k \in Task : task_line[k] = l /\ k[1] = line_room[l] /\ task_status[k] # "none"
    BY <2>1 DEF OneTaskPerDeparture
  <2>3. CASE t.op = "check_out"
    BY <1>1, <2>1, <2>2, <2>3 DEF Commit, CommitTask, TypeOK
  <2>4. CASE t.op \in TaskOp
    <3>1. TaskTarget(t.op, t.result) # "none"
      BY <1>1, <2>4, OpNames DEF TaskTarget, Result
    <3>2. task_line' = task_line
          /\ task_status' = [task_status EXCEPT ![t.task] = TaskTarget(t.op, t.result)]
      BY <2>4, OpNames DEF Commit, CommitTask
    <3>3. QED
      BY <1>1, <2>1, <2>2, <3>1, <3>2 DEF TypeOK
  <2>5. CASE t.op \notin TaskOp \cup {"check_out"}
    BY <2>1, <2>2, <2>5 DEF Commit, CommitTask, taskVars
  <2>6. QED
    BY <2>3, <2>4, <2>5
<1>5. QED
  BY <1>3, <1>4

(* Every departure leaves its own cleaning task: a check-out that cannot    *)
(* open one does not happen (apps/housekeeping/services.py:79-92).          *)
THEOREM DeparturesLeaveTasks == Spec => []OneTaskPerDeparture
<1>1. Init => OneTaskPerDeparture
  BY DEF Init, OneTaskPerDeparture
<1>2. Sound /\ OneTaskPerDeparture /\ [Next]_vars => OneTaskPerDeparture'
  <2> SUFFICES ASSUME Sound, OneTaskPerDeparture, [Next]_vars
               PROVE  OneTaskPerDeparture'
    OBVIOUS
  <2>1. CASE UNCHANGED <<lineVars, roomVars, taskVars>>
    BY <2>1 DEF OneTaskPerDeparture, lineVars, roomVars, taskVars
  <2>2. QED
    BY <2>1, DeparturesStep, TablesChangeOnCommit
<1>3. QED
  BY <1>1, <1>2, TransactionsSound, PTL DEF Spec
-----------------------------------------------------------------------------
(* The transactions implement the turnover of rooms.                        *)
RoomPhase == [r \in Room |-> Phase(r)]

RoomGuest == [r \in Room |-> IF InHouse(r) = {} THEN NoLine ELSE CHOOSE l \in InHouse(r) : TRUE]

Departed == {l \in Line : line_status[l] = "checked_out"}

PhaseOf(state) ==
  CASE state = "vacant_clean" -> "ready"
    [] state \in Occupied -> "occupied"
    [] state = "vacant_dirty" -> "dirty"
    [] OTHER -> state

LEMMA GuestIs ==
  OccupiedIffCheckedIn =>
    /\ RoomGuest = [r \in Room |-> IF room_state[r] \in Occupied THEN current_line[r] ELSE NoLine]
    /\ \A r \in Room : room_state[r] \in Occupied => InHouse(r) = {current_line[r]}
<1> SUFFICES ASSUME OccupiedIffCheckedIn
             PROVE  /\ RoomGuest = [r \in Room |-> IF room_state[r] \in Occupied
                                                   THEN current_line[r] ELSE NoLine]
                    /\ \A r \in Room : room_state[r] \in Occupied => InHouse(r) = {current_line[r]}
  OBVIOUS
<1>1. ASSUME NEW r \in Room
      PROVE  /\ room_state[r] \in Occupied => InHouse(r) = {current_line[r]}
             /\ room_state[r] \notin Occupied => InHouse(r) = {}
  BY DEF OccupiedIffCheckedIn, Occupied
<1>2. ASSUME NEW r \in Room
      PROVE  (IF InHouse(r) = {} THEN NoLine ELSE CHOOSE l \in InHouse(r) : TRUE)
               = IF room_state[r] \in Occupied THEN current_line[r] ELSE NoLine
  BY <1>1
<1>3. QED
  BY <1>1, <1>2 DEF RoomGuest

LEMMA GuestIsThen ==
  OccupiedIffCheckedIn' =>
    RoomGuest' = [r \in Room |-> IF room_state'[r] \in Occupied THEN current_line'[r] ELSE NoLine]
<1>1. OccupiedIffCheckedIn =>
        RoomGuest = [r \in Room |-> IF room_state[r] \in Occupied THEN current_line[r] ELSE NoLine]
  BY GuestIs
<1>2. (OccupiedIffCheckedIn =>
        RoomGuest = [r \in Room |-> IF room_state[r] \in Occupied THEN current_line[r] ELSE NoLine])'
  BY <1>1, PTL
<1>3. QED
  BY <1>2

LEMMA Turns ==
  ASSUME NEW op \in RoomOp \ {"allocate", "check_out"}, NEW result \in Result,
         StaffOp \cap {"maintenance", "restore_direct"} = {}
  PROVE  LET from == PhaseOf(Source(op, result))
             to == PhaseOf(Target(op, result))
         IN from = to \/ <<from, to>> \in {<<"dirty", "cleaning">>, <<"cleaning", "inspected">>,
                                          <<"inspected", "ready">>, <<"inspected", "cleaning">>,
                                          <<"ready", "out_of_service">>,
                                          <<"out_of_service", "cleaning">>}
<1>1. op \in {"start_cleaning", "complete_cleaning", "inspect",
              "service", "service_complete", "defect", "restore"}
  BY RoomsAssumption DEF RoomOp
<1>2. /\ Transition["clean"] = <<"vacant_dirty", "cleaning">>
      /\ Transition["complete_cleaning"] = <<"cleaning", "inspected">>
      /\ Transition["approve"] = <<"inspected", "vacant_clean">>
      /\ Transition["reject"] = <<"inspected", "cleaning">>
      /\ Transition["service"] = <<"occupied_clean", "occupied_dirty">>
      /\ Transition["service_complete"] = <<"occupied_dirty", "occupied_clean">>
      /\ Transition["defect"] = <<"vacant_clean", "out_of_service">>
      /\ Transition["restore"] = <<"out_of_service", "cleaning">>
  BY DEF Transition
<1>3. CASE op = "inspect"
  <2>1. RoomTransition(op, result) \in {"approve", "reject"}
    BY <1>3 DEF RoomTransition
  <2>2. Source(op, result) = "inspected" /\ Target(op, result) \in {"vacant_clean", "cleaning"}
    BY <1>2, <2>1 DEF Source, Target
  <2>3. QED
    BY <2>2 DEF PhaseOf, Occupied
<1>4. CASE op = "start_cleaning"
  <2>1. RoomTransition(op, result) = "clean"
    BY <1>4 DEF RoomTransition
  <2>2. Source(op, result) = "vacant_dirty" /\ Target(op, result) = "cleaning"
    BY <1>2, <2>1 DEF Source, Target
  <2>3. QED
    BY <2>2 DEF PhaseOf, Occupied
<1>5. CASE op = "complete_cleaning"
  <2>1. RoomTransition(op, result) = "complete_cleaning"
    BY <1>5 DEF RoomTransition
  <2>2. Source(op, result) = "cleaning" /\ Target(op, result) = "inspected"
    BY <1>2, <2>1 DEF Source, Target
  <2>3. QED
    BY <2>2 DEF PhaseOf, Occupied
<1>6. CASE op = "service"
  <2>1. RoomTransition(op, result) = "service"
    BY <1>6 DEF RoomTransition
  <2>2. Source(op, result) = "occupied_clean" /\ Target(op, result) = "occupied_dirty"
    BY <1>2, <2>1 DEF Source, Target
  <2>3. QED
    BY <2>2 DEF PhaseOf, Occupied
<1>7. CASE op = "service_complete"
  <2>1. RoomTransition(op, result) = "service_complete"
    BY <1>7 DEF RoomTransition
  <2>2. Source(op, result) = "occupied_dirty" /\ Target(op, result) = "occupied_clean"
    BY <1>2, <2>1 DEF Source, Target
  <2>3. QED
    BY <2>2 DEF PhaseOf, Occupied
<1>8. CASE op = "defect"
  <2>1. RoomTransition(op, result) = "defect"
    BY <1>8 DEF RoomTransition
  <2>2. Source(op, result) = "vacant_clean" /\ Target(op, result) = "out_of_service"
    BY <1>2, <2>1 DEF Source, Target
  <2>3. QED
    BY <2>2 DEF PhaseOf, Occupied
<1>9. CASE op = "restore"
  <2>1. RoomTransition(op, result) = "restore"
    BY <1>9 DEF RoomTransition
  <2>2. Source(op, result) = "out_of_service" /\ Target(op, result) = "cleaning"
    BY <1>2, <2>1 DEF Source, Target
  <2>3. QED
    BY <2>2 DEF PhaseOf, Occupied
<1>10. QED
  BY <1>1, <1>3, <1>4, <1>5, <1>6, <1>7, <1>8, <1>9

LEMMA TurnoverStep ==
  ASSUME Sound, OccupiedIffCheckedIn, OccupiedIffCheckedIn',
         StaffOp \cap {"maintenance", "restore_direct"} = {},
         NEW c \in Conn, txn[c] # Idle, Commit(c)
  PROVE  Turnover!Next \/ UNCHANGED <<RoomPhase, RoomGuest, Departed>>
<1> DEFINE t == txn[c]
           r == t.room
           GuestTable(state, line) == [q \in Room |-> IF state[q] \in Occupied THEN line[q] ELSE NoLine]
<1>1. /\ TypeOK /\ TypeOK' /\ t.op \in RoomOp \cup {"assign"} /\ t.result \in Result
      /\ t.op # "assign" => r \in Room /\ room_state[r] = Source(t.op, t.result)
      /\ t.op = "allocate" => t.line \in Line /\ line_status[t.line] = "confirmed"
      /\ t.op = "check_out" => /\ t.line \in Line /\ line_room[t.line] = r
                               /\ line_status[t.line] = "checked_in"
  <2>1. t.at = "commit"
    BY DEF Commit
  <2>2. QED
    BY <2>1, ReadyToCommit, CommitEffects DEF Sound, Txn, Result, AllocateKnows, CheckOutKnows
<1>2. RoomGuest = GuestTable(room_state, current_line)
      /\ RoomGuest' = GuestTable(room_state', current_line')
  BY GuestIs, GuestIsThen
<1>3. RoomPhase = [q \in Room |-> PhaseOf(room_state[q])]
      /\ RoomPhase' = [q \in Room |-> PhaseOf(room_state'[q])]
  BY DEF RoomPhase, Phase, PhaseOf, Occupied
<1>4. CASE t.op = "assign"
  BY <1>2, <1>3, <1>4, OpNames DEF Commit, CommitRoom, CommitLine, roomVars, lineVars, Departed
<1>5. ASSUME t.op # "assign"
      PROVE  /\ room_state' = [room_state EXCEPT ![r] = Target(t.op, t.result)]
             /\ RoomPhase' = [RoomPhase EXCEPT ![r] = PhaseOf(Target(t.op, t.result))]
             /\ RoomPhase[r] = PhaseOf(Source(t.op, t.result))
  <2>1. room_state' = [room_state EXCEPT ![r] = Target(t.op, t.result)]
    BY <1>5 DEF Commit, CommitRoom
  <2>2. QED
    BY <1>1, <1>3, <1>5, <2>1 DEF TypeOK
<1>6. CASE t.op = "allocate"
  <2>1. RoomPhase[r] = "ready" /\ RoomPhase' = [RoomPhase EXCEPT ![r] = "occupied"]
    BY <1>1, <1>5, <1>6, Moves DEF RoomOp, PhaseOf, Occupied
  <2>2. /\ line_status' = [line_status EXCEPT ![t.line] = "checked_in"]
        /\ current_line' = [current_line EXCEPT ![r] = t.line]
    BY <1>6 DEF Commit, CommitLine, CommitRoom
  <2>3. t.line \notin Departed /\ Departed' = Departed
    BY <1>1, <1>6, <2>2 DEF Departed, TypeOK
  <2>4. ASSUME NEW other \in Room
        PROVE  RoomGuest[other] # t.line
    <3>1. CASE room_state[other] \in Occupied
      <4>1. current_line[other] \in InHouse(other)
        BY <3>1, GuestIs
      <4>2. line_status[current_line[other]] = "checked_in"
        BY <4>1 DEF InHouse
      <4>3. QED
        BY <1>1, <1>2, <1>6, <3>1, <4>2
    <3>2. CASE room_state[other] \notin Occupied
      BY <1>1, <1>2, <1>6, <3>2, RoomsAssumption
    <3>3. QED
      BY <3>1, <3>2
  <2>5. RoomGuest' = [RoomGuest EXCEPT ![r] = t.line]
    <3>1. Target(t.op, t.result) \in Occupied
      BY <1>1, <1>6, Moves DEF RoomOp, Occupied
    <3>2. QED
      BY <1>1, <1>2, <1>5, <1>6, <2>2, <3>1 DEF TypeOK
  <2>6. Turnover!CheckIn(t.line, r)
    BY <2>1, <2>3, <2>4, <2>5
       DEF Turnover!CheckIn, Turnover!Move, RoomPhase, RoomGuest, Departed
  <2>7. QED
    BY <1>1, <1>6, <2>6 DEF Turnover!Next
<1>7. CASE t.op = "check_out"
  <2>1. RoomPhase[r] = "occupied" /\ RoomPhase' = [RoomPhase EXCEPT ![r] = "dirty"]
    BY <1>1, <1>5, <1>7, Moves DEF RoomOp, PhaseOf, Occupied
  <2>2. /\ line_status' = [line_status EXCEPT ![t.line] = "checked_out"]
        /\ current_line' = current_line
    BY <1>7 DEF Commit, CommitLine, CommitRoom
  <2>3. RoomGuest[r] = t.line
    <3>1. room_state[r] \in Occupied /\ t.line \in InHouse(r)
      BY <1>1, <1>7, Moves DEF RoomOp, Occupied, InHouse
    <3>2. QED
      BY <1>1, <1>2, <1>7, <3>1, GuestIs
  <2>4. Departed' = Departed \cup {RoomGuest[r]}
    BY <1>1, <1>7, <2>2, <2>3 DEF Departed, TypeOK
  <2>5. RoomGuest' = [RoomGuest EXCEPT ![r] = NoLine]
    <3>1. Target(t.op, t.result) \notin Occupied
      BY <1>1, <1>7, Moves DEF RoomOp, Occupied
    <3>2. QED
      BY <1>1, <1>2, <1>5, <1>7, <2>2, <3>1 DEF TypeOK
  <2>6. Turnover!CheckOut(r)
    BY <2>1, <2>4, <2>5
       DEF Turnover!CheckOut, Turnover!Move, RoomPhase, RoomGuest, Departed
  <2>7. r \in Room
    BY <1>1, <1>7
  <2>8. \E q \in Room : Turnover!CheckOut(q)
    BY <2>6, <2>7 DEF Turnover!CheckOut, Turnover!Move
  <2>9. QED
    BY <2>8 DEF Turnover!Next
<1>8. CASE t.op \notin {"assign", "allocate", "check_out"}
  <2>1. current_line' = current_line /\ Departed' = Departed
    BY <1>8 DEF Commit, CommitLine, CommitRoom, lineVars, Departed
  <2>2. Source(t.op, t.result) \in Occupied <=> Target(t.op, t.result) \in Occupied
    <3>1. t.op \in {"start_cleaning", "complete_cleaning", "inspect"} \cup StaffOp
      BY <1>1, <1>8 DEF RoomOp
    <3>2. CASE t.op \in StaffOp
      BY <1>1, <1>8, <3>2, Moves
    <3>3. CASE t.op \in {"start_cleaning", "complete_cleaning", "inspect"}
      BY <1>1, <1>8, <3>3, Moves DEF Occupied
    <3>4. QED
      BY <3>1, <3>2, <3>3
  <2>3. RoomGuest' = RoomGuest
    BY <1>1, <1>2, <1>5, <1>8, <2>1, <2>2 DEF TypeOK
  <2>4. \/ PhaseOf(Source(t.op, t.result)) = PhaseOf(Target(t.op, t.result))
        \/ <<PhaseOf(Source(t.op, t.result)), PhaseOf(Target(t.op, t.result))>> \in
             {<<"dirty", "cleaning">>, <<"cleaning", "inspected">>, <<"inspected", "ready">>,
              <<"inspected", "cleaning">>, <<"ready", "out_of_service">>,
              <<"out_of_service", "cleaning">>}
    BY <1>1, <1>8, Turns
  <2>5. CASE PhaseOf(Source(t.op, t.result)) = PhaseOf(Target(t.op, t.result))
    <3>1. RoomPhase' = RoomPhase
      BY <1>5, <1>8, <2>5 DEF RoomPhase
    <3>2. QED
      BY <2>1, <2>3, <3>1
  <2>6. CASE PhaseOf(Source(t.op, t.result)) # PhaseOf(Target(t.op, t.result))
    <3>1. Turnover!Turn(r)
      BY <1>5, <1>8, <2>1, <2>3, <2>4, <2>6
         DEF Turnover!Turn, Turnover!Move, RoomPhase, RoomGuest, Departed
    <3>2. QED
      BY <1>1, <1>8, <3>1 DEF Turnover!Next
  <2>7. QED
    BY <2>5, <2>6
<1>9. QED
  BY <1>4, <1>6, <1>7, <1>8

(* Overlapping check-ins, check-outs, cleanings and inspections do to rooms *)
(* and guests only what one call at a time could do (RoomTurnover), as long *)
(* as no occupied room is taken out of order.                               *)
THEOREM ImplementsTurnover ==
  ASSUME StaffOp \cap {"maintenance", "restore_direct"} = {}
  PROVE  Spec => TurnoverSpec
<1>1. Init => Turnover!Init
  BY DEF Init, Turnover!Init, Phase, InHouse
<1>2. Sound /\ OccupiedIffCheckedIn /\ OccupiedIffCheckedIn' /\ [Next]_vars
        => [Turnover!Next]_(Turnover!vars)
  <2> SUFFICES ASSUME Sound, OccupiedIffCheckedIn, OccupiedIffCheckedIn', [Next]_vars
               PROVE  Turnover!Next \/ UNCHANGED <<RoomPhase, RoomGuest, Departed>>
    BY DEF Turnover!vars, RoomPhase, RoomGuest, Departed
  <2>1. CASE UNCHANGED <<lineVars, roomVars, taskVars>>
    BY <2>1 DEF RoomPhase, RoomGuest, Departed, Phase, InHouse, lineVars, roomVars
  <2>2. QED
    BY <2>1, TurnoverStep, TablesChangeOnCommit
<1>3. Spec => []OccupiedIffCheckedIn
  BY RoomsMatchGuests
<1>4. QED
  BY <1>1, <1>2, <1>3, TransactionsSound, PTL DEF Spec, TurnoverSpec, Turnover!Spec
-----------------------------------------------------------------------------
(* An open task is the one the room's last guest left behind.               *)
TaskOfLastGuest == \A k \in Task : OpenTask(k) => task_line[k] = current_line[k[1]]

LEMMA TaskOfLastGuestStep ==
  ASSUME Sound, OccupiedIffCheckedIn, TaskMatchesRoom, TaskOfLastGuest,
         NEW c \in Conn, txn[c] # Idle, Commit(c)
  PROVE  TaskOfLastGuest'
<1> DEFINE t == txn[c]
<1>1. /\ TypeOK /\ TypeOK' /\ t.op \in RoomOp \cup {"assign"} /\ t.result \in Result
      /\ t.op # "assign" => t.room \in Room /\ room_state[t.room] = Source(t.op, t.result)
      /\ t.op = "check_out" => /\ t.line \in Line /\ line_room[t.line] = t.room
                               /\ line_status[t.line] = "checked_in"
                               /\ t.task \in Task /\ t.task[1] = t.room
      /\ t.op \in TaskOp => t.task \in Task /\ task_status[t.task] \in TaskSource[t.op]
  <2>1. t.at = "commit"
    BY DEF Commit
  <2>2. QED
    BY <2>1, ReadyToCommit, CommitEffects DEF Sound, Txn, Result, CheckOutKnows, TaskOpKnows
<1>2. SUFFICES ASSUME NEW k \in Task, OpenTask(k)'
               PROVE  task_line'[k] = current_line'[k[1]]
  BY DEF TaskOfLastGuest
<1>3. k[1] \in Room
  BY DEF Task
<1>4. CASE t.op = "check_out"
  <2>1. /\ task_status' = [task_status EXCEPT ![t.task] = "planned"]
        /\ task_line' = [task_line EXCEPT ![t.task] = t.line]
        /\ current_line' = current_line
    BY <1>4, OpNames DEF Commit, CommitTask, CommitRoom
  <2>2. current_line[t.room] = t.line
    <3>1. room_state[t.room] = "occupied_clean" /\ t.line \in InHouse(t.room)
      BY <1>1, <1>4, Moves DEF RoomOp, InHouse
    <3>2. QED
      BY <1>1, <1>4, <3>1 DEF OccupiedIffCheckedIn
  <2>3. k # t.task => OpenTask(k)
    BY <1>1, <1>2, <1>4, <2>1 DEF OpenTask, TypeOK
  <2>4. QED
    BY <1>1, <1>4, <2>1, <2>2, <2>3 DEF TypeOK, TaskOfLastGuest
<1>5. CASE t.op = "allocate"
  <2>1. /\ task_status' = task_status /\ task_line' = task_line
        /\ current_line' = [current_line EXCEPT ![t.room] = t.line]
    BY <1>5, OpNames DEF Commit, CommitTask, CommitRoom, taskVars
  <2>2. OpenTask(k)
    BY <1>2, <2>1 DEF OpenTask
  <2>3. k[1] # t.room
    <3>1. room_state[t.room] = "vacant_clean"
      BY <1>1, <1>5, Moves DEF RoomOp
    <3>2. room_state[k[1]] # "vacant_clean"
      BY <1>1, <2>2 DEF TaskMatchesRoom, OpenTask, TypeOK, TaskStatus
    <3>3. QED
      BY <3>1, <3>2
  <2>4. QED
    BY <1>1, <1>3, <2>1, <2>2, <2>3 DEF TaskOfLastGuest, TypeOK
<1>6. CASE t.op \notin {"check_out", "allocate"}
  <2>1. task_line' = task_line /\ current_line' = current_line
    BY <1>6 DEF Commit, CommitTask, CommitRoom, taskVars, roomVars
  <2>2. OpenTask(k)
    <3>1. CASE t.op \in TaskOp
      <4>1. task_status' = [task_status EXCEPT ![t.task] = TaskTarget(t.op, t.result)]
        BY <1>6, <3>1 DEF Commit, CommitTask
      <4>2. task_status[t.task] \notin {"none", "verified", "defect"}
        BY <1>1, <3>1, OpNames DEF TaskSource
      <4>3. QED
        BY <1>1, <1>2, <4>1, <4>2 DEF OpenTask, TypeOK
    <3>2. CASE t.op \notin TaskOp
      <4>1. task_status' = task_status
        BY <1>6, <3>2 DEF Commit, CommitTask, taskVars
      <4>2. QED
        BY <1>2, <4>1 DEF OpenTask
    <3>3. QED
      BY <3>1, <3>2
  <2>3. QED
    BY <2>1, <2>2 DEF TaskOfLastGuest
<1>7. QED
  BY <1>4, <1>5, <1>6

LEMMA ReadyStep ==
  ASSUME Sound, TaskMatchesRoom, TaskOfLastGuest, "restore_direct" \notin StaffOp,
         NEW c \in Conn, txn[c] # Idle, Commit(c),
         NEW r \in Room, room_state[r] # "vacant_clean", room_state'[r] = "vacant_clean"
  PROVE  \E k \in Task : /\ k[1] = r /\ task_line[k] = current_line[r]
                         /\ verdict[k] = "none" /\ verdict'[k] = "pass"
<1> DEFINE t == txn[c]
<1>1. /\ TypeOK /\ t.op \in RoomOp \cup {"assign"} /\ t.result \in Result
      /\ t.op = "inspect" => /\ t.task \in Task /\ t.task[1] = t.room
                             /\ task_status[t.task] \in TaskSource[t.op]
                             /\ verdict[t.task] = "none"
  <2>1. t.at = "commit"
    BY DEF Commit
  <2>2. QED
    BY <2>1, ReadyToCommit, OpNames DEF Sound, Txn, Result, TaskOpKnows
<1>2. t.op # "assign" /\ r = t.room /\ Target(t.op, t.result) = "vacant_clean"
  BY <1>1 DEF Commit, CommitRoom, roomVars, TypeOK
<1>3. t.op = "inspect" /\ t.result = "pass"
  BY <1>1, <1>2, RoomsAssumption DEF RoomOp, Result, Target, RoomTransition, Transition
<1>4. verdict' = [verdict EXCEPT ![t.task] = "pass"]
  BY <1>3, OpNames DEF Commit, CommitTask
<1>5. task_line[t.task] = current_line[r]
  BY <1>1, <1>2, <1>3 DEF TaskOfLastGuest, OpenTask, TaskSource
<1>6. QED
  BY <1>1, <1>2, <1>3, <1>4, <1>5 DEF TypeOK

(* SDD S10.3: a room is offered again only by the approval of the task that *)
(* its last guest's departure opened (apps/housekeeping/services.py,        *)
(* inspect), as long as the staff does not put rooms back directly.         *)
THEOREM ReadyAfterInspection ==
  ASSUME StaffOp \cap {"maintenance", "restore_direct"} = {}
  PROVE  Spec => ReadyOnlyIfInspected
<1> DEFINE Inv == Sound /\ OccupiedIffCheckedIn /\ TaskMatchesRoom
           Ready == \A r \in Room :
                      room_state[r] # "vacant_clean" /\ room_state'[r] = "vacant_clean" =>
                        \E k \in Task : /\ k[1] = r /\ task_line[k] = current_line[r]
                                        /\ verdict[k] = "none" /\ verdict'[k] = "pass"
<1>1. Spec => []Inv
  <2>1. Spec => []OccupiedIffCheckedIn
    BY RoomsMatchGuests
  <2>2. QED
    BY <2>1, TransactionsSound, TasksMatchRooms, PTL
<1>2. Init => TaskOfLastGuest
  BY DEF Init, TaskOfLastGuest, OpenTask
<1>3. Inv /\ TaskOfLastGuest /\ [Next]_vars => TaskOfLastGuest' /\ [Ready]_vars
  <2> SUFFICES ASSUME Inv, TaskOfLastGuest, [Next]_vars
               PROVE  TaskOfLastGuest' /\ Ready
    OBVIOUS
  <2>1. CASE UNCHANGED <<lineVars, roomVars, taskVars>>
    BY <2>1 DEF TaskOfLastGuest, OpenTask, lineVars, roomVars, taskVars
  <2>2. ASSUME NEW c \in Conn, txn[c] # Idle, Commit(c)
        PROVE  TaskOfLastGuest' /\ Ready
    BY <2>2, TaskOfLastGuestStep, ReadyStep
  <2>3. QED
    BY <2>1, <2>2, TablesChangeOnCommit
<1>4. QED
  BY <1>1, <1>2, <1>3, PTL DEF Spec, ReadyOnlyIfInspected

-----------------------------------------------------------------------------
(* No cycle of waiting requests, for every set of connections and any       *)
(* finite set of rooms: the rows are taken in the order line, inspection,   *)
(* rooms by ascending id, task, and whoever holds a row and waits, waits    *)
(* for a later one.  How far a transaction is that holds row x:             *)
Holding(t, x) ==
  /\ x[1] = "line" => t.op \in {"allocate", "check_out"} /\ t.at # "line"
  /\ x[1] = "inspection" => t.op = "inspect" /\ t.at # "inspection"
  /\ x[1] = "room" => \/ t.at \in {"task", "commit"}
                      \/ /\ t.op = "allocate" /\ t.at = "candidates"
                         /\ \A q \in t.to_lock : x[2] < q
  /\ x[1] = "task" => t.at = "commit"

Ordered ==
  \A c \in Conn : \A x \in Record : held_by[x] = c => txn[c] # Idle /\ Holding(txn[c], x)

-----------------------------------------------------------------------------
(* Least and greatest rooms.                                                *)

LEMMA LeastRoom ==
  ASSUME NEW S \in SUBSET Room, S # {}
  PROVE  Min(S) \in S /\ \A y \in S : Min(S) =< y
<1> DEFINE R == OpToRel(<, Nat)
<1>1. S \subseteq Nat
  BY RoomsAssumption
<1>2. IsWellFoundedOn(R, Nat)
  BY NatLessThanWellFounded
<1>3. \A x, y \in Nat : <<x, y>> \in R <=> x < y
  BY DEF OpToRel
<1> HIDE DEF R
<1>4. PICK x \in S : \A y \in S : ~ (<<y, x>> \in R)
  BY <1>1, <1>2, WFMin
<1>5. ASSUME NEW y \in S
      PROVE  x =< y
  <2>1. ~ (y < x)
    BY <1>1, <1>3, <1>4
  <2>2. QED
    BY <1>1, <2>1
<1>6. QED
  BY <1>5 DEF Min

(* The rooms above a room shrink as it grows, and there are finitely many.  *)
LEMMA GreatestRoom ==
  ASSUME IsFiniteSet(Room), NEW S \in SUBSET Room, S # {}
  PROVE  \E x \in S : \A y \in S : ~ (x < y)
<1> DEFINE Above(x) == {y \in S : x < y}
           T == {Above(x) : x \in S}
           R == StrictSubsetOrdering(S)
<1>1. S \subseteq Nat /\ IsFiniteSet(S)
  BY RoomsAssumption, FS_Subset
<1>2. IsWellFoundedOn(R, FiniteSubsetsOf(S))
  BY FS_StrictSubsetOrderingWellFounded
<1>3. T \subseteq FiniteSubsetsOf(S) /\ T # {}
  <2>1. \A x \in S : Above(x) \subseteq S /\ IsFiniteSet(Above(x))
    BY <1>1, FS_Subset
  <2>2. QED
    BY <2>1 DEF FiniteSubsetsOf
<1>4. ASSUME NEW x \in S, NEW y \in S, x < y
      PROVE  <<Above(y), Above(x)>> \in R
  <2>1. Above(y) \subseteq Above(x)
    <3>1. SUFFICES ASSUME NEW z \in Above(y)
                   PROVE  z \in Above(x)
      OBVIOUS
    <3>2. z \in S /\ y < z
      OBVIOUS
    <3>3. x \in Nat /\ y \in Nat /\ z \in Nat
      BY <1>1, <1>4, <3>2
    <3> HIDE DEF Above
    <3>4. x < z
      BY <1>4, <3>2, <3>3
    <3>5. QED
      BY <3>2, <3>4 DEF Above
  <2>2. y \in Above(x) /\ y \notin Above(y)
    BY <1>1, <1>4
  <2>3. Above(x) \in SUBSET S /\ Above(y) \in SUBSET S
    OBVIOUS
  <2> HIDE DEF Above
  <2>4. Above(y) # Above(x)
    BY <2>2
  <2>5. QED
    BY <2>1, <2>3, <2>4 DEF StrictSubsetOrdering
<1> HIDE DEF R
<1>5. PICK a \in T : \A b \in T : ~ (<<b, a>> \in R)
  BY <1>2, <1>3, WFMin
<1>6. PICK x \in S : a = Above(x)
  BY <1>5
<1>7. QED
  BY <1>4, <1>5, <1>6

-----------------------------------------------------------------------------
(* The order is kept.                                                       *)

LEMMA EndOrdered ==
  ASSUME Sound, Ordered, NEW c \in Conn, Unlock(c), txn' = [txn EXCEPT ![c] = Idle]
  PROVE  Ordered'
<1> SUFFICES ASSUME NEW d \in Conn, NEW x \in Record, held_by'[x] = d
             PROVE  txn'[d] # Idle /\ Holding(txn'[d], x)
  BY DEF Ordered, Holding
<1>1. held_by[x] = d /\ d # c
  BY RoomsAssumption DEF Unlock, Sound, TypeOK
<1>2. txn'[d] = txn[d]
  BY <1>1 DEF Sound, TypeOK
<1>3. QED
  BY <1>1, <1>2 DEF Ordered

LEMMA BeginOrdered ==
  ASSUME Sound, Ordered, NEW c \in Conn, NEW t, Begin(c, t)
  PROVE  Ordered'
<1> SUFFICES ASSUME NEW d \in Conn, NEW x \in Record, held_by'[x] = d
             PROVE  txn'[d] # Idle /\ Holding(txn'[d], x)
  BY DEF Ordered, Holding
<1>1. held_by[x] = d /\ d # c
  BY DEF Begin, Ordered
<1>2. txn'[d] = txn[d]
  BY <1>1 DEF Begin, Sound, TypeOK
<1>3. QED
  BY <1>1, <1>2 DEF Ordered

LEMMA NotIdle ==
  ASSUME NEW t \in Txn
  PROVE  t.op # "none" /\ t # Idle
<1>1. t.op # "none"
  BY OpNames DEF Txn
<1>2. QED
  BY <1>1 DEF Idle

(* A transaction that goes on from t to u, with the lock of x or without. *)
LEMMA OnwardOrdered ==
  ASSUME Sound, Ordered, NEW c \in Conn, NEW t, t = txn[c], NEW u, u.op # "none",
         txn' = [txn EXCEPT ![c] = u],
         \A y \in Record : Holding(t, y) => Holding(u, y),
         \/ held_by' = held_by
         \/ \E x \in Record : held_by' = [held_by EXCEPT ![x] = c] /\ Holding(u, x)
  PROVE  Ordered'
<1> SUFFICES ASSUME NEW d \in Conn, NEW y \in Record, held_by'[y] = d
             PROVE  txn'[d] # Idle /\ Holding(txn'[d], y)
  BY DEF Ordered, Holding
<1>1. CASE d # c
  <2>1. held_by[y] = d
    BY <1>1 DEF Sound, TypeOK
  <2>2. txn'[d] = txn[d]
    BY <1>1 DEF Sound, TypeOK
  <2>3. QED
    BY <2>1, <2>2 DEF Ordered
<1>2. CASE d = c
  <2>1. txn'[d] = u /\ u # Idle
    BY <1>2 DEF Sound, TypeOK, Idle
  <2>2. Holding(u, y)
    BY <1>2 DEF Sound, TypeOK, Ordered
  <2>3. QED
    BY <2>1, <2>2
<1>3. QED
  BY <1>1, <1>2

LEMMA StepOrdered ==
  ASSUME Sound, Ordered, NEW c \in Conn, Step(c)
  PROVE  Ordered'
<1>1. PICK t : t = txn[c]
  OBVIOUS
<1>2. t \in Txn /\ t # Idle /\ t.op # "none" /\ Knows(c)
  BY <1>1, NotIdle DEF Step, Sound, TypeOK
<1>3. /\ t.op = "allocate" => AllocateKnows(c, t)
      /\ t.op = "check_out" => CheckOutKnows(c, t)
      /\ t.op \in TaskOp => TaskOpKnows(c, t)
      /\ t.op \in StaffOp => StaffKnows(c, t)
  BY <1>1, <1>2 DEF Knows
<1>4. CASE Rollback(c) \/ Commit(c)
  BY <1>4, EndOrdered DEF Rollback, Commit
<1>5. CASE LockLineAndScore(c) /\ ~Rollback(c)
  <2> DEFINE candidates == vacant_clean_candidates(t.line)
  <2>1. PICK u : u = [t EXCEPT !.at = "candidates", !.to_lock = candidates,
                               !.known = candidates \cap StayContinuity(t.line)]
    OBVIOUS
  <2>2. /\ t.op = "allocate" /\ t.at = "line" /\ Advance(c, <<"line", t.line>>, u)
    BY <1>1, <1>5, <2>1 DEF LockLineAndScore
  <2>3. u.op = t.op /\ u.at = "candidates"
    BY <1>2, <2>1 DEF Txn
  <2>4. <<"line", t.line>> \in Record
    BY <1>3, <2>2 DEF AllocateKnows, Record
  <2>5. \A y \in Record : Holding(t, y) => Holding(u, y)
    BY <2>2, <2>3 DEF Holding
  <2>6. Holding(u, <<"line", t.line>>)
    BY <2>2, <2>3 DEF Holding
  <2>7. QED
    BY <1>1, <1>2, <2>2, <2>3, <2>4, <2>5, <2>6, OnwardOrdered DEF Advance
<1>6. CASE LockCandidate(c)
  <2>1. PICK r : r = Min(t.to_lock)
    OBVIOUS
  <2>2. PICK u : u = [t EXCEPT !.to_lock = @ \ {r},
                               !.vacant = IF StillVacant(r) THEN @ \cup {r} ELSE @]
    OBVIOUS
  <2>3. t.op = "allocate" /\ t.at = "candidates" /\ t.to_lock # {} /\ Advance(c, <<"room", r>>, u)
    BY <1>1, <1>6, <2>1, <2>2 DEF LockCandidate, NextCandidate
  <2>4. u.op = t.op /\ u.at = t.at /\ u.to_lock = t.to_lock \ {r}
    BY <1>2, <2>2 DEF Txn
  <2>5. t.to_lock \subseteq Room /\ r \in t.to_lock /\ \A q \in t.to_lock : r =< q
    BY <1>2, <2>1, <2>3, LeastRoom DEF Txn
  <2>6. <<"room", r>> \in Record
    BY <2>5 DEF Record
  <2>7. ASSUME NEW q \in u.to_lock
        PROVE  r < q
    <3>1. q \in t.to_lock /\ q # r /\ r =< q /\ q \in Nat /\ r \in Nat
      BY <2>4, <2>5, RoomsAssumption
    <3>2. QED
      BY <3>1
  <2>8. Holding(u, <<"room", r>>)
    BY <2>3, <2>4, <2>7 DEF Holding
  <2>9. \A y \in Record : Holding(t, y) => Holding(u, y)
    BY <2>3, <2>4 DEF Holding
  <2>10. QED
    BY <1>1, <1>2, <2>3, <2>4, <2>6, <2>8, <2>9, OnwardOrdered DEF Advance
<1>7. CASE ChooseRoom(c) /\ ~Rollback(c)
  <2>1. PICK u : /\ u = [t EXCEPT !.at = "commit",
                           !.room = Min(IF t.vacant \cap t.known # {} THEN t.vacant \cap t.known
                                        ELSE t.vacant)]
    OBVIOUS
  <2>2. t.op = "allocate" /\ t.at = "candidates" /\ txn' = [txn EXCEPT ![c] = u] /\ held_by' = held_by
    BY <1>1, <1>7, <2>1 DEF ChooseRoom
  <2>3. u.op = t.op /\ u.at = "commit"
    BY <1>2, <2>1 DEF Txn
  <2>4. \A y \in Record : Holding(t, y) => Holding(u, y)
    BY <2>2, <2>3 DEF Holding
  <2>5. QED
    BY <1>1, <1>2, <2>2, <2>3, <2>4, OnwardOrdered
<1>8. CASE LockLineAndReadRoom(c) /\ ~Rollback(c)
  <2>1. PICK r : r = line_room[t.line]
    OBVIOUS
  <2>2. PICK u : u = [t EXCEPT !.at = "room", !.room = r, !.seen_version = room_version[r]]
    OBVIOUS
  <2>3. t.op = "check_out" /\ t.at = "line" /\ Advance(c, <<"line", t.line>>, u)
    BY <1>1, <1>8, <2>1, <2>2 DEF LockLineAndReadRoom
  <2>4. u.op = t.op /\ u.at = "room"
    BY <1>2, <2>2 DEF Txn
  <2>5. <<"line", t.line>> \in Record
    BY <1>3, <2>3 DEF CheckOutKnows, Record
  <2>6. (\A y \in Record : Holding(t, y) => Holding(u, y)) /\ Holding(u, <<"line", t.line>>)
    BY <2>3, <2>4 DEF Holding
  <2>7. QED
    BY <1>1, <1>2, <2>3, <2>4, <2>5, <2>6, OnwardOrdered DEF Advance
<1>9. CASE InsertInspection(c) /\ ~Rollback(c)
  <2>1. PICK u : u = [t EXCEPT !.at = "room"]
    OBVIOUS
  <2>2. t.op = "inspect" /\ t.at = "inspection" /\ Advance(c, <<"inspection", t.task>>, u)
    BY <1>1, <1>9, <2>1 DEF InsertInspection
  <2>3. u.op = t.op /\ u.at = "room"
    BY <1>2, <2>1 DEF Txn
  <2>4. <<"inspection", t.task>> \in Record
    BY <1>3, <2>2, OpNames DEF TaskOpKnows, Record
  <2>5. (\A y \in Record : Holding(t, y) => Holding(u, y)) /\ Holding(u, <<"inspection", t.task>>)
    BY <2>2, <2>3 DEF Holding
  <2>6. QED
    BY <1>1, <1>2, <2>2, <2>3, <2>4, <2>5, OnwardOrdered DEF Advance
<1>10. CASE UpdateRoom(c) /\ ~Rollback(c)
  <2>1. PICK at \in {"task", "commit"} : at = IF t.op \in StaffOp THEN "commit" ELSE "task"
    OBVIOUS
  <2>2. PICK u : u = [t EXCEPT !.at = at]
    OBVIOUS
  <2>3. t.at = "room" /\ Advance(c, <<"room", t.room>>, u)
    BY <1>1, <1>10, <2>1, <2>2 DEF UpdateRoom
  <2>4. u.op = t.op /\ u.at = at
    BY <1>2, <2>2 DEF Txn
  <2>5. t.room \in Room
    BY <1>2, <1>3, <2>3 DEF Txn, AllocateKnows, CheckOutKnows, TaskOpKnows, StaffKnows, RoomSeen
  <2>6. <<"room", t.room>> \in Record
    BY <2>5 DEF Record
  <2>7. (\A y \in Record : Holding(t, y) => Holding(u, y)) /\ Holding(u, <<"room", t.room>>)
    BY <2>1, <2>3, <2>4 DEF Holding
  <2>8. QED
    BY <1>1, <1>2, <2>3, <2>4, <2>6, <2>7, OnwardOrdered DEF Advance
<1>11. CASE UpdateTask(c) /\ ~Rollback(c)
  <2>1. PICK u : u = [t EXCEPT !.at = "commit"]
    OBVIOUS
  <2>2. t.op \in TaskOp /\ t.at = "task" /\ Advance(c, <<"task", t.task>>, u)
    BY <1>1, <1>11, <2>1 DEF UpdateTask
  <2>3. u.op = t.op /\ u.at = "commit"
    BY <1>2, <2>1 DEF Txn
  <2>4. <<"task", t.task>> \in Record
    BY <1>3, <2>2 DEF TaskOpKnows, Record
  <2>5. (\A y \in Record : Holding(t, y) => Holding(u, y)) /\ Holding(u, <<"task", t.task>>)
    BY <2>2, <2>3 DEF Holding
  <2>6. QED
    BY <1>1, <1>2, <2>2, <2>3, <2>4, <2>5, OnwardOrdered DEF Advance
<1>12. CASE InsertTask(c) /\ ~Rollback(c)
  <2>1. PICK k : k = <<t.room, today>>
    OBVIOUS
  <2>2. PICK u : u = [t EXCEPT !.at = "commit", !.task = k]
    OBVIOUS
  <2>3. t.op = "check_out" /\ t.at = "task" /\ Advance(c, <<"task", k>>, u)
    BY <1>1, <1>12, <2>1, <2>2 DEF InsertTask
  <2>4. u.op = t.op /\ u.at = "commit"
    BY <1>2, <2>2 DEF Txn
  <2>5. <<"task", k>> \in Record
    BY <1>3, <2>1, <2>3 DEF CheckOutKnows, RoomSeen, Record, Task, Sound, TypeOK
  <2>6. (\A y \in Record : Holding(t, y) => Holding(u, y)) /\ Holding(u, <<"task", k>>)
    BY <2>3, <2>4 DEF Holding
  <2>7. QED
    BY <1>1, <1>2, <2>3, <2>4, <2>5, <2>6, OnwardOrdered DEF Advance
<1>13. QED
  BY <1>4, <1>5, <1>6, <1>7, <1>8, <1>9, <1>10, <1>11, <1>12 DEF Step

LEMMA NextOrdered ==
  ASSUME Sound, Ordered, [Next]_vars
  PROVE  Ordered'
<1>1. CASE NewDay \/ UNCHANGED vars
  BY <1>1 DEF NewDay, vars, Ordered, Holding
<1>2. ASSUME NEW c \in Conn, Request(c)
      PROVE  Ordered'
  <2>1. \E t : Begin(c, t)
    BY <1>2 DEF Request, BeginLine, ReadTask, ReadRoom
  <2>2. QED
    BY <2>1, BeginOrdered
<1>3. ASSUME NEW c \in Conn, ConnectionLost(c)
      PROVE  Ordered'
  BY <1>3, EndOrdered DEF ConnectionLost, Rollback
<1>4. QED
  BY <1>1, <1>2, <1>3, StepOrdered DEF Next

-----------------------------------------------------------------------------
(* No cycle.                                                                *)

WantsRoom(c) == txn[c].at \in {"candidates", "room"}

LEMMA WantedRow ==
  ASSUME Sound, NEW c \in Conn, Blocked(c)
  PROVE  /\ txn[c] \in Txn /\ txn[c].at \in {"line", "candidates", "inspection", "room", "task"}
         /\ Wants(c) \in Record
         /\ txn[c].at = "line" => Wants(c)[1] = "line"
         /\ txn[c].at = "inspection" => Wants(c)[1] = "inspection"
         /\ txn[c].at = "task" => Wants(c)[1] = "task"
         /\ WantsRoom(c) => Wants(c)[1] = "room" /\ Wants(c)[2] \in Room
         /\ txn[c].at = "candidates" => Wants(c)[2] \in txn[c].to_lock
<1>1. PICK t : t = txn[c]
  OBVIOUS
<1>2. /\ t \in Txn /\ t.at # "commit" /\ (t.at = "candidates" => t.to_lock # {})
      /\ t.op = "allocate" => AllocateKnows(c, t)
      /\ t.op = "check_out" => CheckOutKnows(c, t)
      /\ t.op \in TaskOp => TaskOpKnows(c, t)
      /\ t.op \in StaffOp => StaffKnows(c, t)
  BY <1>1 DEF Blocked, Sound, TypeOK, Knows
<1>3. t.op \in {"allocate", "check_out"} \cup TaskOp \cup StaffOp
  BY <1>2 DEF Txn
<1>4. CASE t.at = "line"
  <2>1. t.line \in Line
    BY <1>2, <1>3, <1>4 DEF AllocateKnows, CheckOutKnows, TaskOpKnows, StaffKnows
  <2>2. Wants(c) = <<"line", t.line>>
    BY <1>1, <1>4 DEF Wants
  <2>3. QED
    BY <1>1, <1>2, <1>4, <2>1, <2>2 DEF Record, WantsRoom
<1>5. CASE t.at = "candidates"
  <2>1. t.to_lock \subseteq Room
    BY <1>2 DEF Txn
  <2>2. Wants(c) = <<"room", Min(t.to_lock)>>
    BY <1>1, <1>5 DEF Wants, NextCandidate
  <2>3. Min(t.to_lock) \in t.to_lock
    BY <1>2, <1>5, <2>1, LeastRoom
  <2>4. QED
    BY <1>1, <1>2, <1>5, <2>1, <2>2, <2>3 DEF Record
<1>6. CASE t.at = "inspection"
  <2>1. t.task \in Task
    BY <1>2, <1>3, <1>6 DEF AllocateKnows, CheckOutKnows, TaskOpKnows, StaffKnows
  <2>2. Wants(c) = <<"inspection", t.task>>
    BY <1>1, <1>6 DEF Wants
  <2>3. QED
    BY <1>1, <1>2, <1>6, <2>1, <2>2 DEF Record, WantsRoom
<1>7. CASE t.at = "room"
  <2>1. t.room \in Room
    BY <1>2, <1>3, <1>7 DEF AllocateKnows, CheckOutKnows, TaskOpKnows, StaffKnows, RoomSeen
  <2>2. Wants(c) = <<"room", t.room>>
    BY <1>1, <1>7 DEF Wants
  <2>3. QED
    BY <1>1, <1>2, <1>7, <2>1, <2>2 DEF Record
<1>8. CASE t.at = "task"
  <2>1. PICK k : k = IF t.op = "check_out" THEN <<t.room, today>> ELSE t.task
    OBVIOUS
  <2>2. k \in Task
    <3>1. CASE t.op = "check_out"
      BY <1>2, <1>8, <2>1, <3>1 DEF CheckOutKnows, RoomSeen, Task, Sound, TypeOK
    <3>2. CASE t.op # "check_out"
      BY <1>2, <1>3, <1>8, <2>1, <3>2 DEF AllocateKnows, TaskOpKnows, StaffKnows
    <3>3. QED
      BY <3>1, <3>2
  <2>3. Wants(c) = <<"task", k>>
    BY <1>1, <1>8, <2>1 DEF Wants
  <2>4. QED
    BY <1>1, <1>2, <1>8, <2>2, <2>3 DEF Record, WantsRoom
<1>9. QED
  BY <1>1, <1>2, <1>4, <1>5, <1>6, <1>7, <1>8 DEF Txn

(* Whoever holds the row that a waiting transaction wants, and waits too,   *)
(* waits for the task it writes last, or for a room, and for a later one.   *)
LEMMA HolderWaitsForLater ==
  ASSUME Sound, Ordered, NEW c \in Conn, Blocked(c), NEW d \in Conn, Blocked(d),
         held_by[Wants(c)] = d
  PROVE  /\ txn[c].at # "task"
         /\ txn[d].at = "task" \/ WantsRoom(d)
         /\ txn[d].at # "task" /\ WantsRoom(c) => Wants(c)[2] < Wants(d)[2]
<1>1. PICK t, u, x : t = txn[c] /\ u = txn[d] /\ x = Wants(c)
  OBVIOUS
<1>2. /\ t.at \in {"line", "candidates", "inspection", "room", "task"} /\ x \in Record
      /\ t.at = "line" => x[1] = "line"
      /\ t.at = "inspection" => x[1] = "inspection"
      /\ t.at = "task" => x[1] = "task"
      /\ WantsRoom(c) => x[1] = "room" /\ x[2] \in Room
  BY <1>1, WantedRow
<1>3. /\ u \in Txn /\ u.at \in {"line", "candidates", "inspection", "room", "task"}
      /\ u.at = "candidates" => Wants(d)[2] \in u.to_lock
  BY <1>1, WantedRow
<1>4. Holding(u, x)
  BY <1>1, <1>2 DEF Ordered
<1>5. /\ u.op = "allocate" => AllocateKnows(d, u)
      /\ u.op = "check_out" => CheckOutKnows(d, u)
      /\ u.op \in TaskOp => TaskOpKnows(d, u)
  BY <1>1 DEF Sound, Knows, Blocked
<1>6. CASE t.at = "task"
  BY <1>2, <1>3, <1>4, <1>6 DEF Holding
<1>7. CASE t.at = "line"
  <2>1. u.op \in {"allocate", "check_out"} /\ u.at # "line"
    BY <1>2, <1>4, <1>7 DEF Holding
  <2>2. QED
    BY <1>1, <1>3, <1>5, <1>7, <2>1 DEF WantsRoom, AllocateKnows, CheckOutKnows
<1>8. CASE t.at = "inspection"
  <2>1. u.op = "inspect" /\ u.at # "inspection"
    BY <1>2, <1>4, <1>8 DEF Holding
  <2>2. QED
    BY <1>1, <1>3, <1>5, <1>8, <2>1, OpNames DEF WantsRoom, TaskOpKnows
<1>9. CASE t.at \in {"candidates", "room"}
  <2>1. \/ u.at = "task"
        \/ u.at = "candidates" /\ \A q \in u.to_lock : x[2] < q
    BY <1>1, <1>2, <1>3, <1>4, <1>9 DEF Holding, WantsRoom
  <2>2. QED
    BY <1>1, <1>3, <1>9, <2>1 DEF WantsRoom
<1>10. QED
  BY <1>2, <1>6, <1>7, <1>8, <1>9

LEMMA OrderedNeverCycles ==
  ASSUME Sound, Ordered, IsFiniteSet(Room)
  PROVE  NoDeadlock
<1> SUFFICES ASSUME NEW S \in (SUBSET Conn) \ {{}},
                    \A c \in S : Blocked(c) /\ held_by[Wants(c)] \in S
             PROVE  FALSE
  BY DEF NoDeadlock
<1>1. S \subseteq Conn /\ S # {}
  OBVIOUS
<1>2. \A c \in S : txn[c].at # "task"
  BY <1>1, HolderWaitsForLater
<1>3. ASSUME NEW c \in S
      PROVE  LET d == held_by[Wants(c)]
             IN  /\ d \in S /\ WantsRoom(d) /\ Wants(d)[2] \in Room
                 /\ WantsRoom(c) => Wants(c)[2] < Wants(d)[2]
  <2>1. PICK d \in S : d = held_by[Wants(c)]
    OBVIOUS
  <2>2. WantsRoom(d) /\ (WantsRoom(c) => Wants(c)[2] < Wants(d)[2])
    BY <1>1, <1>2, <2>1, HolderWaitsForLater
  <2>3. Wants(d)[2] \in Room
    BY <1>1, <2>1, <2>2, WantedRow
  <2>4. QED
    BY <2>1, <2>2, <2>3
<1> DEFINE wanted == {Wants(c)[2] : c \in {d \in S : WantsRoom(d)}}
<1>4. wanted \subseteq Room /\ wanted # {}
  <2>1. \A c \in S : WantsRoom(c) => Wants(c)[2] \in Room
    BY <1>1, WantedRow
  <2>2. QED
    BY <1>1, <1>3, <2>1
<1>5. PICK r \in wanted : \A q \in wanted : ~ (r < q)
  BY <1>4, GreatestRoom
<1>6. PICK c \in S : WantsRoom(c) /\ r = Wants(c)[2]
  BY <1>5
<1>7. PICK d \in S : WantsRoom(d) /\ Wants(c)[2] < Wants(d)[2]
  BY <1>3, <1>6
<1>8. Wants(d)[2] \in wanted
  BY <1>7
<1>9. QED
  BY <1>5, <1>6, <1>7, <1>8

(* A hotel's requests for rooms, lines and tasks wait for each other but    *)
(* never in a circle (allocation/services.py:127-137).                      *)
THEOREM RoomsNeverDeadlock ==
  ASSUME IsFiniteSet(Room)
  PROVE  Spec => []NoDeadlock
<1>1. Init => Ordered
  BY RoomsAssumption DEF Init, Ordered, Record
<1>2. Sound /\ Ordered /\ [Next]_vars => Ordered'
  BY NextOrdered
<1>3. Sound /\ Ordered => NoDeadlock
  BY OrderedNeverCycles
<1>4. QED
  BY <1>1, <1>2, <1>3, TransactionsSound, PTL DEF Spec
=============================================================================
