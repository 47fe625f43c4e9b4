---------------------- MODULE RoomsContended_proofs ----------------------
(* The requests of MCRoomsContended for few rooms never wait for each other *)
(* in a circle: what RoomOperations_proofs shows of every hotel, for the    *)
(* hotel of the contenders.  Its definitions and those the proofs are about *)
(* are the same, word for word.                                             *)
EXTENDS MCRoomsContended, TLAPS

Proofs ==
  INSTANCE RoomOperations_proofs WITH
    Line <- Contender, Eligible <- [l \in Contender |-> Room],
    Guest <- [l \in Contender |-> IF l \in {arrival, return_stay} THEN regular ELSE NoGuest],
    StaffOp <- {}, MaxDay <- 0, MaxVersion <- 0,
    today <- day, line_status <- wanted_status, line_room <- wanted_room,
    room_state <- offered_state, room_version <- offered_version, current_line <- offered_line,
    task_status <- turn_status, task_version <- turn_version, task_line <- turn_line,
    verdict <- turn_verdict, held_by <- row_held_by, txn <- row_txn

LEMMA SameStart == Contended!Init <=> Proofs!Init
BY DEF Contended!Init, Proofs!Init, Contended!Task, Proofs!Task, Contended!Record,
       Proofs!Record, Contended!Idle, Proofs!Idle, Contended!Day, Proofs!Day

LEMMA SameSteps == Contended!Next <=> Proofs!Next
BY DEF Contended!Next, Proofs!Next, Contended!NewDay, Proofs!NewDay, Contended!Request,
       Proofs!Request, Contended!Step, Proofs!Step, Contended!ConnectionLost,
       Proofs!ConnectionLost, Contended!lineVars, Proofs!lineVars, Contended!roomVars,
       Proofs!roomVars, Contended!taskVars, Proofs!taskVars, Contended!BeginLine,
       Proofs!BeginLine, Contended!Task, Proofs!Task, Contended!TaskOp, Proofs!TaskOp,
       Contended!ReadTask, Proofs!ReadTask, Contended!ReadRoom, Proofs!ReadRoom, Contended!Idle,
       Proofs!Idle, Contended!LockLineAndScore, Proofs!LockLineAndScore,
       Contended!LockCandidate, Proofs!LockCandidate, Contended!ChooseRoom, Proofs!ChooseRoom,
       Contended!LockLineAndReadRoom, Proofs!LockLineAndReadRoom, Contended!InsertInspection,
       Proofs!InsertInspection, Contended!UpdateRoom, Proofs!UpdateRoom, Contended!UpdateTask,
       Proofs!UpdateTask, Contended!InsertTask, Proofs!InsertTask, Contended!Commit,
       Proofs!Commit, Contended!Rollback, Proofs!Rollback, Contended!Begin, Proofs!Begin,
       Contended!NewTxn, Proofs!NewTxn, Contended!Day, Proofs!Day, Contended!TaskSource,
       Proofs!TaskSource, Contended!Source, Proofs!Source, Contended!vacant_clean_candidates,
       Proofs!vacant_clean_candidates, Contended!Free, Proofs!Free, Contended!Advance,
       Proofs!Advance, Contended!StayContinuity, Proofs!StayContinuity, Contended!NextCandidate,
       Proofs!NextCandidate, Contended!StillVacant, Proofs!StillVacant, Contended!committedVars,
       Proofs!committedVars, Contended!VersionMatches, Proofs!VersionMatches,
       Contended!CommitRoom, Proofs!CommitRoom, Contended!CommitLine, Proofs!CommitLine,
       Contended!CommitTask, Proofs!CommitTask, Contended!Unlock, Proofs!Unlock,
       Contended!Transition, Proofs!Transition, Contended!RoomTransition, Proofs!RoomTransition,
       Contended!Target, Proofs!Target, Contended!TaskTarget, Proofs!TaskTarget,
       Contended!Record, Proofs!Record, Contended!Min, Proofs!Min

LEMMA SameVariables == UNCHANGED contendedVars => UNCHANGED Proofs!vars
BY DEF contendedVars, Contended!vars, Proofs!vars, Contended!committedVars, Proofs!committedVars,
       Contended!lineVars, Proofs!lineVars, Contended!roomVars, Proofs!roomVars,
       Contended!taskVars, Proofs!taskVars

LEMMA SameCycles == Contended!NoDeadlock <=> Proofs!NoDeadlock
BY DEF Contended!NoDeadlock, Proofs!NoDeadlock, Contended!Blocked, Proofs!Blocked,
       Contended!Wants, Proofs!Wants, Contended!Idle, Proofs!Idle, Contended!Free, Proofs!Free,
       Contended!NextCandidate, Proofs!NextCandidate, Contended!Min, Proofs!Min

LEMMA ContendersFit == Proofs!RoomsAssumption
BY RoomsAssumption, ContendedAssumption
   DEF Proofs!RoomsAssumption, Proofs!Task, Proofs!Day, Task, Day

(* allocation/services.py:127-137, for the guests who want the same rooms:  *)
(* whoever prefers which, and however many rooms there are, their requests  *)
(* queue and never form a cycle.                                            *)
THEOREM ContendersNeverDeadlock ==
  ASSUME IsFiniteSet(Room)
  PROVE  BothSpec => []ContendedNoDeadlock
<1>1. Proofs!IsFiniteSet(Room)
  BY DEF Proofs!IsFiniteSet, IsFiniteSet
<1>2. BothInit => Proofs!Init
  BY SameStart DEF BothInit
<1>3. [BothNext]_<<part, staffVars, contendedVars>> => [Proofs!Next]_(Proofs!vars)
  BY SameSteps, SameVariables DEF BothNext
<1>4. Proofs!Spec => []Proofs!NoDeadlock
  BY <1>1, ContendersFit, Proofs!RoomsNeverDeadlock
<1>5. QED
  BY <1>2, <1>3, <1>4, SameCycles, PTL DEF BothSpec, Proofs!Spec, ContendedNoDeadlock
=============================================================================
