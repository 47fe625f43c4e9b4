--------------------------- MODULE PolicyVersions ----------------------------
(* apps/policies, for one tenant and one policy type: a draft is written,   *)
(* edited and published as the next version, a version is retired, and a    *)
(* date is resolved to the version in force.  Callers share nothing but the *)
(* rows: create_draft(), update_draft() and the checks that open publish()  *)
(* and retire() are statements of their own, the rest is a transaction.     *)
EXTENDS Naturals, FiniteSets, FiniteSetsExt

CONSTANTS Caller, Nothing,
          MaxRow,     \* bound: row ids ever issued
          MaxDay      \* bound: dates are 0..MaxDay

VARIABLES
  issued,      \* the row id sequence
  policy,      \* Policy rows by id, Nothing for an id without a row
  locked,      \* drafts whose publication holds FOR UPDATE on them
  working,     \* per caller: the call it is making
  evaluated,   \* PolicyEvaluationLog
  overlapped   \* history: two drafts have existed at the same time

vars == <<issued, policy, locked, working, evaluated, overlapped>>

Id == 1..MaxRow
Day == 0..MaxDay
Row ==
  [status : {"draft", "published", "retired"}, version : 0..MaxRow,
   effective_from : Day, effective_to : Day \cup {Nothing}]

Exists(p) == policy[p] # Nothing
With(status) == {p \in Id : Exists(p) /\ policy[p].status = status}
Numbered == {p \in Id : Exists(p) /\ policy[p].version > 0}
Version(p) == policy[p].version
(* A definition whose name carries a suffix is the one it is named after    *)
(* with a slip in it, for the properties to catch; nothing else uses it.    *)
MaxVersion_Published == Max({0} \cup {Version(p) : p \in With("published")})

MaxVersion == Max({0} \cup {Version(p) : p \in Numbered})

CheckDates(row) == row.effective_to # Nothing => row.effective_from < row.effective_to

Init ==
  /\ issued = 0
  /\ policy = [p \in Id |-> Nothing]
  /\ locked = {}
  /\ working = [c \in Caller |-> Nothing]
  /\ evaluated = {}
  /\ overlapped = FALSE

Begin(c, call) == working[c] = Nothing /\ working' = [working EXCEPT ![c] = call]
At(c, op, step) == working[c] # Nothing /\ working[c].op = op /\ working[c].step = step
Step(c, step) == working' = [working EXCEPT ![c].step = step]
Return(c) == working' = [working EXCEPT ![c] = Nothing]

Write(p, row) ==
  /\ policy' = [policy EXCEPT ![p] = row]
  /\ overlapped' = (overlapped \/ Cardinality(With("draft") \cup
                                   IF row.status = "draft" THEN {p} ELSE {}) > 1)

-----------------------------------------------------------------------------
(* create_draft(): the drafts seen are deleted, then the new one inserted.  *)

SeeDrafts(c) ==
  /\ Begin(c, [op |-> "create", step |-> "delete", ids |-> {p \in Id : Exists(p)} \ Numbered])
  /\ UNCHANGED <<issued, policy, locked, evaluated, overlapped>>

DeleteDrafts(c) ==
  /\ At(c, "create", "delete")
  /\ working[c].ids \cap locked = {}
  /\ policy' = [p \in Id |-> IF p \in working[c].ids THEN Nothing ELSE policy[p]]
  /\ Step(c, "insert")
  /\ UNCHANGED <<issued, locked, evaluated, overlapped>>

InsertDraft(c) ==
  /\ At(c, "create", "insert") /\ issued < MaxRow
  /\ \E from \in Day, to \in Day \cup {Nothing} :
       LET row == [status |-> "draft", version |-> 0,
                   effective_from |-> from, effective_to |-> to]
       IN CheckDates(row) /\ Write(issued + 1, row)
  /\ issued' = issued + 1
  /\ Return(c)
  /\ UNCHANGED <<locked, evaluated>>

-----------------------------------------------------------------------------
(* update_draft(): the row as it was read is saved with the changes; save() *)
(* inserts it again if it has been deleted in between.                      *)

GetDraft(c) ==
  /\ \E p \in With("draft") :
       Begin(c, [op |-> "update", step |-> "save", id |-> p, row |-> policy[p]])
  /\ UNCHANGED <<issued, policy, locked, evaluated, overlapped>>

SaveDraft(c) ==
  /\ At(c, "update", "save")
  /\ working[c].id \notin locked
  /\ \E to \in Day \cup {Nothing} :
       LET row == [working[c].row EXCEPT !.effective_to = to]
       IN CheckDates(row) /\ Write(working[c].id, row)
  /\ Return(c)
  /\ UNCHANGED <<issued, locked, evaluated>>

-----------------------------------------------------------------------------
(* publish(): an unlocked look, then one transaction on the locked draft.   *)

LookAtDraft(c) ==
  /\ \E p \in With("draft") : Begin(c, [op |-> "publish", step |-> "lock", id |-> p])
  /\ UNCHANGED <<issued, policy, locked, evaluated, overlapped>>

LockDraft(c) ==
  LET p == working[c].id
  IN
  /\ At(c, "publish", "lock")
  /\ p \notin locked
  /\ IF Exists(p)
     THEN locked' = locked \cup {p} /\ Step(c, "number")
     ELSE Return(c) /\ UNCHANGED locked
  /\ UNCHANGED <<issued, policy, evaluated, overlapped>>

ReadMaxVersion(c) ==
  /\ At(c, "publish", "number")
  /\ working' = [working EXCEPT ![c] =
       [op |-> "publish", step |-> "commit", id |-> @.id, version |-> MaxVersion + 1]]
  /\ UNCHANGED <<issued, policy, locked, evaluated, overlapped>>

CommitVersion(c) ==
  LET p == working[c].id
  IN
  /\ At(c, "publish", "commit") /\ issued < MaxRow
  /\ issued' = issued + 1
  /\ policy' = [policy EXCEPT
       ![issued + 1] = [policy[p] EXCEPT !.status = "published", !.version = working[c].version],
       ![p] = Nothing]
  /\ locked' = locked \ {p}
  /\ Return(c)
  /\ UNCHANGED <<evaluated, overlapped>>

-----------------------------------------------------------------------------
(* retire(): the row as it was read, retired and closed today if open.      *)

GetPublished(c) ==
  /\ \E p \in With("published") :
       Begin(c, [op |-> "retire", step |-> "save", id |-> p, row |-> policy[p]])
  /\ UNCHANGED <<issued, policy, locked, evaluated, overlapped>>

SaveRetired(c) ==
  LET row == [working[c].row EXCEPT !.status = "retired"]
  IN
  /\ At(c, "retire", "save")
  /\ \E today \in Day :
       LET closed == IF row.effective_to = Nothing
                     THEN [row EXCEPT !.effective_to = today] ELSE row
       IN IF CheckDates(closed) THEN Write(working[c].id, closed)
                                ELSE UNCHANGED <<policy, overlapped>>
  /\ Return(c)
  /\ UNCHANGED <<issued, locked, evaluated>>

-----------------------------------------------------------------------------
(* resolve(): the highest published version in force, logged.               *)

InForce_AnyStatus(date) ==
  {p \in Id :
     /\ Exists(p) /\ policy[p].effective_from <= date
     /\ policy[p].effective_to # Nothing => date < policy[p].effective_to}

InForce(date) ==
  {p \in With("published") :
     /\ policy[p].effective_from <= date
     /\ policy[p].effective_to # Nothing => date < policy[p].effective_to}

Resolve ==
  \E date \in Day :
    \E p \in InForce(date) :
      /\ \A q \in InForce(date) : Version(q) <= Version(p)
      /\ evaluated' = evaluated \cup {[id |-> p, version |-> Version(p)]}
      /\ UNCHANGED <<issued, policy, locked, working, overlapped>>

-----------------------------------------------------------------------------
Next ==
  \/ \E c \in Caller :
       \/ SeeDrafts(c) \/ DeleteDrafts(c) \/ InsertDraft(c)
       \/ GetDraft(c) \/ SaveDraft(c)
       \/ LookAtDraft(c) \/ LockDraft(c) \/ ReadMaxVersion(c) \/ CommitVersion(c)
       \/ GetPublished(c) \/ SaveRetired(c)
  \/ Resolve

Spec == Init /\ [][Next]_vars

-----------------------------------------------------------------------------
TypeOK ==
  /\ issued \in 0..MaxRow
  /\ policy \in [Id -> Row \cup {Nothing}]
  /\ locked \subseteq Id
  /\ evaluated \subseteq [id : Id, version : 1..MaxRow]
  /\ overlapped \in BOOLEAN
  /\ \A c \in Caller :
       working[c] # Nothing => working[c].op \in {"create", "update", "publish", "retire"}

(* publish() "assigns the next sequential version number": as long as no    *)
(* two drafts ever existed at once, the versions, retired ones included,    *)
(* are 1..n, each of one row - though a draft can be published twice.       *)
VersionsSequential ==
  ~overlapped => {Version(p) : p \in Numbered} = 1..Cardinality(Numbered)

(* The row an evaluation was answered from is there for ever, under the     *)
(* version that gave the answer.                                            *)
AnswersStand ==
  \A e \in evaluated : Exists(e.id) /\ Version(e.id) = e.version

(* Versions are an audit trail: numbered without gaps, and never replaced.  *)
VersionsStand == VersionsSequential /\ AnswersStand
=============================================================================
