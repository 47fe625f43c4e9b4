--------------------------- MODULE StoreRequests ----------------------------
(* frontend/src/app: a store's methods call the API and put the answer in   *)
(* signals.  Answers arrive in any order; a LatestRequestGuard lets only    *)
(* the call issued last through.  A method is described by the guards it    *)
(* takes, what it writes through each, and the spinner and error it shows.  *)
EXTENDS Naturals, Sequences

CONSTANTS Store, Task, Nothing,
          MaxCalls     \* bound: calls one store ever issues

VARIABLES
  store,       \* the store, which shares no signal with another
  token,       \* LatestRequestGuard.token, per guard
  call,        \* the calls in the order they were issued
  shown,       \* per signal: the call whose answer it holds
  loading,     \* spinners that are up
  error        \* per error signal: the call whose error it holds

vars == <<store, token, call, shown, loading, error>>

Call == 1..MaxCalls
Issued == DOMAIN call

-----------------------------------------------------------------------------
(* The stores' methods.  A load that fails clears what it would have shown; *)
(* a command that fails leaves it.  "none" stands for no guard.             *)

Load(name, guard, signal, ui) ==
  [name |-> name, writes |-> {<<guard, signal>>}, clears |-> TRUE, ui |-> ui, ui_guard |-> guard]
Command(name, guard, signal, ui) ==
  [Load(name, guard, signal, ui) EXCEPT !.clears = FALSE]

reservation_loadList == Load("loadList", "list", "list", "list")
reservation_loadOne == Load("loadOne", "current", "current", "current")
reservation_create == Command("create", "current", "current", "current")
reservation_requestPayment == Command("requestPayment", "current", "current", "current")
reservation_cancel == Command("cancel", "current", "current", "current")

booking_loadList == Load("loadList", "list", "list", "list")
booking_loadOne == Load("loadOne", "current", "current", "current")
booking_confirm == Command("confirm", "current", "current", "current")

room_loadList == Load("loadList", "list", "list", "list")
room_loadOne == Load("loadOne", "detail", "current", "detail")

notification_loadList == Load("loadList", "list", "list", "list")
notification_loadOne == Load("loadOne", "detail", "current", "detail")

guest_search == Load("search", "search", "results", "guests")
guest_resolve == Command("resolve", "resolve", "selected", "guests")
guest_loadOne == Load("loadOne", "detail", "current", "detail")

task_loadList == Load("loadList", "list", "tasks", "list")
task_loadOne == Load("loadOne", "current", "current", "detail")
task_checkout ==
  [name |-> "checkout", writes |-> {}, clears |-> FALSE, ui |-> "checkout", ui_guard |-> "none"]

(* Each task has a guard, an entry in the list, a spinner and an error. *)
runAction(t) ==
  [Command("runAction", t, t, t) EXCEPT !.writes = {<<"current", "current">>, <<t, t>>}]

availability_search == Load("search", "none", "result", "search")
allocation_allocate == Command("allocate", "none", "record", "line")
dashboard_loadPanel == Load("loadPanel", "none", "panel", "panel")

Method ==
  CASE store = "reservations" ->
         {reservation_loadList, reservation_loadOne, reservation_create,
          reservation_requestPayment, reservation_cancel}
    [] store = "bookings" -> {booking_loadList, booking_loadOne, booking_confirm}
    [] store = "rooms" -> {room_loadList, room_loadOne}
    [] store = "notifications" -> {notification_loadList, notification_loadOne}
    [] store = "guests" -> {guest_search, guest_resolve, guest_loadOne}
    [] store = "housekeeping" ->
         {task_loadList, task_loadOne, task_checkout} \cup {runAction(t) : t \in Task}
    [] store = "availability" -> {availability_search}
    [] store = "allocation" -> {allocation_allocate}
    [] store = "dashboard" -> {dashboard_loadPanel}

Guards(m) == ({w[1] : w \in m.writes} \cup {m.ui_guard}) \ {"none"}
Guard == (UNION {Guards(m) : m \in Method}) \cup {"none"}
Writes == UNION {m.writes : m \in Method}
Signal == {w[2] : w \in Writes}
Ui == {m.ui : m \in Method}

-----------------------------------------------------------------------------
Init ==
  /\ store \in Store
  /\ token = [g \in Guard |-> 0]
  /\ call = <<>>
  /\ shown = [s \in Signal |-> Nothing]
  /\ loading = {}
  /\ error = [u \in Ui |-> Nothing]

(* Up to the await. *)
next(m) == [g \in Guard |-> IF g \in Guards(m) THEN token[g] + 1 ELSE token[g]]

Issue ==
  /\ Len(call) < MaxCalls
  /\ \E m \in Method :
       /\ token' = next(m)
       /\ call' = Append(call, [method |-> m, token |-> next(m), state |-> "waiting"])
       /\ loading' = loading \cup {m.ui}
       /\ error' = [error EXCEPT ![m.ui] = Nothing]
  /\ UNCHANGED <<store, shown>>

(* A definition whose name carries a suffix is the one it is named after    *)
(* with a slip in it, for the properties to catch; nothing else uses it.    *)
isCurrent_Always(c, g) == TRUE
isCurrent(c, g) == call[c].token[g] = token[g]

(* From the await on: try or catch, then finally, without an interruption. *)
Answer(c, state) ==
  LET m == call[c].method
      Written == {s \in Signal : \E g \in Guard : <<g, s>> \in m.writes /\ isCurrent(c, g)}
  IN
  /\ call[c].state = "waiting"
  /\ call' = [call EXCEPT ![c].state = state]
  /\ shown' = [s \in Signal |->
       IF s \in Written /\ state = "ok" THEN c
       ELSE IF s \in Written /\ m.clears THEN Nothing ELSE shown[s]]
  /\ error' = IF state = "failed" /\ isCurrent(c, m.ui_guard)
              THEN [error EXCEPT ![m.ui] = c] ELSE error
  /\ loading' = IF isCurrent(c, m.ui_guard) THEN loading \ {m.ui} ELSE loading
  /\ UNCHANGED <<store, token>>

Next == Issue \/ \E c \in Issued, state \in {"ok", "failed"} : Answer(c, state)

Spec == Init /\ [][Next]_vars

-----------------------------------------------------------------------------
TypeOK ==
  /\ store \in Store /\ loading \subseteq Ui
  /\ token \in [Guard -> Nat]
  /\ shown \in [Signal -> Call \cup {Nothing}]
  /\ error \in [Ui -> Call \cup {Nothing}]
  /\ Issued \subseteq Call
  /\ \A c \in Issued : call[c].method \in Method /\ call[c].state \in {"waiting", "ok", "failed"}

IsLatest(c, g) ==
  g \in Guards(call[c].method) /\ \A d \in Issued : g \in Guards(call[d].method) => d <= c

(* Signals and spinners that one guard, and nothing else, protects. *)
Guarding(g, s) == {w[1] : w \in {x \in Writes : x[2] = s}} = {g}
Spinning(g, u) == {m.ui_guard : m \in {n \in Method : n.ui = u}} = {g}

(* latest-request-guard.ts: whatever the order of the answers, a signal     *)
(* ends with the answer of the call issued last; that call's spinner is up  *)
(* until its answer, and its error is never another's.                      *)
ShownIsLatest ==
  \A c \in Issued, g \in Guard \ {"none"} : IsLatest(c, g) =>
    LET m == call[c].method
    IN
    /\ call[c].state = "waiting" /\ Spinning(g, m.ui) => m.ui \in loading
    /\ \A s \in Signal : <<g, s>> \in m.writes /\ Guarding(g, s) =>
         /\ call[c].state = "ok" => shown[s] = c
         /\ call[c].state = "failed" /\ m.clears => shown[s] = Nothing
    /\ Spinning(g, m.ui) /\ error[m.ui] # Nothing => error[m.ui] = c
    /\ call[c].state # "waiting" /\ Spinning(g, m.ui) => m.ui \notin loading
=============================================================================
