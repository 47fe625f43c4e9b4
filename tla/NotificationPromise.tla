------------------------- MODULE NotificationPromise -------------------------
(* What apps/notifications promises of the job made for an event: it is     *)
(* tried at most MAX_RETRIES times, each try reaches the provider at most   *)
(* once, it is delivered only if the provider accepted it, given up only    *)
(* when all tries are used, and nothing happens to it after that.           *)
EXTENDS Naturals

CONSTANTS Event, MAX_RETRIES

VARIABLES job, tries, calls, accepted

vars == <<job, tries, calls, accepted>>

Init ==
  /\ job = [e \in Event |-> "none"]
  /\ tries = [e \in Event |-> 0]
  /\ calls = [e \in Event |-> 0]
  /\ accepted = {}

Create(e) ==
  /\ job[e] = "none"
  /\ job' = [job EXCEPT ![e] = "open"]
  /\ UNCHANGED <<tries, calls, accepted>>

Try(e) ==
  /\ job[e] = "open" /\ tries[e] < MAX_RETRIES
  /\ tries' = [tries EXCEPT ![e] = @ + 1]
  /\ UNCHANGED <<job, calls, accepted>>

(* A try may reach the provider late, even after the job is settled. *)
Call(e) ==
  /\ calls[e] < tries[e]
  /\ calls' = [calls EXCEPT ![e] = @ + 1]
  /\ accepted' \in {accepted, accepted \cup {e}}
  /\ UNCHANGED <<job, tries>>

Deliver(e) ==
  /\ job[e] = "open" /\ e \in accepted
  /\ job' = [job EXCEPT ![e] = "delivered"]
  /\ UNCHANGED <<tries, calls, accepted>>

GiveUp(e) ==
  /\ job[e] = "open" /\ tries[e] = MAX_RETRIES
  /\ job' = [job EXCEPT ![e] = "dead"]
  /\ UNCHANGED <<tries, calls, accepted>>

Next == \E e \in Event : Create(e) \/ Try(e) \/ Call(e) \/ Deliver(e) \/ GiveUp(e)

Spec == Init /\ [][Next]_vars
=============================================================================
