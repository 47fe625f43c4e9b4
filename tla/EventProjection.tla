--------------------------- MODULE EventProjection ---------------------------
(***************************************************************************)
(* How a room that goes out of service leaves the sellable inventory:      *)
(*   transition of the room -> outbox row, in one transaction              *)
(*   -> OutboxRelay.publish_batch(): domain event                          *)
(*   -> RoomStateProjector.process_batch(): availability_slot.             *)
(* Relay and projector work through lists they have read before, one       *)
(* transaction per row, may be run by several processes, and may crash     *)
(* between two transactions.                                               *)
(*                                                                         *)
(* Events are numbered by the time of their insertion, which is both       *)
(* created_at of the outbox row and occurred_at of the event; equal times  *)
(* and clocks that go back are left out.  Only transitions that cross the  *)
(* out-of-service boundary are modelled: the projector skips the others.   *)
(***************************************************************************)
EXTENDS Integers, Sequences, FiniteSets, FiniteSetsExt

CONSTANTS
  Room,          \* rooms, all of one room type
  Relay,         \* processes that run publish_batch()
  Projector,     \* processes that run process_batch()
  total_units,   \* of every slot
  max_attempts,  \* of the relay
  Horizon,       \* days the window of slots reaches ahead
  MaxDay,        \* bound of the calendar
  MaxEvent,      \* bound of the changes of rooms
  MaxFailures    \* bound of the failures to promote

Event == 1..MaxEvent
Date == 0..(MaxDay + Horizon - 1)

ASSUME EventAssumption ==
  /\ total_units \in Nat /\ max_attempts \in Nat \ {0} /\ Horizon \in Nat \ {0}
  /\ MaxDay \in Nat /\ MaxEvent \in Nat /\ MaxFailures \in Nat

VARIABLES
  today,
  out,          \* rooms in an unsellable state
  writing,      \* [Room -> the event of its open transaction, or 0]
  event,        \* sequence of [room, delta]: outbox rows by time of insertion
  outbox,       \* [Event -> status]
  attempts,     \* [Event -> Nat]
  log,          \* domain_event
  relay,        \* [Relay -> rows read and not yet promoted, with the attempts read]
  checkpoint,   \* ProjectionState.last_event_id, 0 if none
  projection,   \* ProjectionState.status
  run,          \* [Projector -> events read and not yet applied]
  slots,        \* dates that have a slot
  out_of_service, claimed,  \* [Date -> Nat]; claimed is sold + reserved
  failures,     \* of promotions, counted for the bound only
  applied,      \* history: the events folded, in order
  late          \* history: promoted when the projector was already past them

roomVars == <<out, writing, event>>
outboxVars == <<outbox, attempts, log, relay, failures>>
projectorVars == <<checkpoint, projection, run, out_of_service, applied>>
vars == <<today, roomVars, outboxVars, projectorVars, slots, claimed, late>>

OutboxStatus == {"absent", "inserted", "pending", "published", "dead_lettered"}

Init ==
  /\ today = 0
  /\ out = {} /\ writing = [r \in Room |-> 0] /\ event = <<>>
  /\ outbox = [e \in Event |-> "absent"] /\ attempts = [e \in Event |-> 0]
  /\ log = {} /\ relay = [p \in Relay |-> {}] /\ failures = 0
  /\ checkpoint = 0 /\ projection = "active" /\ run = [p \in Projector |-> {}]
  /\ slots = 0..(Horizon - 1)
  /\ out_of_service = [d \in Date |-> 0] /\ claimed = [d \in Date |-> 0]
  /\ applied = <<>> /\ late = {}

NextDay ==
  /\ today < MaxDay
  /\ today' = today + 1
  /\ UNCHANGED <<roomVars, outboxVars, projectorVars, slots, claimed, late>>

-----------------------------------------------------------------------------
(* Rooms and their outbox rows.                                             *)

(* A transition of the room writes its row and holds it to the commit, so   *)
(* the changes of one room are made one at a time.                          *)
RecordEvent(r) ==
  LET e == Len(event) + 1
  IN /\ e \in Event /\ writing[r] = 0
     /\ writing' = [writing EXCEPT ![r] = e]
     /\ event' = Append(event, [room |-> r, delta |-> IF r \in out THEN -1 ELSE 1])
     /\ outbox' = [outbox EXCEPT ![e] = "inserted"]
     /\ UNCHANGED <<today, out, attempts, log, relay, failures, projectorVars, slots, claimed, late>>

CommitChange(r) ==
  /\ writing[r] # 0
  /\ out' = IF r \in out THEN out \ {r} ELSE out \cup {r}
  /\ outbox' = [outbox EXCEPT ![writing[r]] = "pending"]
  /\ writing' = [writing EXCEPT ![r] = 0]
  /\ UNCHANGED <<today, event, attempts, log, relay, failures, projectorVars, slots, claimed, late>>

AbortChange(r) ==
  /\ writing[r] # 0
  /\ outbox' = [outbox EXCEPT ![writing[r]] = "absent"]
  /\ writing' = [writing EXCEPT ![r] = 0]
  /\ UNCHANGED <<today, out, event, attempts, log, relay, failures, projectorVars, slots, claimed, late>>

-----------------------------------------------------------------------------
(* The relay.                                                               *)

pending == {e \in Event : outbox[e] = "pending"}

(* publish_batch() reads the rows once and then works through them. *)
ReadOutbox(p) ==
  /\ relay[p] = {} /\ pending # {}
  /\ relay' = [relay EXCEPT ![p] = {[row |-> e, attempts |-> attempts[e]] : e \in pending}]
  /\ UNCHANGED <<today, roomVars, outbox, attempts, log, failures, projectorVars, slots, claimed, late>>

Oldest(rows) == CHOOSE x \in rows : \A y \in rows : x.row <= y.row

(* A projector has passed e, or will: it has a later event in hand. *)
PassedBy(e) == checkpoint > e \/ \E p \in Projector : \E x \in run[p] : x > e

Promote_TwoTransactions(p) ==
  LET x == Oldest(relay[p])  e == x.row
  IN /\ relay[p] # {}
     /\ log' = log \cup {e}
     /\ \/ outbox' = [outbox EXCEPT ![e] = IF @ = "pending" THEN "published" ELSE @]
        \/ outbox' = outbox
     /\ late' = IF e \notin log /\ PassedBy(e) THEN late \cup {e} ELSE late
     /\ relay' = [relay EXCEPT ![p] = @ \ {x}]
     /\ UNCHANGED <<today, roomVars, attempts, failures, projectorVars, slots, claimed>>

(* get_or_create the event; then mark the row, if it is still pending. *)
Promote(p) ==
  LET x == Oldest(relay[p])  e == x.row
  IN /\ relay[p] # {}
     /\ log' = log \cup {e}
     /\ outbox' = [outbox EXCEPT ![e] = IF @ = "pending" THEN "published" ELSE @]
     /\ late' = IF e \notin log /\ PassedBy(e) THEN late \cup {e} ELSE late
     /\ relay' = [relay EXCEPT ![p] = @ \ {x}]
     /\ UNCHANGED <<today, roomVars, attempts, failures, projectorVars, slots, claimed>>

DeadLetter_OneEarly(p) ==
  LET x == Oldest(relay[p])  e == x.row
  IN /\ relay[p] # {} /\ failures < MaxFailures
     /\ failures' = failures + 1
     /\ attempts' = [attempts EXCEPT ![e] = @ + 1]
     /\ outbox' = [outbox EXCEPT ![e] =
                     IF @ = "pending" /\ x.attempts + 2 >= max_attempts
                     THEN "dead_lettered" ELSE @]
     /\ relay' = [relay EXCEPT ![p] = @ \ {x}]
     /\ UNCHANGED <<today, roomVars, log, projectorVars, slots, claimed, late>>

(* The promotion raises and is rolled back: _dead_letter() counts it, and   *)
(* decides by the attempts that were read with the row.                     *)
DeadLetter(p) ==
  LET x == Oldest(relay[p])  e == x.row
  IN /\ relay[p] # {} /\ failures < MaxFailures
     /\ failures' = failures + 1
     /\ attempts' = [attempts EXCEPT ![e] = @ + 1]
     /\ outbox' = [outbox EXCEPT ![e] =
                     IF @ = "pending" /\ x.attempts + 1 >= max_attempts
                     THEN "dead_lettered" ELSE @]
     /\ relay' = [relay EXCEPT ![p] = @ \ {x}]
     /\ UNCHANGED <<today, roomVars, log, projectorVars, slots, claimed, late>>

RelayCrash(p) ==
  /\ relay[p] # {}
  /\ relay' = [relay EXCEPT ![p] = {}]
  /\ UNCHANGED <<today, roomVars, outbox, attempts, log, failures, projectorVars, slots, claimed, late>>

-----------------------------------------------------------------------------
(* The projector.                                                           *)

pending_events == {e \in log : e > checkpoint}

(* process_batch() reads checkpoint and events once. *)
ReadEvents(p) ==
  /\ run[p] = {} /\ pending_events # {}
  /\ run' = [run EXCEPT ![p] = pending_events]
  /\ UNCHANGED <<today, roomVars, outboxVars, checkpoint, projection, out_of_service, applied,
                 slots, claimed, late>>

Window == {d \in slots : today <= d /\ d < today + Horizon}

Adjusted_FromTomorrow(delta) ==
  [d \in Date |-> IF d \in Window /\ today < d
                  THEN out_of_service[d] + delta ELSE out_of_service[d]]

(* adjust_out_of_service_window(): the slots there are, from today on. *)
Adjusted(delta) ==
  [d \in Date |-> IF d \in Window THEN out_of_service[d] + delta ELSE out_of_service[d]]

Fits_Unchecked(adjusted) == TRUE

(* The CHECK constraints of the rows. *)
Fits(adjusted) ==
  \A d \in Date : adjusted[d] >= 0 /\ claimed[d] + adjusted[d] <= total_units

Apply(p, e) ==
  /\ out_of_service' = Adjusted(event[e].delta)
  /\ checkpoint' = e
  /\ projection' = "active"
  /\ applied' = Append(applied, e)
  /\ run' = [run EXCEPT ![p] = @ \ {e}]

Stop_Continues(p) ==
  /\ projection' = "failed"
  /\ run' = [run EXCEPT ![p] = @ \ {Min(@)}]
  /\ UNCHANGED <<checkpoint, out_of_service, applied>>

(* Any exception ends the batch and leaves the checkpoint where it is. *)
Stop(p) ==
  /\ projection' = "failed"
  /\ run' = [run EXCEPT ![p] = {}]
  /\ UNCHANGED <<checkpoint, out_of_service, applied>>

(* Adjustment and checkpoint are one transaction. *)
ProcessEvent(p) ==
  LET e == Min(run[p])
  IN /\ run[p] # {}
     /\ IF Fits(Adjusted(event[e].delta)) THEN Apply(p, e) ELSE Stop(p)
     /\ UNCHANGED <<today, roomVars, outboxVars, slots, claimed, late>>

ProjectorCrash_BeforeCheckpoint(p) ==
  LET e == Min(run[p])
  IN /\ run[p] # {}
     /\ Fits(Adjusted(event[e].delta))
     /\ out_of_service' = Adjusted(event[e].delta)
     /\ applied' = Append(applied, e)
     /\ run' = [run EXCEPT ![p] = {}]
     /\ UNCHANGED <<today, roomVars, outboxVars, checkpoint, projection, slots, claimed, late>>

ProjectorCrash(p) ==
  /\ run[p] # {}
  /\ run' = [run EXCEPT ![p] = {}]
  /\ UNCHANGED <<today, roomVars, outboxVars, checkpoint, projection, out_of_service, applied,
                 slots, claimed, late>>

-----------------------------------------------------------------------------
(* The rest of availability.                                                *)

(* initialize_horizon(): the dates of the horizon that have no slot yet. *)
InitializeHorizon ==
  LET wanted == today..(today + Horizon - 1)
  IN /\ ~ wanted \subseteq slots
     /\ slots' = slots \cup wanted
     /\ UNCHANGED <<today, roomVars, outboxVars, projectorVars, claimed, late>>

Claim(d) ==
  /\ d \in slots /\ d >= today
  /\ claimed[d] + out_of_service[d] < total_units
  /\ claimed' = [claimed EXCEPT ![d] = @ + 1]
  /\ UNCHANGED <<today, roomVars, outboxVars, projectorVars, slots, late>>

Release(d) ==
  /\ claimed[d] > 0
  /\ claimed' = [claimed EXCEPT ![d] = @ - 1]
  /\ UNCHANGED <<today, roomVars, outboxVars, projectorVars, slots, late>>

Next ==
  \/ NextDay \/ InitializeHorizon
  \/ \E r \in Room : RecordEvent(r) \/ CommitChange(r) \/ AbortChange(r)
  \/ \E p \in Relay : ReadOutbox(p) \/ Promote(p) \/ DeadLetter(p) \/ RelayCrash(p)
  \/ \E p \in Projector : ReadEvents(p) \/ ProcessEvent(p) \/ ProjectorCrash(p)
  \/ \E d \in Date : Claim(d) \/ Release(d)

Spec == Init /\ [][Next]_vars

-----------------------------------------------------------------------------
TypeOK ==
  /\ today \in 0..MaxDay
  /\ out \subseteq Room /\ writing \in [Room -> 0..MaxEvent]
  /\ event \in Seq([room : Room, delta : {-1, 1}])
  /\ outbox \in [Event -> OutboxStatus] /\ attempts \in [Event -> 0..MaxFailures]
  /\ log \subseteq Event /\ failures \in 0..MaxFailures
  /\ relay \in [Relay -> SUBSET [row : Event, attempts : 0..MaxFailures]]
  /\ checkpoint \in 0..MaxEvent /\ projection \in {"active", "failed"}
  /\ run \in [Projector -> SUBSET Event]
  /\ slots \subseteq Date
  /\ out_of_service \in [Date -> 0..total_units] /\ claimed \in [Date -> 0..total_units]
  /\ applied \in Seq(Event) /\ late \subseteq Event

(* shared/services/outbox.py:8-10: a row is marked published together with  *)
(* its event, and one that is still to be promoted was never promoted.      *)
PublishedIffLogged ==
  \A e \in Event : /\ outbox[e] = "published" => e \in log
                   /\ outbox[e] \in {"absent", "inserted", "pending"} => e \notin log

(* A row is given up only after max_attempts failures, whatever attempts    *)
(* the relay had read.                                                      *)
DeadOnlyAfterMax ==
  \A e \in Event : outbox[e] = "dead_lettered" => attempts[e] >= max_attempts

(* The projector passes over an event only if it was promoted after a later *)
(* one had been read: a failure or a crash never costs an event.            *)
SkippedOnlyIfLate ==
  \A e \in log : e <= checkpoint => e \in late \/ \E i \in DOMAIN applied : applied[i] = e

(* docs/domain-model-specification.md:278: availability and the state of    *)
(* the rooms do not diverge, once the events applied are all there were.    *)
OutOfServiceMatchesRooms ==
  (log = {e \in Event : outbox[e] # "absent"} /\ Len(applied) = Cardinality(log)) =>
    \A d \in Window : out_of_service[d] = Cardinality(out)

(* The same while the window of slots stands still: on every night the slots *)
(* count the rooms that are out, whatever relays and projector went through. *)
ExactWhileWindowStands == today = 0 => OutOfServiceMatchesRooms

Delivery == INSTANCE EventDelivery WITH
              recorded <- {e \in Event : outbox[e] \notin {"absent", "inserted"}},
              delivered <- applied

(* The projection is handed only events that happened, once and in order. *)
DeliverySpec == Delivery!Spec
=============================================================================
