# Verification of the hotel booking system

This directory models the repository's stateful core in TLA+, checks it with TLC
and proves its main invariants with TLAPS: the availability ledger, reservations
and bookings, rooms, check-in and housekeeping, the events that carry room states
to the ledger, the months of slots, notifications, guest profiles and consents,
policies, the team and its accounts, tenants and how requests are kept inside them,
prices, and the browser's stores and session. Paths below are relative to the
repository root.

## 1. The system

A Django application (PostgreSQL, READ COMMITTED; Celery workers) that hotels
share as tenants. The parts, the state they keep and how they interact:

| Part | State | Operations | Hard because | Correct when |
|---|---|---|---|---|
| Availability (`apps/availability`) | one `availability_slot` row per room type and night: `total_units`, `sold`, `reserved`, `out_of_service` | open a horizon; hold, sell, convert and release a window of nights; adjust out-of-service | check-then-write of many rows by many requests | never oversold; the counters are exactly what reservations and bookings say |
| Reservations (`apps/reservations`) | `status`, `hold_expiry_at`, lines | reserve, request_payment, convert, cancel, expire; the periodic sweep | deadlines, stale id lists, two sweeps at once, retries | settled once; expired only when overdue, and then in the end; never converted late |
| Bookings (`apps/bookings`) | bookings and one line per room | confirm | several tables in one transaction | one line per room of a converted reservation, none otherwise |
| Idempotency (`apps/shared/services/idempotency.py`) | a record per (scope, key) | run | two requests with one key | the mutation happens once per key |
| Workflow runner (`apps/shared/workflows`) | none | run a declared transition, audit, outbox | optimistic versions | state, audit and event commit together |
| Rooms, allocation, housekeeping | room state, line state, tasks | allocate, check out, clean, inspect | unlocked reads, two state machines in step | one guest per room; task and room keep in step; ready only after inspection |
| Outbox and projections | outbox rows, event log, checkpoints | relay, fold into slots and notification jobs | crashes, late events, concurrent runs | each event applied once, in the end |
| Notifications | job status, retry count, attempts | deliver, retry, dead-letter, reap | events promoted late, a send outside any transaction, slow workers | no event folded past without its job, none stuck |
| Slot partitions (`apps/availability/partitioning.py`) | one table partition per month | the maintenance task; opening a horizon | DDL that commits statement by statement; an older task that runs late | no night from the current month on loses its slot; every night of the horizon can be stored |
| Guests (`apps/guests`) | profiles: email, phone, status; a history of consents | find or create, merge, erase; give and withdraw consent | reads before writes, uniqueness decided late, clocks that differ | a contact is on one live profile, and callers who name it get that one; erased stays erased; the last word on a purpose counts |
| Policies (`apps/policies`) | drafts, published and retired versions | draft, publish, retire, resolve | numbering from what was read | numbers never repeat, one version is in force |
| Pricing (`apps/pricing`) | rate plans, overrides, modifiers | change a plan, quote | overlapping overrides; rounding | a quote adds up and is within the policy's bounds |
| Accounts (`apps/accounts`) | invitations, memberships, the login counter, devices, sessions | invite, redeem, revoke, sign in, enrol, remove | tokens and rows read earlier; counters | roles are granted by accepted invitations; an owner with a device keeps one; failures lock |
| Frontend (`frontend`) | signals of stores, the signed-in user, the selected tenant | load, search, act; sign in, select, reload | answers out of order; state that outlives a page | the screen shows the answer to the last call; the selection is on the list |
| Tenants (`apps/tenants`, `shared/tenancy.py`, `accounts/middleware.py`) | tenants with settings, flags, roles and an owner; per thread and per transaction the current tenant | provision; establish, stamp and clear a request's tenant | several tables and one unique code; threads that serve one request after the other | a tenant that can be seen is whole; a request sees its own tenant and no other |
| Properties, configuration | rows | create, read, update | - | - |

A reservation draws on the ledger (`InventoryService.hold`), a confirmation
converts it (`ReservationService.convert`, called by `BookingService.confirm`),
a cancellation or the sweep gives it back. Every API request runs in one
database transaction opened by `TenantContextMiddleware`; the `atomic()` blocks
inside are savepoints, so row locks last until the request ends. Celery tasks
are outside that transaction: the sweep reads a list of overdue ids and expires
each in a transaction of its own. Check-in gives a booking line a room and
check-out takes it back and opens a cleaning task; every operation on a task also
moves its room (`RoomStateMachine.apply`). Room state changes reach the ledger through
the outbox, the event log and a projector; booking events reach the notification
jobs in the same way, and a worker sends them outside any transaction. The browser
sends the selected tenant with every call, and the middleware resolves the tenant
from it before any view runs.

## 2. Modules

| Module | Models | From |
|---|---|---|
| `CapacityLedger` | what the ledger promises, without counters, rows or transactions | `apps/availability` as its callers see it |
| `ReservationLifecycle` | every service call that changes a reservation, a booking or a slot, one step each; the sweep step by step | `reservations/services.py`, `reservations/tasks.py`, `bookings/services.py`, `availability/services.py`, `availability/repository.py` |
| `ReservationLocks` | the same calls as transactions that lock one row per step | the same, with `idempotency.py` and `middleware.py` |
| `RoomTurnover` | what front desk and housekeeping promise about rooms and guests | `rooms/models.py` and its callers |
| `RoomOperations` | check-in, check-out, cleaning, inspection and direct transitions as transactions, one statement that can wait per step | `allocation/services.py`, `housekeeping/services.py`, `housekeeping/models.py`, `rooms/models.py`, `rooms/services.py`, `shared/models/mixins.py` |
| `EventDelivery` | what a consumer of the event log may rely on | `availability/projectors.py` as its docstring describes it |
| `EventProjection` | room change, outbox row, relay, event log, room-state projector, slots; one transaction per step | `shared/workflows/runner.py`, `shared/services/outbox.py`, `availability/projectors.py`, `availability/repository.py`, `availability/services.py` |
| `NotificationPromise` | what is promised of one notification: tries, calls of the provider, how it ends | `notifications/models.py`, `notifications/providers.py` |
| `NotificationDelivery` | the projector of booking events, the dispatcher, the queue, the workers and the reaper, one statement per step | `notifications/projectors.py`, `notifications/tasks.py`, `notifications/services.py` |
| `GuestProfiles` | find-or-create, merge and erasure, with the unique constraints | `guests/services.py`, `guests/models.py` |
| `GuestConsents` | consents of one guest, by purpose | `guests/services.py`, `guests/models.py` |
| `SlotCalendar` | the months of slots: created ahead, dropped behind, filled by openings, held by stays | `availability/partitioning.py`, `availability/tasks.py`, `availability/services.py` |
| `TenantProvisioning` | tenants, the requests in them and `provision()`, under row level security | `tenants/services.py`, `shared/tenancy.py`, `accounts/middleware.py`, `shared/migrations/0002_enable_rls.py` |
| `PolicyVersions` | drafts, publication, retirement, resolution | `policies/services.py`, `policies/models.py` |
| `PriceQuotes` | changes of a rate plan and quotes over it | `pricing/services.py`, `pricing/models.py`, `shared/value_objects` |
| `TeamMembership` | invitations and memberships of a tenant | `accounts/services.py`, `accounts/api/views.py` |
| `StaffSignIn` | one account's sign-ins, lockout, challenges, sessions and devices | `accounts/services.py`, `accounts/api/views.py` |
| `StoreRequests` | the signal stores' calls and the guard against late answers | `frontend/src/app/features/*/store`, `latest-request-guard.ts` |
| `BrowserSession` | sign-in, page start, reload, selected tenant, and the server's side of those calls | `frontend/src/app/core`, `features/login`, `accounts/middleware.py`, `accounts/api/views.py` |
| `ReservationLifecycle_proofs`, `ReservationLocks_proofs`, `LockedLedger_proofs`, `RoomOperations_proofs`, `RoomsContended_proofs`, `EventProjection_proofs`, `NotificationDelivery_proofs`, `BackOffice_proofs` | theorems (section 4) | |
| `MCReservationLifecycle`, `MCReservationLocks`, `MCRoomOperations`, `MCEventProjection` | small instances for TLC | |
| `MCTwoLockOrders`, `MCRoomsContended`, `MCEventually`, `MCBackOffice` | several instances, one of which is chosen at the start and runs alone | |

**ReservationLifecycle.** `status`, `hold_expiry_at`, `total_units`, `sold`,
`reserved` and `out_of_service` are the columns of the same name;
`booking_lines` and `sold_direct` say which rows and idempotency records exist;
`overdue_ids` is the list a running sweep has in memory; `now` is the clock. A
`Unit` is one room of one requested line; a line of quantity 2 has two. A call
that raises rolls back and is a stuttering step, so each action is the call that
succeeds. "none" is a reservation not yet made: "draft" exists only inside
`reserve()`'s transaction. `blocked` is written by no code and left out; prices,
policies and guest data are never read by the control and left out.

**ReservationLocks.** `held_by` is the lock table over idempotency keys,
reservation rows and slot rows; `txn` is each connection's open transaction and
the statement it executes next. `status`, `request` and `slot` are what is
committed; what a transaction has written and not yet committed is computed from
its progress (`Written`, `SlotAfter`). A retried request brings the same key. A
transaction can end in a commit, a refusal, a broken deadlock or a lost
connection.

**RoomOperations.** `line_status` and `line_room` are the columns of
`BookingLine`; `room_state`, `room_version` and `current_line` those of `Room`;
`task_status`, `task_version` and `task_line` those of `HousekeepingTask`, whose
key is the room and the business date (departures are the only tasks the code
creates); `verdict` is the `Inspection` row. They hold what is committed. `txn`
is each connection's open request with the versions its reads returned, and
`held_by` the row locks. `allocate_line()` locks before it decides; all other
operations read first and write with `UPDATE ... WHERE version = <as read>`,
which waits for the row and fails if it has moved. Reads and writes between two
statements that can wait are one step. What a transaction writes appears with
its `Commit`, which is sound because every row it writes is locked until then
and READ COMMITTED shows nobody else its writes. A call that raises, a refused
insertion or a lost connection is `Rollback`. Idempotency keys are left out:
calls with keys of their own never meet on them, and a repeated call replays the
answer without touching the tables.

**EventProjection.** `event` lists the outbox rows in the order of their
insertion, which is the order of `created_at` and hence of `occurred_at`;
`outbox` and `attempts` are the rows' columns (`inserted` is a row whose
transaction is open), `log` is `domain_event`, `checkpoint` and `projection` are
the columns of `ProjectionState`. `relay` and `run` are the lists that
`publish_batch()` and `process_batch()` have read and work through, one
transaction per element; a crash forgets the list. `out_of_service` and `claimed`
(sold + reserved) are the counters of the slots, of which `slots` exist. Only
transitions across the out-of-service boundary are modelled; the projector skips
the others. Checkpoint and events are read in one step, which is exact for one
projector. `late` records the events that were promoted after a later one had
been read; no action depends on it.

**NotificationDelivery.** `job_status`, `version`, `retry_count` are the columns
of `NotificationJob`; `failures` and `successes` count its delivery attempts;
`log`, `checkpoint` and `withheld` are the event log as the projector reads it.
Events are numbered as in `EventProjection`, by the insertion of their outbox row,
which is their `occurred_at` (`outbox.py:105`); `Log` promotes them in any order, the
checkpoint is compared with that number (`PendingEvents`), and `late` records the
events promoted when the projector was already past them: history, which no action
reads. `run` is a dispatcher's batch, `queue` the messages of Celery, `worker` and
`reaping` what a worker or the reaper has read. A save compares the version read
(`Fresh`). `overdue` marks a job that has been delivering longer than the reaper's
timeout. `calls` counts what the provider was asked to do, and `accepted` what it
accepted: history that no action reads. A worker's call is outside any transaction,
so it can be slow, die before or after, or answer after the reaper has moved the job.
`NotificationPromise` is the same for one job without workers and messages.

**GuestProfiles, PolicyVersions, TeamMembership.** Rows are records; `issued`
counts the ids given. Each request reads, decides and writes in separate steps,
with what it read in `resolving`, `working` or `request`; a redemption and a
publication hold the row lock they take. `inserting` holds rows whose transaction
is open: another insertion of the same identity waits for it
(`GuestProfiles!Conflicting`). `overlapped` in `PolicyVersions` is history: two
drafts have existed at once.

**GuestConsents.** A call takes the time its server's clock shows, or the instant
after the latest consent it can see (`next_granted_at`), and appends a row which
others see when it commits. `said` and `refused` are history.

**SlotCalendar.** Days are numbers and `FirstDay` the days that open a month.
`partitions` are the months that have a table, `slot` the units taken of each night
that has a row. A task reads today once (`today` in its `job`), creates one month per
step, lists what is behind its own today, and drops one month per step: each DDL
statement commits by itself. Openings read the nights that are missing and insert
them in one statement, which fails on a row or on a missing partition. `maintained`
and `opened` are history.

**TenantProvisioning.** `context` is the thread-local of `tenancy.py`, `stamp` the
transaction's `app.tenant_id`, and `Visible` what both filters let a statement find:
the manager's, which a missing context turns off, and the database's, which a missing
stamp closes. `provision()` writes the parts of a tenant in order; `tenant` holds its
row while the transaction is open, and whoever inserts the same code or account
waits for its end. `StampFails` is `_stamp_db()` raising after the thread-local is
set, outside the `try` that would clear it (`accounts/middleware.py:78-84, 96-97`).

**PriceQuotes.** A quote is computed as the code computes it: nightly totals, subtotal, fees and
clamping, then the checks of `PriceBreakdown`; amounts are small integers, and the
calendar is two days (a Sunday and a Monday), which is enough for an override, a
weekend modifier and a night under neither.

**StaffSignIn.** `account` is the row of `user_account`; `device` the state of each
MFA device; `session` the browsers' sessions; `request` what each browser's request
has read and, in `row`, what it has written of the account's row and not committed.
`owner` says whether the member holds a role that requires a device, which
`TeamMembership` changes. `secured` is history. Codes and passwords are right or
wrong at will; throttling is not modelled.

**StoreRequests, BrowserSession.** A store has the token of its guard, what it shows,
and the calls under way; answers arrive in any order. In `BrowserSession` a flow
(`flow`) makes one call after another; `route`, `currentUser`, `mfaPending`,
`tenants` and `selectedTenantId` are the signals of the same name, of which the last
is kept in sessionStorage. The server's `session` and `member` change at any time.
A request without a session is answered 403 (`tests/api/test_auth.py:68`), so the
branch of the error interceptor for 401 is never reached and left out.

Definitions whose name ends in a suffix after an underscore and are mentioned in no
other definition (`CanConsume_IgnoresHolds`, `RowFree_Unlocked`) are slips that a
maintainer might make. They document what each property is there to catch.

**Composition by parts.** `MCTwoLockOrders`, `MCRoomsContended`, `MCEventually` and
`MCBackOffice` hold several instances that share no variable. A behaviour of all of
them is, projected on one, a behaviour of that one with stuttering, so what each
does alone is all there is to check: `part` is chosen at the start and only that
part takes steps. Its invariants hold of the others trivially, in their initial
states.

## 3. Runs

| Configuration | Question | Instance | Result |
|---|---|---|---|
| `ReservationLifecycle.cfg` | do the services keep the ledger exact, implement `CapacityLedger`, and settle every overdue hold? | two room types, two nights; a two-room reservation, a two-line reservation, a direct sale; two sweeps, one of which may crash; clock to 3 | holds |
| `RowLocks.cfg` | may a call be treated as atomic; and is date order enough against deadlock with one line per reservation? | two requests, a sweep; two-line reservations over the same two slots in opposite orders, or overlapping windows of 3 and 2 nights, one room short | holds |
| `LocksDeadlock.cfg` | the claim of `apps/availability/repository.py:11-14` | the two-line reservations | **violated** |
| `RoomOperations.cfg` | do overlapping requests keep rooms, guests and tasks in step, and implement `RoomTurnover`; can a room be given twice, or a lock cycle form? | two rooms, two days, two connections, two stays of one guest; service, defect and restore; or four lines for two rooms, one line of a guest who comes back | holds |
| `RoomMaintenance.cfg` | is a room given once, maintenance included? | two lines, with maintenance and restore_direct | **violated** |
| `RoomFailedInspection.cfg` | does a room in cleaning have a task? | one day | **violated** |
| `Projection.cfg` | do rows, log and slots agree, and is every event folded once and in order? | two rooms, three events, two relays, one projector, two days | holds |
| `ProjectionCalendar.cfg` | do slots and rooms agree on every day? | two events | **violated** |
| `Eventually.cfg` | does every transaction and every request end, and is no notification stuck? | two requests over two-line reservations; two desks, two lines, two rooms; two workers that may die, a dispatcher and a reaper | holds |
| `BackOffice.cfg` | does each back-office part keep its promise under every interleaving? | twelve parts: folding (3 events promoted in any order, 2 dispatchers), notifications (one event, 2 workers, 2 dispatchers, reaper), guests (2 callers), consents (2 callers, one purpose), policies (2 staff), calendar (2 months, 2 clerks, a stay), tenants (2 threads, 2 codes, 2 owners), team (2 requests, 2 users, 2 invitations), prices (2 staff, a quoter), account (2 browsers, 2 devices), stores (3 calls each), browser (2 tenants, 2 flows) | holds |
| `NotificationDispatch.cfg` | is a failed job tried again? | one worker, one reaper | **violated** |
| `BrowserTenantHeader.cfg` | is the tenant header harmless on sign-in and identity calls? | one user, two tenants, two flows | **violated** |

Bounds: the clock stops at `MaxTime`, which lets every hold run out and leaves
a step after; `MaxCrashes` bounds lost sweeps. Two nights are the smallest
window whose nights can disagree, two room types the smallest reservation with
two lines, two sweeps the smallest pair that can hold the same id. Two
reservations suffice for one to take another's rooms. Totals are chosen so that
some requests fit together and some do not. Deadlock is allowed in the
lifecycle runs: when the clock has stopped, all is settled and the slots are
full, nothing is left to do. Symmetry is used in safety runs only (connections, relays, rooms). In the room runs two rooms are the smallest set
that can be locked in two orders; two lines suffice for one room to be used, cleaned
and used again, and the four contending lines let a returning guest
prefer a room other than the lowest, while others compete. `MaxDay` ends the
calendar: with two days a room can depart again on the same day (refused) and on
the next. `MaxVersion` bounds the direct operations on a room, which would
otherwise go round for ever (service, service_complete). In the projection runs
three events let one be overtaken by a later one and a room come back while
another goes out; two failures reach `max_attempts` = 2; the second day shows the
window moving. The run may stop when all events are used. In `BackOffice` the part
"folding" has three events, so that one can be promoted behind the checkpoint or behind
an event that another dispatcher has in hand, and one fold move the checkpoint back over
two; its workers rest. In the part "notifications" one job is enough for the workers and
the reaper (`MaxDelivered`), because jobs share nothing but the checkpoint; two retries
reach the limit. Two profiles can be asked for by email and by phone, and be merged
either way; three consents on clocks that run apart by two instants let one be given,
withdrawn and given again, by a server whose clock is behind. Two months of two days, a
horizon of one day and two clerks let a task that read its today in the first month
drop while another opens nights of the second. Two threads that serve two users, two
codes and two ids let provisionings collide on either, fail, and be followed on the
same thread by a request. Three policy rows let a version be published twice and a draft remain.
Two invitations let one user hold two roles; two tokens let one be rotated. A base rate of 3 and a modifier of
half of it let a night be rounded (`HalfOff`); `MaxPlanSaves` is the one change of the
plan that a quote can overlap. A lockout threshold of 2 with 3 counted failures reaches the lock, its end and a
failure after it. One user with two tenants reaches a selection that is listed,
ambiguous, automatic and stale; more users add no state that a reply does not
already carry. The parts stop at their bounds, hence no check for deadlock.

Fairness: `CELERY_BEAT_SCHEDULE` starts the sweep every 60 seconds, hence weak
fairness of reading the list and of each expiry; no call of a guest or of the
staff is assumed. This supposes that the sweep, which runs outside any tenant, sees the
rows at all: under the row level security that `0002_enable_rls.py` forces, its database
role must be one that bypasses it. `MaxCrashes` means that workers do not die for ever. For the
locks, a connection executes its next statement; PostgreSQL queues the waiters
of a row, hence strong fairness of each connection's next step, and its deadlock
detector runs. For the rooms, strong fairness of each connection's next
statement for the same reason; no deadlock detector is needed. For notifications,
time passes, the reaper is in the beat schedule and hence fair, and a worker that has
something to do goes on or dies. Nothing is assumed of dispatchers:
`dispatch_notifications` is in no schedule.

**Findings.** (1) `repository.py:11-14` says that callers whose windows overlap
"can only ever deadlock-free block on each other, never deadlock". That holds
within one window (`RowLocks`, part `one_window`). But `reserve()`
(`reservations/services.py:182`) locks the windows of its lines in the order of
the request, in one transaction, and so do cancel, expire and confirm over
`reservation.lines.all()`. `LocksDeadlock` shows two reservations that list the
same two room types in opposite orders waiting for each other. Nothing is lost:
the database fails one of the two, and `RowLocks` shows the ledger intact;
the guest sees an error.

(2) `allocate` is documented as "Allocate a vacant clean room to a guest"
(`rooms/models.py:157`). But `maintenance` (240) enters `out_of_order` from an
occupied room and leaves its line checked in, and `restore_direct` (260) leads
from there to `vacant_clean` with no guard. `RoomMaintenance` shows the room
given to a second guest while the first is in house. `OccupiedIffCheckedIn` and
`ReadyOnlyIfInspected` fail with these transitions as well, which is why the
theorems exclude them. (`docs/software-design-document.md:727` gates this
restoration by an inspection; `docs/OOS_VS_OOO_SEMANTICS.md:62` drops the
inspection on purpose, arguing from a room that was clean and ready - which an
occupied room is not.) In this commit only tests request the two transitions.

(3) `housekeeping/models.py:161` says that after a failed inspection "the room
goes back to CLEANING via a NEW task". No code opens one: `inspect()`
(`housekeeping/services.py:213`) ends the task and moves the room, and the room
then stays in `cleaning` (`RoomFailedInspection`).

(4) `docs/domain-model-specification.md:278`: "availability reads room state; the
two must never diverge". The projector adjusts the slots that exist in a window
that starts on the day it folds the event, and `initialize_horizon()` opens later
slots with `out_of_service` 0, whatever rooms are out. `ProjectionCalendar` shows
a night that counts no room out of service while one is. When the room
comes back, its -1 is refused on that night and the projection stays failed.

(5) `notifications/tasks.py:64` says that the reaper moves a stuck job to failed "so
the NEXT `dispatch_notifications` tick picks it up again". There is no such tick:
`CELERY_BEAT_SCHEDULE` (`config/settings/base.py:240`) has the sweep and the reaper only. `NotificationDispatch` shows a job that the reaper failed, whose worker's late
answer was refused, and that nobody tries again.

(6) `tenant.interceptor.ts:9` calls `X-Tenant-Id` "harmless to send on the few
endpoints that ignore it (`/auth/*`, `/tenants/`)". The middleware ignores it on
none: `_resolve_tenant()` refuses every authenticated request that names a tenant
the user is not a member of. `BrowserTenantHeader` shows the consequence: a
membership is revoked, the page is reloaded with the old selection,
`GET /auth/me/` is refused, and the page shows the sign-in form without asking for
the tenants, the one call after which a stale selection is dropped. Signing in again
is refused too while the old session lasts.

Two limits of the projections are visible in the models without being findings of a
run. The checkpoint is the time of the last event folded, but events enter the
log when they are promoted: one that was held up by a long transaction or by a
failed attempt, and is promoted after a later one was folded, is never read. That is
so of both projectors, which select by `(occurred_at, id)`
(`availability/projectors.py:88`, `notifications/projectors.py:74`): a room's change is
not counted, and a guest is never notified, because the booking event gets no job.
`SkippedOnlyIfLate` in `Projection` and `NothingDropped` in `BackOffice` say that this is
the only way to lose one. And
`DeliverySpec` holds with one projector only: two overlapping runs of
`process_batch()` read the same checkpoint, without a lock, and fold an event
twice. Nothing schedules relay or projector in this commit, so no liveness is
claimed of them.

One promise of the guests' profiles does not hold as it is written. `resolve()` says that
"two concurrent resolves for the same identity converge on one profile"
(`guests/services.py:122`). For an identity of one contact they do. With an email and a
phone, which is what `reserve()` asks for (`reservations/services.py:120`), they need not,
when the two contacts are on two profiles: one request inserts the phone as profile 1 and
is not committed; the email is committed as profile 2; a request for both is answered
with 2, the only one it sees; profile 1 is committed; the next request for both is
answered with 1, the first of the two (`find_by_identity`). The guest part of `BackOffice`
reaches this, and `AnswersConverge` excepts it by name: two answers to one identity agree
unless one of the two profiles has its email and the other its phone (`StandApart`).

Three more limits, of code that nothing in this commit calls. The task of
`availability/tasks.py` is in no schedule. It drops whole months behind today and asks
no stay: a reservation that is still held with nights there can then not be released,
because the window it would release is incomplete; `NightsStand` therefore speaks of
nights from the current month on. `expire_past_due()` (`accounts/services.py:149`)
stamps each tenant with `run_as_tenant()`, whose stamp is local to a transaction, and
opens none around it: with row level security forced, and each statement in a
transaction of its own, the update finds no row, although the docstring says that the
configuration is in force. `TeamMembership` models what it does when its caller has
opened a transaction. `provision()` and the redemption of invitations are called by no
view either.

## 4. Proofs

Every invariant and every safety property (action properties and refinements) of a
passing run is stated by a theorem here; the runs show it of a small instance, the
theorem of every value of the constants that its assumptions and provisos, named below,
admit.

`ReservationLifecycle_proofs` proves, for every set of room types, dates,
reservations, sales and sweepers, any lines and any capacities:

- `TypeCorrect`, `NeverOversold`, `LedgerExact`, `BookingsExact`: the four
  invariants of `ReservationLifecycle.cfg`;
- `SettledForever`: a settled reservation never changes;
- `ExpiryNeverEarly`: only overdue holds expire;
- `ImplementsLedger`: the refinement of `CapacityLedger`.

Assumptions: `DataAssumption` (dates are integers, totals are positive, units
are finite in number and have one owner) and `BoundsAssumption`.

The inductive invariant `IInv` is the conjunction of the four invariants, none
of which is inductive alone. That `reserved` does not go below zero when a hold
converts needs that the counter is the number of held units (`LedgerMatches`).
That the number of held units of a night falls by exactly the demand of the
reservation that settles needs that those units have no booking line yet
(`BookedIffConverted`). `NoOversell` needs the types. The counting steps are
lemmas over finite sets: the held units after a step are those before, plus or
minus the units of one reservation, which are disjoint from the rest. For
`ExpiryNeverEarly` a second invariant says that every id a sweep has in hand
is settled or overdue; it is inductive because deadlines do not move and the
clock does not go back.

`RoomOperations_proofs` proves, for every set of connections, rooms, lines,
eligible rooms and guests, with no bound on days and versions:

- `RoomsTypeCorrect`, `TasksMatchRooms`, `DeparturesLeaveTasks`: with all direct
  transitions allowed;
- `RoomsMatchGuests`, `NoDoubleAssignment`: assuming that nobody uses
  `maintenance`;
- `ReadyAfterInspection`, `ImplementsTurnover`: assuming neither `maintenance`
  nor `restore_direct`.

The provisos are needed: finding (2). `RoomsAssumption` says that room ids are
natural numbers and that the special values are distinct from real ones.

The inductive invariant is `Sound` (`TransactionsSound`): the types, that a line
that has been checked in has a room, and, per open transaction, what it knows.
Before a transaction has a row's lock it knows only that the version it read is
not above the current one, and that if they are equal the row is still in the
state the transition starts from; once it has the lock and has compared the
versions, it owns the row until it ends. `OthersKeep` shows that a step of
another connection cannot falsify this (a commit writes only rows it has locked,
and moves the version with the row), and one lemma per operation shows that a
transaction's own steps establish it. At commit time the room is therefore in
the transition's source state, and the theorems above follow from the table of
transitions (`Moves`): only commits change the tables, and each moves room,
line and task together. None of `TaskMatchesRoom` and `OccupiedIffCheckedIn` is
inductive without `Sound`: a commit's guard says nothing of the room's state.
`ReadyAfterInspection` needs also that an open task belongs to the line the
room last had (`TaskOfLastGuest`).

`RoomsNeverDeadlock` is about any finite set of rooms. The code takes rows in the
order line, inspection, rooms by ascending id, task. The invariant `Ordered` says how
far a transaction is that holds a row; with it and `Sound`, whoever holds a wanted row
and waits itself waits for a room with a greater id (`HolderWaitsForLater`), and in a
circle of such requests the one that wants the greatest room would contradict it. The
rooms must be finitely many for that greatest one to exist.

`RoomsContended_proofs` carries it over to the instance that the run checks
(`ContendersNeverDeadlock`): it instantiates `RoomOperations_proofs` with the lines,
connections and rooms of `MCRoomsContended`, whose assumptions imply those of the
theorem, and the two instances of the module have the same steps.

`EventProjection_proofs` proves, for every set of rooms, relays and projectors,
any horizon, capacity and `max_attempts`: `ProjectionTypeCorrect`,
`PublishedWithEvent`, `GivenUpOnlyAfterMax` and `OnlyLateEventsSkipped`; and, for
one projector, `ImplementsDelivery`, the refinement of `EventDelivery`. The only
assumption is that the numbers are naturals (`EventAssumption`). The inductive
invariant `Ind` (`ProjectionSound`) adds three facts. `RowsSound`: an open
transaction has a row of its own, and whatever a relay holds or the log contains
was committed; the attempts a relay has read are never more than the row's, which
is why the stale decision of `_dead_letter()` is safe. `CursorSound`: checkpoint
and batches are events of the log. `NothingPassed`: a batch contains every event
of the log that is older than one of its own, unless it was late or is folded;
`SkippedOnlyIfLate` is not inductive without it. The refinement needs that what a
batch still holds is newer than the checkpoint (`InOrder`), which is what fails
with two projectors.

`WindowCountsRooms` proves `ExactWhileWindowStands` for one projector. It keeps two
accounts of the same events. The rooms that are out are the committed +1 events less
the committed -1 events (`RoomsAccounted`, which also says which way an open
transaction will turn the room); a slot counts the folded +1 less the folded -1
(`SlotsAccounted`), as long as the window is the first one. Once all events of the log
have been applied, each once, the two sets of events are the same. One projector is
needed for "each once": with two, an event can be folded twice and the length of
`applied` no longer counts them.

`ReservationLocks_proofs` and `LockedLedger_proofs` prove, for every number of
connections, reservations, keys, lines and nights, with no bound on the clock:

- `KeysUnique`: an idempotency key has one reservation;
- `LateNeverConverted`: a hold that has run out is never booked;
- `LocksTypeCorrect`, `CountersAlwaysMatch`, `LocksNeverOversell`: the counters of every
  night are the committed reservations and fit in its capacity;
- `TransactionsImplementLedger`: the refinement of `CapacityLedger`, and so the
  reason why `ReservationLifecycle` may treat a call as one step.

`LocksAssumption` says that the special values are distinct from real ones, that
every reservation has a line and every line a night and a room, and that the rooms
asked for are finitely many. The first invariant, `Sound` (`LocksSound`), says what a
transaction knows once it is past its first lock: `reserve()` holds a key that is not
recorded, and a row nobody else has seen; any other call holds the row of its
reservation. The second, `IInv` (`LockedLedgerSound`), follows it through its lines
(`Progress`): it has locked the nights before the one it asks for and every night of
the lines it is done with, so nobody can have taken what its check found there, and it
commits when all lines are done. `CountersMatchReservations` and the capacity are
inductive only with it: capacity is checked at the last lock of a line, and used at
the commit. `CountAfter` counts the rooms in a phase after one reservation changes
its own. These proofs use no order of the locks: order matters for deadlock alone.

`WindowsNeverDeadlock` is that part (`OneWindowNoDeadlock`): if every reservation has
one line, whose nights are listed by date (`WindowAssumption`), no circle of waiting
transactions ever forms, for any number of room types, nights, reservations and
connections, the sweeps among them. The invariant `WindowSound` says what a
transaction that waits holds (`InOrder`): nothing before its first lock, no night
before its window, and then only the nights of its window that are earlier than the
one it asks for. Everyone in a circle waits for a row that another one in it holds.
That is never a key or a reservation: those who hold one and wait ask for nights. So
the circle waits for nights only; of all nights waited for, take the earliest one.
Whoever waits for it holds a row that somebody else in the circle waits for, and that
row, a night of its own line, is earlier still. This is the claim of `repository.py:11-14`
where it holds; finding (1) is where it does not.

`NotificationDelivery_proofs` proves, for every number of events, workers,
dispatchers and reapers and any `MAX_RETRIES` above zero (`DeliveryAssumption`; the
workers are finitely many), without a bound on the messages: `RecordsAlwaysAgree`
and `PromiseImplemented`, the refinement of `NotificationPromise`. Neither property
is inductive. The invariant `IInv` (`DeliverySound`) adds, per row, that fewer than
`MAX_RETRIES` failures have been counted while a try is under way (`RowsSound`); per
worker, that the status it has read is the row's as long as the version is
(`WorkersSound`: every write of the row moves the version except the projector's,
which finds no job there); per batch, that every event of the log before one of its own
is noted, is in the batch too, or was promoted late, and the same of the checkpoint
(`BatchesSound`, why an overlapping run that moves the checkpoint back drops
nothing that was not late when it came); and that the calls made plus the workers about
to call are no more than the tries (`CallsSound`). `RowsMove` is the table of what a step can do to a row;
the preservation of each part and the refinement are read off it.

`BackOffice_proofs` proves the properties of `BackOffice.cfg`, part by part:
`BackOfficeTypeCorrect` (`AllTypesOK`), `GuestFilesStand`, `ErasureStands`,
`OfferAlwaysStands`, `AccountsAlwaysStand`, `QuotesAlwaysAddUp` and
`ScreenStaysCurrent`; those of notifications are in `NotificationDelivery_proofs`.
`BackOfficeAssumption` says that the bounds are naturals, that a threshold is above
zero, that the founder is a user and the owner a role, that day 0 opens a month, and
that `Nothing` is none of the records and ids it stands beside. Nothing bounds the
number of callers, contacts, purposes, threads, tenants, browsers or days; stays must
be finitely many, because they are counted. A step of one part leaves the others
alone (`EachPartSteps`), so each part has an invariant of its own:

- guests, `GuestsSound`: a contact is on one live row (`LiveDistinct`), an erased row has
  none, an answer under way is a row with the contact asked for (`ResolveKnows`), and
  the row a merge or an erasure has read is the row there is while the version stands
  (`SaverKnows`). Without the last, `ErasureIsFinal` is not inductive: a save writes
  back the contact it read.
- consents, `ConsentsSound`: a call that nobody overlapped is later than every row of
  its purpose (`AloneKnows`), and a row that is not committed is its own call's.
- policies, `PolicySound`: an id that was given to a draft never becomes a version's
  (`Spent`, `RowsIssued`); a publication past the lock is alone with its draft, and while drafts
  have not overlapped its number is the next one (`CallKnows`).
- the calendar, `CalendarSound`: a task drops only months behind the day of the last
  task that created its own (`ClerkKnows`), and the horizon of that day has its
  partitions; without it an older task could drop what a newer one has made.
- tenants, `TenantSound`: what a thread may rely on at each step (`ThreadKnows`: a
  transaction without a tenant has no stamp, one that serves a request has its
  user's tenant in both places, a provisioning has written the parts before the next
  and no others), and an uncommitted tenant is being provisioned.
- the team, `TeamSound`: a save writes the whole row it read and would undo an
  acceptance; while the version read stands nobody has accepted (`SaveKnows`), and a
  redemption past the lock has a pending invitation to itself (`AcceptKnows`).
- prices, `PriceSound`: overrides do not overlap, nor do those a quote has read
  (`Apart`). `SumOf` and the lemmas on it say that a sum over a finite set depends on
  its members only and adds up over disjoint sets; from them, a quote that walks through the
  nights adds up what each night says.
- the account, `AccountSound`: the row has one holder, and a removal past the lock
  leaves an owner who is secured another device (`AnotherStays`).
- the stores, `StoresSound`: a call's token is its guard's exactly while it is the latest
  (`TokenTells`), and the latest shows (`Shows`).
- the browser, `BrowserSound`: a login under way names a person.

Only model-checked: liveness under fairness (`OverdueHoldSettles`, `TransactionsEnd`,
`RequestsEnd`, `NoneStuck`), which with ENABLED is beyond the proof system, and the
violations, which are counterexamples.

## 5. Plan

The modules of section 2 are written and checked, and their safety is proved. What
would add most next:

1. the opening of the horizon and the out-of-service adjustments in
   `ReservationLocks`, which `ReservationLifecycle` has as single steps;
2. two projectors at once (section 3), should the relay and the projector get a
   schedule;
3. what a late partition task does to stays behind it, should the task get one.

## 6. Not modelled

- Creation and change of rooms, room types, buildings and properties (single rows, no
  protocol), the change of a tenant's settings and flags; the append-only
  `RoomStateEvent`, `AllocationRecord` and audit rows, which are written with the change
  they record and read by no operation; guest preferences and identity documents.
- `release_sold()`, `lock_account()` and `deactivate_account()`: no caller outside tests.
- Idempotency: a key used with another payload, and an `IntegrityError` of the guarded
  mutation that is taken for one of the key (`idempotency.py:73`).
- A row the relay has dead-lettered can still be logged by another relay that had read
  it as pending (`outbox.py:112`): `PublishedIffLogged` is stated to allow it.
- Policies: `docs/database-design-specification.md:557` has a unique constraint that
  `policies/models.py:84-103` does not; `VersionsStand` (in `OfferStands`) therefore excludes histories
  with two drafts at once.
- Guests: two merges of the same profiles in opposite directions can both pass
  (`guests/services.py:287`); `AnswersConverge` (in `GuestsStand`) speaks of live profiles only,
  and excepts two profiles that have one contact each of an identity (section 3).
- Team: two owners who leave at once (`accounts/services.py:271`); the guard is a
  stand-in by its own comment. An invitation accepted by a user who is already a member changes no
  role, so an accepted invitation need not stand behind a membership.
- Row-level security and query scoping beyond `TenantProvisioning` (the parts other
  than it are about one tenant); permissions other than the owner's; the throttles of
  the sign-in views; the rounding and conversion of currencies.
- Frontend: screens and forms; the guests' `select()`, the paging wrappers and the
  dashboard's scalar counts, which only set a signal; `clearCurrent()`, which also takes
  the guard's token (`reservation.store.ts:152`, `booking.store.ts:113`) and would leave
  `loading` up for the call it overtakes, but is called by a test only; the housekeeping
  detail's own spinner, which a `loadOne()` overtaken by a `runAction()` leaves up
  (`ShownIsLatest` speaks of the latest call's spinner only);
  `runAction()` patching a task that a list answer overwrites; the availability search,
  which has no guard; two quick sign-ins while the tenants load.
- The 401 branch of the error interceptor (section 2).
- Search endpoints, which only read; serialisation and status codes; migrations other
  than those the map names, and deployment.
