# InfraSafe bot: a verification project

The repository is the back end of a housing-management company: residents and
staff file requests (a leak, a broken lift) from a Telegram bot, a web
application or a group chat; managers, dispatchers and an automatic manager
give them to executors; the work is reported, confirmed and accepted; other
systems (InfraSafe, a public board of work reports, cameras and barriers) are
kept informed. This directory holds TLA+ models of the parts whose correctness
depends on order, concurrency and failure, the TLC runs that check them on small
instances, and proofs, checked by TLAPS, for instances of every size.

Paths are relative to `src/uk_management_bot/` unless they start with `src/`.

## 1. Inventory

| Component | State it keeps | Operations | What is hard |
|---|---|---|---|
| Request workflow kernel, `utils/request_workflow/`, run by `services/workflow_runner.py` | the `requests` row (status, flags, executor, group, `status_version`), `request_assignments`, `ratings` | 19 commands, and target statuses of legacy clients resolved to commands | the same fact is kept twice (row, assignment); flags re-read the status; long command sequences; deduplicated announcements |
| Assignment writers outside the lock: `services/{assignment,async_assignment,shift_transfer}_service.py`, `handlers/admin/`, `api/shifts/service/`, `services/shift_assignment_service/request_engine.py` | the same rows, plus an ORM session each | assign the duty shift, transfer a shift's requests, nightly synchronisation | stale ORM copies, no `FOR UPDATE`, partial column updates |
| Webhook outbox, `services/webhook_sender.py`, `services/outbox_retention.py` | `webhook_outbox` rows with claim, lease, attempts | insert, claim, post, settle, retain | crash between phases, lease takeover, late answers, retry budget |
| Reconciliation with InfraSafe, `services/reconciliation.py` | a session-level advisory lock; repair events | compare, replay the oldest missing | a remote inventory older than the lock, lost announcements, a lock given back on another connection |
| Work-report publication, `services/work_reports/`, `api/work_reports/` | report status and selection, the recorded media locks | publish, unpublish, reject, reopen, revoke, edit, autopublish, sync, reconcile | a saga over two stores, a commit per lock, stale copies in a session, reconcile against a slow publisher |
| Media service, `src/media_service/` | file status, publication lock | archive, delete, lock, unlock, recover | two-phase sagas against the lock of a publication |
| Access control, ingestion: `src/access_control/services/{ingestion,decision_engine,presence}.py` | camera events, decisions, passes, presence sessions | decide on an event once, use a pass, count spots | repeated and reordered reports, two gates at once |
| Access control, barriers: `src/access_control/api/commands.py`, `edge/` | the command table, leases, the memory of the edge | issue, lease, acknowledge, fast path | two delivery paths, restarts, a relay that cannot be asked |
| Access control, reviews and codes: `services/{lifecycle,review_expiry,one_time_codes,hashchain}.py` | review transitions, codes, a hash chain per table | resolve, open by hand, redeem, expire | deadline against resolution, lock keys that change, lock order |
| Auto-manager and dispatch, `services/auto_manager/`, `services/dispatch.py` | cursors and a cooldown in memory | a tick over two queues, one command per request | decisions on an old read, starvation by requests nobody can do |
| Shifts and transfers, `services/shift_transfer_service.py`, `api/shifts/` | shifts, offers | create, change, end, offer, assign, accept, expire, reassign | two cores with different locks, overlap checks with no row to lock |
| Stock of materials, `services/material_service/` | lots, issues, the card | receive, issue (FIFO), reverse, adjust | overlapping issues, reversal against issue |
| Accounts and invitations, `services/{auth,invite}_service.py`, `handlers/`, `api/shifts/service/employees.py` | status, roles, active role, verification, nonces | join, form, approve, block, edit roles, verify, delete | decisions on unlocked copies, a commit in the middle of a transaction |
| Apartments of residents, `services/residents/`, `services/addresses/` | `user_apartments` | request, approve, reject, attach, detach, make main | a section with a lock beside older ways without one |
| Requests from the chat and from alerts: `handlers/group_intake.py`, `services/group_intake/`, `services/inbound_alert.py`, `services/request_number_service.py` | candidates and nonces in Redis, `webhook_inbox`, the counter of the day | recognise, prompt, confirm, decline; receive an alert; give a number | repeated and concurrent deliveries, a cache that may fail, buttons pressed twice |
| Readings of meters, `src/resource-accounting/backend/app/` | periods, readings, revisions | enter, import, correct and recalculate, move a period | no locks, copies of a session, queries that see only what is flushed |
| Notifications, realtime, metrics; feedback, comments; shift planning; handlers, keyboards, front end, migrations | their tables | record keeping, display | see section 7 |

Components interact through the database, and in one direction through the
outbox. Handlers, the API and the schedulers send *commands* to the runner; the
runner commits the request, its assignment, its rating and its outbox rows
together; outbox workers carry the rows to InfraSafe; reconciliation compares the
two sides and adds repair rows. The unlocked writers touch the runner's rows
without its lock; the auto-manager decides on a read of them and lets the command
decide again. A completed request becomes a draft report; its publication locks
files at the media service. An allowed camera event, a resolved review, a manual
opening and a redeemed code all end in a row of `barrier_commands`, which the edge
fetches or receives with the answer. `PROJECT.json` lists each component with its
status, and under `hazards` what is hard to test, each at its line.

## 2. Modules

| Module | Models | Proofs |
|---|---|---|
| `RequestWorkflow` (implements `RequestLifecycle`) | kernel and runner: one request, every command | `RequestWorkflowProofs` |
| `AssignmentWriters` | `RequestWorkflow` composed with the unlocked writers | `RequestWorkflowProofs` |
| `WebhookOutbox` | the outbox table, its workers, retention | `WebhookOutboxProofs` |
| `BarrierCommands` | the command table and the edge controllers | `AccessProofs` |
| `AccessReviews` (implements `ReviewLifecycle`) | reviews, codes, manual opening, the expiry worker | `AccessProofs` |
| `AccessIngestion` | camera events, passes, presence | `AccessProofs` |
| `MediaFiles` | file status, locks, archive and delete sagas | `OperationsProofs` |
| `ReportPublication` (on top of `MediaFiles`; implements `PublicationLifecycle`) | the life of a report and its publication | `OperationsProofs` |
| `Reconciliation` | announcements and comparison with InfraSafe | `OperationsProofs` |
| `MaterialLedger` | lots, issues, reversals of one material | `MaterialLedgerProofs` |
| `AutoManager` | the tick, the dispatch, people beside them | `OperationsProofs` |
| `Accounts` | accounts and invitations | `PeopleProofs` |
| `ResidentApartments` | the apartments of one resident | `ResidentApartmentsProofs` |
| `ShiftTransfers` | shifts and the offers to hand them over | `PeopleProofs` |
| `RequestIntake` | from a message or an alert to a numbered request | `RequestIntakeProofs` |
| `MeterReadings` | periods, readings and corrections of one meter | `OperationsProofs` |

`MCRequestWorkflow`, `MCAssignmentWriters`, `MCWriterPairs`, `MCInfraSafe`, `MCAccess`,
`MCPeople`, `MCOperations` and `MCLiveness` give the constants their values. `PeopleProofs` and `OperationsProofs` extend
`MCPeople` and `MCOperations`, whose scenarios they relate to the components; the other modules of proofs extend the
component they are about.

### RequestWorkflow and RequestLifecycle

One request is the unit: `run_command` takes its row with `SELECT ... FOR
UPDATE` and commands on different requests touch different rows. A command is
atomic: snapshot, authorisation, plan, patch, assignment, rating and outbox row
are one transaction; a refused or repeated command rolls back or writes nothing,
a stutter. The variables are the row (`req`), its active assignment (`active`,
at most one because of the partial unique index; `row` is its identity), whether a
rating exists, the `request.status_changed` rows in commit order (`outbox`) and who is
on shift. `From`, `Target` and `Capabilities` are the action table; the guards
carry their names from `guards.py`; `Commit` is the runner's apply step (version,
patch, announcement, the check that work has an executor); `AssignTo`, `AddressTo`,
`TakeFromPool` and `MoveTo` are the shapes of `_build_patch` with their domain
operations. There is one action per command; the system commands are separate
because their principals are processes with capabilities, not users. Initial
states are a new request of either acceptance mode and the two legacy encodings
that `normalize_status` still reads (a return stored as «Исполнено» with
`is_returned`, a confirmation stored as «Выполнена» with `manager_confirmed`).

Status names: NEW «Новая», IN_PROGRESS «В работе», PURCHASE «Закуп»,
CLARIFICATION «Уточнение», EXECUTED «Выполнена», COMPLETED «Исполнено»,
RETURNED «Возвращена», APPROVED «Принято», CANCELLED «Отменена».

`RequestLifecycle` is the promise to the outside: a public status, a set of edges,
and a feed in which every move is appended in the step that makes it.
`RequestWorkflow!PublicLifecycle` maps `status` to the public projection and
`feed` to the outbox; it is both checked and proved.

Abstractions: payload texts, media and audit rows; the choice of an executor by a
manager or a dispatcher (any user, as the schema asks only for an id); matching of
specialisations (a set of groups per user). Legacy resolution is an operator
checked in every state, since what it returns is then an ordinary command.

### AssignmentWriters

Adds the sessions of the writers that bypass the runner. Each is cut where it talks
to the database: load, check, plan, commit. Sessions run with autoflush off
(`database/session.py:28`) and the identity map does not refresh a loaded
object, so a guard evaluated later sees the values of the load; a commit writes only
the columns whose value the session changed. An insert that meets an active
assignment it did not cancel violates the unique index and rolls back.
`SyncCancel` is the nightly pass, whose follow-up reassignment calls a dispatcher
method that does not exist and so leaves the request as it is. `Writers` selects
which of them run, to tell apart who can break what; `MCWriterPairs` chooses at the start of
a behaviour which of the other two stands beside the transfers.

### WebhookOutbox

The three phases of `process_outbox` are separate actions (`ClaimRows`, `Post`,
`Settle`), with `Crash` possible between any two, and the lease, the back-off and
retention as actions of time. A claim draws a token no row or worker refers to,
standing for a fresh UUID; one token serves a batch because the compare-and-set
also names the row. A post has four outcomes: `ok` (200), `refused` (400/401/403),
`busy` (any other answer, a timeout or a connection error: a confirmed failure in the
code's terms, although the receiver may have taken the event), `unknown` (an
exception in the sender itself). `SKIP LOCKED` makes concurrent claims disjoint; the
model's are disjoint because they are atomic.

### BarrierCommands

`cmd` is the table; a command is pending, leased (once: nothing returns a lease) or
acknowledged, and `lease` numbers the tokens. The edge controller is external to the
server but its code is in `src/access_control/edge/`, so it is modelled step by step:
`Lease`, `Skip`, `Repeat`, `Open`, `Remember`, `SendAck` and the fast path, which receives the
same command with the answer to a camera event, up to `ReplyBound` times. `store` is
its memory, `opens` counts what the relay did. `Restart` may come at any moment, between the
relay and the record too; `lapses` counts, per command, the restarts that lost an opening not yet
recorded, or a record that was only in memory (`Lost`). Two constants select the rest: `Persistent`
(the memory outlives a restart) and `LostLease` (the answer to a poll may be lost).

### AccessReviews and ReviewLifecycle

A transaction computes the key of its advisory lock (`barrier` while the barrier is
active, else the gate, `lock_key`), waits for the lock, reads the review group, waits for the
lock of each hash chain it appends to, appends and commits; `holder` says who holds what, and waiting
keeps what is held, so lock order is part of the model. Kinds of transactions: receipt
of a disputed entry, allow, deny, opening by hand, redemption of a code, expiry by the
worker. Each table has its chain, with a lock of its own: `Appends` says which of decisions, openings
and audit a transaction writes, `Rank` in which order; `holder` has them beside the lock of the barrier,
so that two orders would meet in a deadlock, which `ReviewsEnd` would show. `late` is the deadline as the code sees it: the time is taken before the lock.
`ReviewLifecycle` promises one outcome per review, one command per allowed review, no
opening by hand while a review waits, one opening per code.

### AccessIngestion

One transaction per report: the barrier is looked up, its lock taken, the event
searched by id and by window (`Like`), then stored and decided with everything that
follows: the entry of a taxi pass (one guarded `UPDATE`), the presence session of a
resident's car against the number of spots, the command. `SwitchBarrier` changes the lock
key, `Revoke` a pass. The rules of the engine are the input `Unclear` (events that go
to review) and the passes. A disputed entry that was let in by hand a moment ago is decided so
(`Finals`); the openings by hand themselves are in `AccessReviews`.

### MediaFiles and ReportPublication

`MediaFiles` is a store with guarded updates: a saga reserves (`archiving`, `deleting`)
with one update guarded by "active and not locked" and concludes without a guard; a lock
is taken with one update guarded by "active"; `Resolve` recovers sagas past a threshold, which
a saga in `SlowSagas` may outlive.

`ReportPublication` composes it with the `work_reports` table. Sessions do not
expire objects on commit and a locking `SELECT` does not refresh an object the session
already holds, so a session has its own copy (`job.mem`) and writes the columns that
changed against it. Publishing commits the transient status, validates, locks file by
file with a commit after each, and commits the public status; any step may be the last.
Managers edit, reject, reopen, revoke and unpublish meanwhile. The reconcile pass is
modelled as its three reads of two stores and its releases and locks, one call each.
`PublicationLifecycle` is the documented life of the status.

### Reconciliation

`local` is the version of each request here, `remote` what InfraSafe knows, `queue`
the announcements on the way (they arrive in any order, or are lost: a dead letter, or
never written while webhooks are off). A run fetches the inventory, tries the advisory
lock on its connection, compares, enqueues up to `ReplayCap` repairs, commits (also when all that differs are
numbers only InfraSafe knows, which are logged: `Differs`), and unlocks
on whichever connection the pool gives it then; `Recycle` is the pool closing a
connection, with the lock it holds.

### MaterialLedger

READ COMMITTED transactions cut at their lock waits: an issue selects the lots with
something left, locks them one by one in the order of creation, and decides on what is
left of each once it has the locks. Receipts, issues, reversal of a lot, reversal of an
issue, adjustment of the stock, the unit of the card.

### AutoManager

Requests are numbered by creation. The tick reads a queue (keyset cursor, cooldown,
share of slots), then chooses an executor by load and sends one command per request, each
a step of its own; the commands of managers and executors, duty changes, the switch of
the mode, failures and restarts happen in between. The dispatch at creation is two
steps (pick, command). The actions come in groups (`Automation`, `Failures`, `Claims`,
`Managers`, `Groups`, `Closings`, `SwitchMode`); `DispatchNext` is all of them.

### Accounts, ResidentApartments, ShiftTransfers

Operations are two steps, read-and-check and write, with the locks the code takes and no
others; a commit writes only what the session changed. In `Accounts` an invitation
is used up by inserting its nonce; another session that inserts the same one waits, as
the unique index makes it. `Erase` is the hard deletion of an account: the copies other sessions have of it
no longer stand, and what they write fails; whoever comes back is a newcomer. `broken` is the history of the newcomers
who got an account and no role. `ResidentApartments` runs the section Residents (which locks
the user's row, reads the bindings again under the lock (`Reread`, the code's `populate_existing`) and calls
`_ensure_single_primary`) beside the older ways in. `AccountOps`, `Ops`
and `ShiftOps` select which operations are in use, so that a run or a theorem can say for which of
them a property holds. `ShiftTransfers` has the web core (rows and a per-executor advisory
lock) and the bot core (the row of the offer only).

### RequestIntake

A handler of the bot or of the webhook, cut at its calls to Redis and to the database. A
message goes through `Arrive` (registry and, for staff, the author's gate), `MarkSeen`,
`SendPrompt` and `StoreCandidate`; a button through `Press` (the candidate as read) and then
`PickAddress`, `Decline` or `Confirm`; `Regate` and `TakeNumber` end in a request. An alert goes
through `DeliverAlert` (the nonce), `LookUp` and `Ignore` or the same `TakeNumber` and
`CommitRequest`. The number is one upsert, so whoever takes it holds the counter's row to the end
(`CounterFree`). `Fail` is any error: each ends the handler and rolls its transaction back. The
classifier, rate limits and invitations only end a handler early, which `Fail` does too;
`Switch` stands for the administration of groups and accounts. `made` and `declined`
are history variables.

### MeterReadings

A request of the service reads, computes on its session's copies and commits; nothing is
locked in between. `drafts` holds what a session has computed; `Base` is the query of
`get_previous_accepted`, which filters by the committed rows and hands out the session's
copies, since the session does not flush by itself; `CommitDraft` writes the columns that
changed. The reading date, the anomaly rules and consumption are left out: a warning
counts as accepted, as in the code.

## 3. Runs

| Run | States | What it shows |
|---|---|---|
| `workflow` | 118 000 | all invariants of a request hold and its public life cycle is implemented |
| `dead_end` | | finding 1 |
| `writers` | 550 000 | transfers beside the workflow and the duty button, or beside the workflow and the nightly synchronisation: a request in progress keeps its executor, and its public status never moves silently |
| `writers_all` | | finding 3: the button and the synchronisation together do |
| `writers_mirror` | | finding 2 |
| `infrasafe` | 181 000 | every event settles, a lost request arrives with a later comparison |
| `access` | 951 000 | the relay opens once, and once more at most for each opening a restart lost, and is told truly; a review lives its documented life; the hash chain holds; a pass pays for what it admits; a passage is decided once |
| `people` | 527 000 | invitations, main apartment, bookings: each lock does what its check relies on |
| `newcomer_invite` | | finding 5 |
| `operations` | 1 307 000 | claim, lease and compare-and-set of the outbox are safe; locked files stay active and reports follow their life; one comparison at a time; stock balances; automation displaces nobody; a message and an alert become one request; the history of a reading ends with its value |
| `liveness` | 33 000 | crashed publications heal, reviews end, no request is starved |
| `readings_base` | | finding 4 |

`infrasafe`, `access`, `people`, `operations` and `liveness` are *sums of scenarios*. A variable `part`, chosen at the start,
says which scenario a behaviour plays; the variables of the other components keep their
initial values, so the reachable states are the sum of the scenarios' and every
property is checked in all of them. A scenario is the component's own `Next` (of `AutoManager`, some
groups of its actions) restricted by conditions on the next state (who may be busy, with what),
never another next-state relation. `MCPeople` and `MCOperations` extend the components whose invariants
they check, so that a property of the run is the very formula the theorem states. The headers of `MCInfraSafe`, `MCAccess`, `MCPeople`, `MCOperations` and `MCLiveness` list them.

Bounds, and why they are enough:

* `workflow`: three users (a manager who works shifts, an executor living next to the
  owner, the owner), two groups, 7 status changes, 3 assignment rows. Seven changes take
  a request through a whole round, its return and reopening, and a second
  confirmation, which is what the flag properties need; three rows allow address, claim,
  reassignment and re-addressing.
* writers: two users, one group, 4 changes, 3 rows; a race needs one load, one command
  and one commit of each writer, and four changes leave room for two commands around each.
* the outbox in `operations`: two events, two workers, batch 2, 2 retries, 2 faults: a takeover and a late
  answer on one row, a crash during the takeover, and the last attempt distinct from the
  one before.
* access: a decided and a manual command at two controllers, 2 repeated replies and 2
  leases; two reviews with an operator, the worker and one opening by hand, or one review with two operators and
  the worker, or two reviews, an operator at each, and one switch of the barrier; five reports of one taxi pass with two
  entries (three within a window two by two, one at another gate, one exit) and one switch;
  two cars with one spot at two gates.
* people: two users and an invitation, or one and a newcomer with two invitations, or
  one under every operation; three apartments with two sessions; two shifts, two
  executors, two offers, or one of each under every operation.
* operations: a report with two photos and one publishing session over the media service; one
  request with two processes of two connections; five transactions on a material, or four with two
  prices; two requests with managers and one failure of the tick, or with two executors who claim, or
  with requests closed and automation switched; one message with two handlers, one
  switch and three numbers; an alert and a notice, each delivered by two handlers at a time; one month
  with two sessions, two months with one. A button may be pressed twice and the message repeated, with room
  for a second prompt; three numbers leave room for a deletion between two requests.
* infrasafe and liveness: two events with one fault, two requests with one loss and webhooks switched off and on, one report, one review, four
  requests of which one can be done; temporal checking needs these to be small, and each still has the
  crash, loss or refusal the property is about.

What the passing runs leave out, because the code does not keep the property there
(section 4 lists what happens instead): `access` has an edge that
remembers over restarts (`Persistent`; the theorems hold without it); `ReviewLifecycleSpec` is checked without a switch of the
barrier in `reviews` and `race`, and with one in `switched`, whose two operators work at
different reviews; `PassageOnce` speaks of behaviours without a switch; `LockedStaysActive` assumes that no saga outlives
the threshold of its recovery (`SlowSagas = {}`), and `LifecycleSpec` of reports that a publication ends
within the 15 minutes reconcile allows (`SlowPublish = FALSE`) and is started by hand;
`AskedOnce` leaves out prompts with a choice of addresses;
`OneMain` is checked for the section with the residents' own requests by two sessions, and
for all ways one session at a time; `InvitationsKept` excepts a newcomer whose join breaks off after the
commit of the account (`broken`), which finding 5 shows; `SagaHeals` has one report, so that a release
that waits behind other reports is not in it; `BookedOnce` is checked for the web core, and for every operation
on one shift.

`CHECK_DEADLOCK FALSE` is set where a bounded scenario comes to rest: everything settles,
every report is decided. The workflow never stops (shifts change for ever), and its
runs check deadlock.

Each property has a mutant in `PROJECT.json`: a plausible bug in the code a definition
translates (a flag not reset, a budget off by one, a lock not taken, a guard
dropped) that its run detects. The mutated forms stand next to the definitions they replace.

### Fairness

* Outbox: weak fairness of claiming, posting and settling (periodic scheduler, HTTP
  timeout) and of the passing of leases and back-offs. Crashes are finitely many: a
  crash costs no attempt, so with one in every round the code promises nothing.
* Publication: each publisher progresses or dies (weak), reports age (weak), the reconcile
  pass progresses and from some time on does not die half way; a release or a lock it keeps
  trying succeeds in the end (strong), since each pass tries again.
* Reviews: deadlines pass, the worker's tick and its next overdue review are weakly fair;
  a transaction that can repeatedly get its lock gets it (strong, since advisory locks are
  granted in the order of waiting); from some time on the worker's own transactions do not abort.
* Reconciliation: the steps of a run and the end of each announcement are weakly fair; an
  idle connection is recycled in the end (strong), which `pool_recycle` does.
* Auto-manager: `WF(Tick)`, the scheduler.

## 4. Findings

The runs with an expected violation show five:

1. *Dead end* (`dead_end`). A manager may take a new request straight to purchase or
   clarification. It then has no executor, its return to work is refused with "assign an
   executor", and no action assigns one from there. It can only be completed or cancelled.
2. *The second writer does not mirror* (`writers_mirror`). `assign_to_group` and a command
   that commits between its load and its commit leave the request and its assignment in
   disagreement, which the auto-manager's queues assume cannot happen.
3. *The guard of the second writer reads a stale copy* (`writers_all`). When the nightly
   synchronisation has removed the assignment row, the duty button can take the executor from
   a request that went to work after the button's session loaded it.
4. *A rejected correction is a base* (`readings_base`). A correction that fails validation is set to
   "error" in the session, but the recalculation of later months asks the database, which still has
   "ok": the value that was refused becomes the base of the next month.
5. *The invitation of a newcomer* (`newcomer_invite`). `handlers/auth.py:120` and `handlers/base.py:171` say that
   the nonce and the role are one transaction. For somebody without an account they are two:
   `get_or_create_user_sync` commits the account, and the nonce with it (`services/auth_service.py:73`). What fails
   after that leaves the invitation used up and its role given to nobody.

The models contain further behaviours that disagree with a sentence of the code or its docs.
Each was met by checking the stated sentence as a property of the same module; the passing runs
exclude them as said above.

*Work reports.*
- `autopublish_ready_drafts` holds the report in its session, so the status check after the
  locking `SELECT` reads the old copy: it and a manager publish one report at once
  (`services/work_reports/saga.py:83-85` says the transient status prevents that), and its
  selection overwrites a later edit, leaving public photos that are not the locked ones
  (against `api/work_reports/router.py:409-418`).
- Reconcile takes a publication slower than 15 minutes back to pending without stopping it; its last
  commit then makes public what may be pending or rejected (`database/models/work_report.py:23-27`).
- Reconcile lists locks before it counts publications under way: one that commits its
  locks and its status between the reads is in neither, and loses a lock until the next
  pass (`services/work_reports/reconcile.py:104-111`).
- The PATCH handler asks for photos of both sides where selection and publication ask for
  the result alone (`api/work_reports/router.py:461-462`).

*Barriers* (under `src/access_control/`).
- A restart between the relay and the record opens the relay again, once for every such restart and for
  nothing else, which is what `RelayOnce` says (`edge/command_consumer.py:4-12` promises once).
- The fast path does not look at `expires_at` (`tests/test_security_fixes_phase4.py:11`).
- An acknowledgement is accepted however late (`api/commands.py:80`), and nothing returns a
  lost lease to pending (`src/docs/access-control/DATA_MODEL_PILOT.md:187-188`).

*Reviews and events.*
- The lock key changes when the barrier is deactivated (`services/locks.py:9-12` says it does not): two
  requests on either side hold different locks and write two outcomes, or decide twice on one passage.
- The time compared with the deadline is read before the lock is waited for: a late resolution
  succeeds (`services/lifecycle.py:13-16`).
- A report answered from the window is not stored; repeated, it may be answered from another event
  (`services/ingestion.py:8-9`).
- A taxi pass revoked after the decision still lets the car in (`services/management.py:625-626`).
- Two gates count the open sessions of an apartment at once and both give its last spot
  (`services/decision_engine.py:208-210`).

*Reconciliation.*
- As many refused entities as `REPLAY_CAP` starve every younger one (`services/reconciliation.py:144-146`).
- A lost status change of a known request is never replayed (`services/webhook_sender.py:187-190`).
- Nothing orders the announcements of one request: a batch is posted concurrently and a failed row is
  retried later (`services/webhook_sender.py:449`), so that an older status may overwrite a newer one at InfraSafe for good, as
  the comparison looks at numbers only. A property of arrival would be about InfraSafe, whose code is elsewhere.
- The unlock runs on the connection drawn after the commit; on another one it does
  nothing, and runs skip until the pool recycles the first (`services/reconciliation.py:318`).

*Stock.*
- The reversal of an issue rounds once per price, the issue once per lot: the cost may differ
  (`src/docs/MATERIALS_MODULE.md:69-70`).
- A receipt that read the old unit may commit after the unit changed (`services/material_service/catalog.py:59`).

*Shifts.*
- Double booking through the bot's reassignment (no executor lock), a change of times that locks the
  owner it read, and a paused shift resumed (no check).
- Two open offers for one shift: the web holds the row of the shift between its look and its insert, the bot
  holds nothing (`services/shift_transfer_service.py:234`), so that one offer from each core, or two presses in the bot, pass.
  The next look on the web (`api/shifts/service/web_transfers.py:215`) then finds two rows where it expects one at most.
- An accepted
  offer turned expired (`:496-497`); acceptance after the shift changed owner
  (`src/docs/tech/SHIFTS_AND_ASSIGNMENT.md:139`).

*Auto-manager* (`services/auto_manager/orchestrator.py`).
- With a limit of 1 the second queue has no slot, against the promised `max(1, limit // 4)` (`:36-37`).
- The group read with the queue may have changed by the time of the command, which asks only whether the
  request is unclaimed (`:34`); a group chosen meanwhile is overwritten (`:35-36`).

*Accounts.*
- An active role that was taken away meanwhile (`handlers/employee_management/_units.py:186`); a lost edit of
  roles in spite of the lock (`:167-168`); a manager left pending (`services/auth_service.py:37`); no role left
  (`handlers/employee_management/roles_specs.py:347`).
- Activation of an account blocked meanwhile (`api/shifts/router/employees.py:234`); a form that makes an
  approved account pending again (`handlers/auth.py:90`).

*Requests from the chat and from alerts.*
- The choice of an address reads the candidate and writes it again: pressed twice, or beside «Да» or «Нет», it
  restores a candidate that was taken, and a second «Да» makes a second request
  (`handlers/group_intake.py:823`, `services/group_intake/pending.py:109`). «Нет» answers "cancelled"
  without looking whether a concurrent «Да» has taken the candidate, or Redis has failed and kept it.
- `api/webhooks/replay.py:3` says that the ids of accepted events are recorded. So are those of refused
  ones (422, 503, a failed transaction): repeated within ten minutes they get 409 and no request.

*Readings of meters* (under `src/resource-accounting/backend/app/`), with two sessions.
- A transition that read the period before another closed it reopens it (`api/periods.py:45-50`).
- An input that fails validation is committed after the submission looked for errors (`api/periods.py:286`), and
  an input that read an open period is committed in a closed one (`services/readings.py:226`).
- An input for an earlier open month leaves the bases of later months as they were; only corrections
  recalculate. Two corrections at once, one of which confirms the value it read, leave two revisions that
  do not follow from each other.

*Apartments.*
- Approval outside the section sets the status alone and leaves two main apartments
  (`services/residents/core.py:176`); a request older than an attachment takes its place (`:399-400`); no main
  apartment when the ORM sees no change (`handlers/user_apartments.py:161-163`).
- One request decided twice (`services/addresses/core.py:562`); an apartment out of use gets a resident (`:480`).

## 5. Proofs

`PROJECT.json` lists 60 theorems; the types of the media, the comparison, intake and readings
are proved too (the last three for `OperationsTypeCorrect`). They hold for all values of the constants that satisfy the
named assumptions of the modules, and for the conditions named here.

*Request workflow.* Every invariant of the run, both action properties and the refinement. `StepShapes`: each
command is one of eleven *shapes* (canonical statuses it starts from and a commit). `CommitEffect`: what a
commit does to each field. `ControlSteps`: with a fresh confirmation every shape is an edge of the canonical graph with
legal flags; a stale flag would make a completion read as already confirmed.
`ControlKept`, `HistoryKept`, `MirrorSteps` keep the parts of `IInv`: history needs `Versioned` (no
announcement is numbered past the row), the mirror needs `RowsNumbered` (a new assignment is never one
met before). None of `StaffReportNeverAtResident`, `AnnouncementsAreAHistory` or
`HolderIsNeverRobbed` is inductive alone. `OneMeaning` holds in any state: two actions
a status may mean start from different statuses or have different priorities (`NoTie`).

*The unlocked writers.* The kernel's shapes and those of the sessions keep the types and the public status, whichever
`Writers` run. `WritersLeaveExecutor` is about the combinations without both the duty button and the
synchronisation. Without the synchronisation no active assignment row goes while its request stays open, so a
request without one has no executor a session could have loaded, and a session that found none with an executor in its
copy is about a cancelled request (`NothingLoaded`): what it then writes takes nobody's work. Without the button no
session takes an executor away on a copy; transfers give one and take none. With both, finding 3 is the counterexample.

*Outbox.* Safety for any number of events, workers and retries. The invariant relates what a
worker believes (`Truthful`) to what happened at the receiver and keeps one attempt in reserve for a
claimed row. It needs no uniqueness of tokens: the compare-and-set alone makes settlement safe, and
`SettledForGood` follows from the same shapes. `OperationsProofs` takes these theorems for the outbox of the
`deliveries` scenario through the instance `Delivery`: two instances of one module are two sets of
definitions, which `DeliverySteps` shows to agree.

*Barriers.* `RInv` ties three accounts together: an open relay belongs to the activity or the memory of the
command's own controller (`Owned`), the memory says what the relay did, or a restart has lost it
(`MemoryTrue`), and every answer, sent or about to be, says what the memory says or said (`AnswersHonest`).
`RelayOnce` is not inductive without them. No condition: the memory may outlive a restart or not, and
`lapses` counts what restarts lose.

*Reviews.* `CInv` (a transaction that is past the lock of the chain of decisions holds it and has read its end:
`Chained`) gives `ChainUnbroken`, with any switching of the barrier. `LInv` gives the refinement of `ReviewLifecycle`, whose
heart is `OneKey`/`Exclusive`: with one lock key, who has read a review holds the lock, so
nobody else can have written since (`Fresh`). Condition: `ToggleBound = 0`.

*Ingestion.* `PaidInv` counts the entries in flight; `PassageInv` (`StoredOnce`, `OneLock`, `NothingLike`) says that who
is past the look at the window holds the lock, and nothing like its event was stored since. The counting lemmas use
the library's theorems about finite sets.

*Reconciliation.* `RInv` with `Counted` and `ComparesUnderLock`: who compares holds a connection on which the lock is held,
and the lock is held on one connection, whatever was given back elsewhere.

*Publication.* `MediaInv` says that a live saga finds its file as it left it (`SagasHold`), for
`SlowSagas = {}`; from it the media's lock is safe alone and under the publication. `WInv` (`UnderWay`,
`OnePublisher`, `LeftAlone`) gives the refinement of `PublicationLifecycle`: a publisher past its first commit finds
the transient status, since nobody else leaves it within the time allowed. Condition: `Manually`
(no automatic publication, no slow one).

*Stock.* `StockInv`: a row has one holder, and what a transaction has read of a row it holds is what is there. Every
rewriting of a lot is by its holder, or by one who found it free (`Rewritten`), every other step only adds rows
(`Appended`); so what the others rely on stays (`OthersKept`). It gives `StockReadsHold`, which is why
`_decrement_batches` may write a difference, and `IssueReversedOnce`.

`BooksInv` adds the kinds of the rows and `Balanced` itself, whose four parts need each other: a reversed lot is
empty because the lot is accounted for and was untouched, hence no later issue takes of it. The sums come first: a fold
chooses its own order, so `SumStep` shows that any element may be taken first, and the rest follows (`SumAdd`, `SumUnion`,
`SumSame`, `SumSupport`). Each argues about a smallest set that fails (`MinimalSubset`), which takes the place of
an induction. The same argument over the lots from the oldest on gives `Fifo`: what `allocate_fifo` takes adds up to what was
asked for, or to all there is. Then one lemma per operation: `IssuedBooks` for whatever takes of lots, `ReversalReturns` for
a reversal, price by price (`SplitByPrice`). Results: `StockBalanced`, `StockTypeCorrect` and
`IssuesOldestFirst`, which no run checks: an issue that takes of a lot uses up the older ones it has read.

*Automatic assignment.* `NeverDisplaced` needs `Rows`: a request that is new has no executor, because giving one and
leaving "new" are one step of the kernel. Nothing is assumed of queues, cursors or choices: the command alone protects.

For the rest they matter. A batch is put in order by rank (`Ranks`: the requests of a set have all the ranks below its size,
each once), so that it is a sequence of as many requests as were selected; a round from the start excludes those ahead, hence
`BatchBounded`: no more than the slots, none twice. `LeastLoaded`: the choice is on duty, can do it, and has
the least load. With `DispatchInv` these give `DispatchTypeCorrect`, and two results no run checks.
`TickSpreadsWork`: what a tick gives is counted at once (`LoadsCounted`), so that a batch of similar requests does not go to
one executor, as the comment of `_bump_load` promises: of two on duty, whoever can do no more than the other is left with
one request more at most (`Even`, inductive because only the least loaded are served). `TickKeepsLimit`: what was given
and what is in hand fit into the slots of the queues begun so far (`Spent`), for finitely many executors.

*Intake.* `IInv` follows a message from hand to hand. The mark lets one handler through, which sends one prompt; its
candidate is then in one place: with the handler that has yet to store it, in Redis, with the handler that popped it, in a
request, or declined (`OneHand`). `Numbering`: whoever has taken a number holds the counter's row, and the number
is above all given. Failures of Redis, expirations, deletions and repeats are all in.

*Readings.* `ReadingsInv`: what a session is about to write starts from a reading that is still there (`Based`), changes values of
its own month only, and its revision goes from the value read to the value written (`Computed`). The value read need not
be current; that is what finding 4 and the two corrections of section 4 are about.

*Accounts.* `OneJoins`: one session at most joins with an invitation, since the nonce it inserts is unique; from the insert
to the commit nobody has its role, and the nonce is the session's own, or used up when the account of a newcomer was
committed with it. `KeptInv` puts it together with the types of what sessions hold (`AccountsTyping`), `GrantedOnce` and
`UsedOrBroken`: a nonce that is used up has given its role, is about to, or is that of a newcomer whose second
transaction broke off (finding 5). Deletions are in: a role that was given stays in the history `granted`.

*Shifts.* `Holdings` (no row or executor has two holders) and `Views` (what a transaction has read is so when it writes,
because the locks it holds name every row and executor its check is about) give `BookedOnce`, for
`ShiftOps \subseteq Locking`: every operation but a change of times, putting a shift on duty, and the bot's offer, acceptance and
reassignment, for which section 4 says what happens.

*Apartments.* `MainInv`: the view of a session that holds the user's row, which it read again under the lock, is the rows,
but for new requests (`Fresh`); it has one main apartment, and the bindings the session found are there
(`LockedView`, `FoundThere`). Condition: `OnlyTheLockAndRequests`.

*Scenarios.* `ScenariosArePeople` and `ScenariosAreOperations`: a behaviour of the sum of scenarios that `people` and
`operations` check is a behaviour of every component, the outbox included, so what is proved of a component holds of the scenarios. From
the types of the components follow `PeopleTypeCorrect` and `OperationsTypeCorrect`, for the very formulas
the runs check; their only assumption is the one the modules state of their constants (`ScenarioAssumption`).

Each condition is one the code keeps in a way of using it that the runs also play, and leaving it out gives a
counterexample that section 4 describes.

Every invariant and every action property of the passing runs is the subject of a theorem. Only model-checked are the
liveness properties `EverythingSettles`, `EveryRequestArrives`, `SagaHeals`, `ReviewsEnd` and `NoTail`: they rest on fairness,
hence on `ENABLED`, which the prover does not reach.

## 6. Plan

1. `LockingBooksOnce` with the bot's reassignment between executors that nobody else books.
2. A `StatusFeed` composing the announcements of `RequestWorkflow` with the delivery of `WebhookOutbox`, in place
   of the abstract queue of `Reconciliation`; with a receiver that keeps versions, the order of arrival could be stated.
3. `SagaHeals` with two reports, so that a release may wait behind another report's.

## 7. Not modelled

* *Notifications, realtime, metrics* are best effort after the commit; nothing decides on them.
* *Shift planning* writes shifts in single transactions from templates; the *choice of an executor* by the smart
  dispatcher of the bot's menus is a nondeterministic input of the workflow.
* *Handlers, keyboards, the front end, migrations*: user interface and schema; what they change they change through
  the services modelled here.
* Within modelled components: the rules, shared zones and date windows of the decision engine and the normalisation
  of plates; upload, tags, search and previews of the media service; profile data, documents, web sessions and tokens,
  and `InviteService.join_via_invite`, which only its tests call;
  shifts open at the end; the classifier and the address matching of the chat; the registry, exports and analytics of
  resource accounting.
