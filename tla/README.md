# SpeedNum: a verification project in TLA+

SpeedNum (the code calls itself *spidnums* in places) is a practice-management
platform for accounting firms: a FastAPI backend over PostgreSQL
(`src/backend/app`), a Next.js frontend (`src/frontend`), and an Electron app for
the platform's operator (`src/desktop`) that keeps encrypted copies of the
platform's disaster-recovery snapshots.

This directory models the parts of it whose correctness depends on the order of
things: the life of a **video call** on the server and on the pages around it, the
path of a **backup** from a building worker to the operator's disk and to its
deletion on the server, **signing in** and staying signed in, **task timers**, the
**reminder** sweeps, and the **deadline calendar** with its generation.

- [The system](#the-system)
- [Modules and code](#modules-and-code)
- [Runs](#runs)
- [Where code and documents disagree](#where-code-and-documents-disagree)
- [Proofs](#proofs)
- [Not modelled](#not-modelled)
- [Plan](#plan)

## The system

Every backend request runs in one SQLAlchemy session: `db.get_session` commits
when the handler returns and rolls back when it raises. Transactions are READ
COMMITTED. Hardly any row is read `FOR UPDATE`, no table has a version column,
and several uvicorn workers (`WEB_CONCURRENCY`) serve requests, so what a handler
decides on may be stale when it writes. Timers run inside the API process: the
reminder sweep and the backup tick, each behind a Postgres advisory lock.

| Component | State | Operations | Interacts with | Hard because |
|---|---|---|---|---|
| Video calls, server (`routers/calls.py`, `permissions.py`) | `call_sessions.status`, `call_participants.status`, `call_invitations` | create, list/get (lazy expiry), token, accept, decline, cancel, end, invite, remove, chat | clients poll; LiveKit receives a token | several people act on one call at once; counts over rows others are writing; expiry only when somebody looks |
| Video calls, clients (`components/calls`, `lib/livekit`) | incoming and active call, dismissed ids | poll, answer, dismiss, leave | calls server, LiveKit | windows close without a request; polls race actions |
| Backup server (`services/backup_*`, `routers/admin_backups.py`, `admin_devices.py`) | `backup_snapshots`, `backup_devices`, `backup_snapshot_devices`, objects in the backups bucket | tick, build, fail, demote, retain, register, revoke, confirm, restore drill | object store, pg_dump, desktop | lock lifetime, two stores without a common commit, death anywhere, overlapping retentions |
| Desktop sync (`desktop/src/sync.js`, `sync-state.js`, `main.js`) | state file, `<id>/`, `<id>.partial/` | one `runSync`: load, note, pick, manifest, stage, download, replace, confirm, save; setting the interval | backup server | runs overlap, the app dies, answers are lost, directories go file by file, two writers of one state file, the server prunes meanwhile |
| Sessions (`services/local_auth.py`, `lib/auth-client.ts`, `lib/session*`, `app/api/auth/*`) | `auth_refresh_tokens`; three cookies per browser; the access token in a tab's memory | hydrate, refresh (rotate, detect reuse), sign in and out, enter and leave a firm, change a password, poll | every API call | tabs share cookies that an answer changes; rotation is a read and a write; answers get lost; markers outlive a session |
| Task timers (`routers/task_timers.py`, `components/tasks`, `lib/timer.ts`) | `task_timers`; the widget of each tab | start, stop, switch, poll, stop on unload and at idle sign-out | workflows (reassignment, deletion), timesheet (the Owner edits hours), sessions | one running timer per person, enforced by an index; a read and a later write of a total; requests fired while a page goes away |
| Reminders and their scheduler (`services/reminders.py`, `services/scheduler.py`, `routers/reminders.py`) | `reminders` with a dedupe key; the sweep's transaction | collect, persist, mail, commit; done, dismiss, reopen, delete | deadlines, e-mail, plan expiry | all firms in one transaction, mails before the commit, sweeps with and without the lock |
| Deadlines (`services/deadlines.py`, `routers/deadlines.py`, `routers/services.py`) | `deadlines`, `client_services` | plan, generate; assign, update and remove a service; file, snooze, move, dismiss, delete | year ends of clients, frequencies and rules of services, reminders | calendar arithmetic at its edges; windows that slide; read, plan and insert beside others |
| Plan requests, plan expiry, seats | `plan_change_requests`, tenant settings | request, cancel, approve, reject, expiry sweep, seat checks | billing, imports | status read then written, count then insert, JSON read-modify-write |
| Engagement letters and signing | `engagement_letters`, their items | draft, edit, send, view, sign, decline, void | public links, portal | both sides act on one row |
| Workflows, timesheet | projects and tasks | create, assign, complete | timers, deadlines | row edits; timers follow a task |
| Roles, clients, team, services, custom fields, invoices, bills, finance, imports, portal, documents, messages, support, notifications, admin, releases, e-mail, audit, rate limits | their tables | CRUD and queries | | mostly single-row edits |
| Frontend, migrations, deployment scripts | | | | rendering; operator-run |

What makes the modelled parts correct:

- *Calls.* A call that has closed stays closed; it is answered at most once; it
  says "cancelled", "declined" or "missed" only when nobody answered; it closes
  when everybody has declined or left; no ring is left behind in somebody's inbox;
  it does not ring for ever; only people the calling matrix allows come together.
- *Backups.* The newest snapshots stay restorable on the server; the server
  deletes objects only of a snapshot some device confirmed; a confirmed snapshot is
  complete on the device when it is confirmed; a build that dies does not stay unfinished.
- *Sessions.* A refresh token is taken for a stolen one only for a reason one can
  name; nobody but a super-admin acts for a firm; a dead session is noticed; what a
  session leaves in a browser does not stay.
- *Timers.* A person has one clock; no time is counted twice; a widget that is wrong is
  corrected.
- *Reminders.* A sweep that commits leaves no rung of its day without its reminder; nothing
  is mailed twice; a sweep ends.
- *Deadlines.* Periods follow each other without gaps; each has one deadline and none
  is lost; filing days are business days.

`PROJECT.json` lists every component with its sources and every hazard with its
line and the properties that cover it.

## Modules and code

### Calls

| Module | Models |
|---|---|
| `CallMatrix` | `permissions.can_call` and `create_call`'s one-company check, as predicates over profile records |
| `CallLifecycle` | The abstract promise of a call: ring once, be answered at most once, close once and say how |
| `Calls` | Every request of `routers/calls.py` that changes state, each one atomic |
| `CallsTx` | The same requests as transactions: read, count, commit |
| `CallClients` | The pages of the people in the call, around the handlers of `Calls` |
| `CallsProofs` | Theorems about `CallMatrix`, `Calls`, its refinement, and `CallsTx` |
| `CallClientsProofs` | Theorems about the pages |

State: `status` is `call_sessions.status`, `answered` is `connected_at IS NOT
NULL`, `overdue` is "`started_at` is older than `CALL_RINGING_TIMEOUT_SECONDS`",
`part[p]` is p's `call_participants.status`, `pending` the people with a pending
invitation. A person who is not in the call has `part[p] = "none"`. The role column
is not a variable: `create_call` makes the creator the only initiator and nobody
ever becomes a moderator.

One model is one call. A participant's read expires all of that person's stale
calls, and for one call that is the whole effect. A request that answers with an
HTTP error is not a step, because the session rolls back, and with it the lazy
expiry the handler had already flushed: `Token` on an overdue call changes nothing,
while `Look` marks it missed. `Decline` has no status guard in the code and so
has none here: an invitee may decline a call that is already closed.

`CallsTx` gives each person one request in flight. `Decide` is the read of
everything the handler looks at together with its decision; `Commit` is the flush
and commit, an `UPDATE ... WHERE id` that overwrites whatever was committed since.
A write of a column that does not change is not sent by the ORM and is `Keep`
here. `decline_call` and `end_call` have a step in between: they flush their own
participant row, which locks it, and count the committed rows. Inviting somebody
with no row is an insert; when the person was added meanwhile, the unique constraint
of `call_participants` rejects it and the request rolls back (`InsertFails`). `MaxInFlight` bounds
the requests in flight at once to two; two are enough for every lost update.

`CallClients` extends `Calls` with one page per person: `ring` (who is shown an
incoming call), `dismissed`, `window` (the call window from "joining" over "inCall"
to "leaving" or "fatal"), `media` (the LiveKit connection), the poll and the requests
under way. A request is sent (`Sends`), served by a handler of `Calls` (`AcceptServed`,
`TokenServed`, `EndServed`, `Declined`, `StartCall`) and answered (`Accepted`,
`TokenAnswered`, `Ended`, `CallStarted`), each in a step of its own and in any order, so a
person may be joined on the server before their page knows. Faults, bounded by
`MaxFaults`, are a lost request or answer, a failed connection, a dropped room and a closed
page, whose answers nobody hears. The LiveKit server is external: nothing that happens to
the call's rows reaches the room, which is why a removed participant's media go on until
their window closes. `overtaken` is history: whose end was served before a token they asked
for.

Simplified here: a page has one request of each kind under way (`Sends`; a second click on
a button that is on screen for one answer is not modelled); `createCall` is not sent before
it is served (nothing of the page changes in between); nobody waits for the answer to
`declineCall`; `getCall`, fetched beside the token, changes no page but by failing, as the
token does; an invitation or a removal is served before the window it was sent from is
gone.

### Backups

| Module | Models |
|---|---|
| `BackupServer` | Snapshot rows and objects; workers that tick, build, fail, demote, retain and die; devices |
| `BackupSync` | Extends it by one desktop's `runSync`, await by await |
| `BackupProofs` | Theorems about `BackupServer`: types, confirmed deletions, the retention window, the last good backup |
| `BackupSyncProofs` | Theorems about `BackupSync`, for any number of runs or for one |

A worker of `BackupServer` is a scheduler loop or a request. Its steps are the
commits and object-store calls of the code:

| Step | Code |
|---|---|
| `Begin` | `_demote_stale_snapshots`, then `pg_try_advisory_xact_lock` |
| `Insert` | `run_backup` inserts its row and commits, and the lock is released |
| `Upload` | `_build_and_upload` commits "uploading", reads the latest ready row as parent, stores the dump |
| `Finish` | the remaining uploads and the "ready" update; or the exception an incremental build raises |
| `BuildFails` | pg_dump or an upload fails; the row becomes "failed" |
| `RetainRead` | `run_retention_once` reads the ready rows |
| `Consider` | one candidate, newest first: is there a confirmed copy on an active device? |
| `DeleteObjects`, `DeleteObjectsFails` | the objects go; or listing or deleting fails half-way and the candidate is skipped |
| `DeleteRow` | audit row and row deletion, which wait for another retention's uncommitted deletion; if that one commits, the foreign key of the audit row aborts this transaction |
| `RetainCommit` | the single commit at the end |
| `Die` | the process dies: transaction rolled back, lock released |

`store[s]` is what lies under the snapshot's prefix: "none", "partial" or "whole".
A snapshot is named by its sequence number. Two conversions matter and are kept:
`parent["id"]` is a UUID object, and `json.dumps` does not accept one, so an
incremental build fails; as a result no row ever has a parent, and
`_protected_ancestor_ids` never protects more than the window. That part of the
code (and what retention would do to a chain of incrementals) is thus out of
reach of the program as it stands, and of the model.

`BackupSync` has `run[y]`, one record per run of `runSync` under way, `final` and
`staging`, the encrypted components present in `<id>/` and `<id>.partial/`
(`Absent` without the directory), `saved`, the ids the state file calls completed, and
`setting`, what a call of `setSyncInterval` has loaded. A run's `state` is the state file
as it loaded it; it writes that back whole with its start time (`Note`), and again with its
snapshot at the end or in the catch block (`SaveState`, `SyncFails`). `setSyncInterval` loads
(`LoadInterval`) and writes (`SaveInterval`) the same file beside it. `RemoveFinal` takes the
final directory away a file at a time, as `fs.promises.rm` with `recursive` does, and a failure or
the app's death may leave it anywhere in between. `AckDownload` is the server's commit,
`AckAnswered` the answer. The renaming of a directory requires its target to be absent or
empty, as on the operating systems Electron runs on. `SyncFails` stands for every way an
await can throw (network, revoked device, pruned snapshot, hash mismatch, a file system that
refuses); the code treats them alike, and the write of the catch block may fail as well.

Simplified here: the staging directory is removed and made in one step (what a removal that
fails leaves of it, only the next removal meets); one call of `setSyncInterval` is under way at a
time; a write of the state file is whole or not at all. A store that is partly deleted is
taken as unreadable: a component that is still there could be fetched, and the run would
fail at the next. A device revoked between `require_active_device` and the insert of the
confirmation is modelled as not accepted; a confirmation of a revoked device never counts
anyway.

### Sessions

`Sessions` has the rows of `auth_refresh_tokens`, the cookies of each browser
(`sn_refresh`, `sn_access`, `sn_act_as`), what each tab holds in memory, and one
request of each tab to the app's own `/api/auth` routes. A request takes the cookies
as they are when it is sent; its answer sets cookies when it arrives, in any order.
On the backend a refresh reads its row ("found") and rotates it in a later step, so
two refreshes of one token interleave as the READ COMMITTED transactions of
`local_auth.refresh` do; whoever presents a token that is spent has all sessions
of its owner revoked. Answers are lost and passwords change up to `MaxFaults`
times. `taken` and `excuse` are history: that a token was taken for a stolen one,
and what had happened that can present one twice.

### Timers

| Module | Models |
|---|---|
| `Timers` | Rows, the requests of each tab as a read and a write, widgets, unload, reassignment and deletion, the Owner's edit of hours |
| `TimersProofs` | Theorems |

A tab has one request of its buttons, one poll and two unload stops under way
(`Ways`): `pagehide` and `beforeunload` both fire, and neither waits for its
answer. `Read` is what a handler reads and decides, `WriteStart` and `WriteStop` its flush
and commit, with the partial unique index that allows one running timer per person. A stop
computes its total from what it has read, with `int(total_seconds())` (`WholeSeconds`: the
elapsed units, or one less), and writes it over whatever the row has become (`Banks`); time
passes in between. `EditHours` is `update_task_hours` of `routers/timesheet.py`, which
overwrites the total of any row. `clocked` is history: the time each person's clock has run
on a task, and what the Owner granted. A start takes `started_at` before it commits; the time
until then is on the clock of its task as well, even if another timer ran meanwhile.

### Reminders

`Reminders` has deadlines and their reminders by `dedupe_key` (deadline and rung),
and sweeps. A sweep visits firms one after the other in one transaction: it plans
(`NextFirm`), inserts what no other has (`Persist`, which waits for another
transaction's uncommitted key, and may deadlock with it), mails what is new (`Mail`),
and commits at the end, or fails and is rolled back (`Undo`, `Fails`). "daily" sweeps
run once a day and once when their worker starts (`Restart`), and give up when the advisory
lock is taken; after a failure they wait for the next day. "all" and "firm" sweeps
(endpoints) run without the lock, whenever somebody asks. `mails` counts deliveries, which
no rollback takes back. People file, snooze, reopen, move and delete deadlines and settle or
delete reminders in between. `swept` are the sweepers of all firms that have had their turn
today; `complete` and `touched` are history: whether one of them began and committed today,
and which deadlines were reopened, moved or had a reminder deleted since.

Simplified here: the deadlines are there from the start; a firm's rows are inserted at once;
one worker's scheduler is in the run, so the branch that finds the lock taken is checked by
the proofs only, which hold for any sweepers.

### Deadlines

| Module | Models |
|---|---|
| `TaxCalendar` | `services/deadlines.py`: dates, holidays, periods, due dates, the plan of a window |
| `Deadlines` | The deadlines generated for one client and one service, in overlapping transactions |
| `DeadlinesProofs` | Theorems about both |

A date is the number of its day. The operators of `TaxCalendar` follow the engine
statement by statement; what Python's `datetime` does is marked external. The loop of
`next_business_day` is the first of fifteen days that it does not leave; that one of them
always is one is a lemma (`SomeBusinessDay`). In
`Deadlines`, `service` is the row of `client_services` and `rows` the bag of
`period_end`s of its deadlines. `Generate` and `Assign` are what
`generate_deadlines` reads and plans, `Commit` is its flush and commit: the index on
(assignment, period end) or the foreign key may refuse a row, which takes the whole
request back, the new assignment included. `AssignOnly` is the other route that
assigns a service, which generates nothing. Meanwhile terms change, the assignment
is updated or removed (its deadlines go with it, by the request or by the cascade),
deadlines are deleted, and days pass. `filled` is history: the days of which every
period that ended has been generated under the present terms. Edits of an assignment's
`start_date` are left out; like the other edits they would empty `filled`.

The properties are stated without the engine's arithmetic: Good Friday from a table
of full moons, holidays as conditions on a date, the ends of periods as those of
every third (sixth, twelfth) month counted from the year end's.

## Runs

`tlc -config X.cfg M` for each of:

| Run | Instance | Shows |
|---|---|---|
| `calls` | 4 people, one of each kind the matrix tells apart; the owner calls | `TypeOK`, `SomebodyHasNotDeclined`, `SettledHasNoInvitation`, `EmptiedOnlyByRemoval`, `KeepsPromise` (refinement of `CallLifecycle`), `RingingStops` |
| `calls_tx` | 3 people, 2 requests in flight | `TxTypeOK` (a stale write stays within the schema), `RingingStops` in spite of stale writes, `UnansweredIsFinal` (only a request that overlaps the closing can undo it) |
| `calls_tx_closed` | the same | violation of `ClosedStaysClosed` |
| `call_clients` | a caller and a callee with their pages, 1 fault | `ClientsTypeOK`, `JoinedHasWindow`, `RingIsShown`, `RingGoes` |
| `backup_server` | 2 workers, 3 snapshots, 1 device, keep 1 | `TypeOK`, `WindowIsWhole`, `OnlyConfirmedIsPruned`, `GoodBackupRemains`, `BuildsEnd` |
| `backup_sync` | 1 worker, 2 snapshots, 1 sync at a time beside a change of the interval, 2 components, the app may die | `SyncTypeOK`, `CompleteWhenClaimed` (a directory takes its name, is confirmed and is recorded only while complete), `RunsForgetNothing` |
| `backup_last_copy` | the same, 2 overlapping syncs, the app does not die | violation of `SomeCopyRemains` |
| `sessions` | 2 tabs of one browser, 3 tokens, 1 fault | `SessionsTypeOK`, `ReuseHasACause`, `SpentCookieIsReplaced` |
| `impersonation` | 1 tab that a super-admin and somebody of a firm use in turn, 3 tokens, 1 fault | `OnlySuperadminsAct`, `DeadSessionIsNoticed`, `StaleMarkerGoes` |
| `timers` | 2 tabs of one person, 2 tasks, a colleague to reassign to, 3 acts, 1 unit of time | `TimersTypeOK`, `OneRunningTimer`, `NoTimeIsCountedTwice`, `WidgetIsCorrected` |
| `reminders` | 2 firms with a deadline each, the daily and the super-admin's sweep, 2 days, 1 act, failure or restart | `RemindersTypeOK`, `MailedOnce`, `CrossedIsStored`, `SweepsEnd` |
| `deadlines` | 2 people, 6 sets of terms, 5 days between 2024 and 2031, at most 800 days apart, 2 assignments, 1 act | `DeadlinesTypeOK`, `OnePerPeriod`, `FilingDaysAreRight`, `PeriodsLeaveNoGap`, `NoPeriodIsLost` |

**Bounds.** The four people of `calls` are the equivalence classes of `can_call`; the last
person to decline or leave, the caller, and a newcomer are all among them. In `call_clients`
two people are enough for every crossing of ring, accept, token, end and removal and their
answers; invitations of a third are in `calls`. Three snapshots with a window of one let two
be candidates at once, let a late build become ready below newer ones, and let two
retentions work from different reads. The default window of 30 differs from 1 only in how
many ready rows lie above a candidate; the proofs do not depend on it. Two components stand
for four: what matters is that the last one is different from the first. `Keep`, `FullEvery`
are the settings of the same meaning; `MaxSnap` bounds how often a build may start, and
`Begin` neither takes the lock nor builds once it is reached.

Three refresh tokens are a sign-in and two rotations, enough for a token to be presented
after its successor was; the sessions theorems hold for any number. Three acts are a start,
a switch or a second start, and a close, a stop, an edit or a lost message. One unit of
time, which each step may see before or after it has passed, is enough for a stop that drops
it and for one that writes over a later total. A rung on the due date and one a day after
it, over two days, let a deadline cross both. The terms of `deadlines` are one of each
frequency and rule kind: quarterly from a January year end and from the middle of a month,
monthly, semi-annual from August, annual on the 28th of February, and the calendar year's
fixed 30th of April. `FirstYear` and `LastYear` bound the years whose ends of periods
`EndsOf` enumerates, and the last day of an assignment without an end; they reach beyond
every window. The days make filing dates fall on Easter, on Christmas and New Year and on
the floating Mondays; two days up to 800 apart let windows overlap, touch, or leave a gap.
Deadlock is checked except in `timers` and `deadlines`, where people stop when the acts or
days of the bound are used up.

**Fairness.** `calls`: time passes, and somebody in the call keeps polling
(`call-provider.tsx` lists ringing calls every `RING_POLL_MS` while the page is open and no
call is active). Without a poller a call does ring for ever, as `_expire_stale_ringing`'s
docstring says. `calls_tx`: the database finishes every transaction, and each person's poll
is strongly fair, because the person's other requests keep it from being continuously
possible. `call_clients`: polls are sent and answered, requests are served and their answers
arrive, a window connects. `backup_server`: a worker's build or retention takes its next
step or its process dies, two hours pass, and the daily tick comes again, strongly fair
because workers are busy in between. `backup_sync` has no liveness property, and nothing is
assumed of the desktop. `impersonation`: a request goes on, a page hydrates, the minute's
poll runs (strongly fair where requests interrupt it), and access cookies expire. `timers`:
polls are sent and requests served. `reminders`: a sweep that has begun takes its next step;
no sweep need begin, and days need not pass. `deadlines` has no liveness property: nothing
in the code makes generation happen.

## Where code and documents disagree

Two disagreements are runs that end in a counterexample; `PROJECT.json` quotes the
lines.

1. **A closed call can reopen** (`calls_tx_closed`). A token or an accept that
   read "ringing" before a cancel commits writes "accepted" over "cancelled".
   With atomic requests this cannot happen (`ClosedForGood` is a theorem), nor with
   transactions that do not overlap (`SerialRequestsKeepPromise`), and a request that
   begins after the closing cannot do it (`UnansweredStays`).
2. **Two overlapping syncs can confirm an empty directory**
   (`backup_last_copy`), after which the server may delete the only good copy.
   Nothing keeps "Sync now" and the interval timer apart.

Others were met while translating. The models follow the code in each of them, and
the properties are stated so that they do not contradict it.

*Calls.* Neither `invite_participant` nor `can_invite_to_call` looks at the call's
status, so an invitation rings in a closed call (`calls.py:587`). The last two to
leave, or to decline, count each other and the call stays open and empty, or rings
until it expires (`calls.py:547`, `:493`). On the pages: media outlive the window of a
page that goes away (`use-call.ts:213`), a window does not close when the call ends,
`call-window.tsx:27-30` says unmounting tells the backend and it does not, the
microphone shortcut uses a stale closure (`:61`), and the dismissed set is never
cleared, so somebody invited again does not ring. `leave` does not wait for a token the page
has asked for: hung up while joining, the end may be served first, and the token then marks
the person joined again after the window has gone (`call-window.tsx:53-84`; the history
variable `overtaken` excepts it from `JoinedHasWindow`). A tab that is closed sends no end.

*Backups.* The advisory lock is a transaction's, and `run_backup` commits right after
inserting its row (`backup_snapshots.py:243`): builds are not exclusive. The window
properties hold all the same and are proved for overlapping builders and
retentions. A retention that dies, or whose audit row is refused, after it has deleted objects
leaves ready rows without them, outside the window. A device may be revoked between the check
of its confirmation and the deletion. Incremental snapshots never succeed: `json.dumps` of a
UUID (`:300`).

*Desktop sync.* When the answer to a confirmation is lost, or the app dies before it is
recorded, the next run removes the confirmed directory before it publishes the new one, file
by file (`sync.js:97`); a death or an error there leaves part of a backup under its real name,
against "never a half-finished backup masquerading as complete" and "nothing here ever
overwrites an already-completed backup" (`sync.js:10-21`). The server counts that copy; the
state file does not. `setSyncInterval` loads the state file and writes it back
(`main.js:336-338`): a run that ends in between has its entry forgotten, and the snapshot is
downloaded again. `CompleteWhenClaimed` and `RunsForgetNothing` say what remains true: what
is renamed, confirmed or recorded is complete at that moment, what is recorded is complete
as long as it is, and it is not a run that forgets.

*Sessions.* `refresh`'s docstring calls a second use "evidence the token was copied"
(`local_auth.py:334-339`); two tabs of one browser that refresh at the same moment are
enough to have every session of the person revoked. Signing out leaves the `sn_act_as`
marker.

*Timers.* Closing a tab "banks whatever's elapsed instead of leaving the clock running
forever" (`timer-provider.tsx:47-50`); a start in flight when it closes leaves it running,
and idle sign-out clears the token before the unload stop needs it. Time can be lost: each
stop drops up to a second (`task_timers.py:149`), and a stop that commits late writes its
total over a larger one, over a clock that was started again, or over the Owner's figure
(`timesheet.py:246`). A start that commits late counts the time since its read on its task,
though another timer may have run meanwhile. `NoTimeIsCountedTwice` says what remains: a row
is never worth more than its clock has run and the Owner has granted. Once a task is
reassigned, its running timer can be stopped neither by the old assignee nor the new
(`task_timers.py:141`). Two first starts on one task may answer 409, which the docstring
(`:19-21`) excludes.

*Reminders.* "One bad tenant must not stop the rest" (`scheduler.py:106`): the rollback at
line 112 undoes the rows of the firms before, whose mails are sent, and expires the objects
the loop still reads, which ends the sweep for the firms after. Filing a deadline "retires
its remaining reminders" (`routers/reminders.py:5`), but `mark_filed` in `deadlines.py`
leaves them, and a sweep under way may add one. A deadline moved later gets no new reminder
for a rung it has had. "0 is always kept" (`reminders.py:47`) but `reminder_days_for` does
not add it. A deleted reminder comes back with the next sweep. "Each crossing produces
exactly one reminder" (`reminders.py:13-18`): the rungs 1 and 0 of the default ladder are a
deadline's for one day only, and when that day's sweep fails, "the next tick"
(`scheduler.py:20`, `:156`) is the next day's: after `RETRY_AFTER` the loop waits for the
hour again (`:130-137`), and that reminder is never made. `CrossedIsStored` speaks of the
days on which a sweep of all firms commits. A sweep that mails and is rolled back mails
again.

*Deadlines.* The clients' page assigns through `clients.py:525`, which generates nothing,
against `services.py:216-220` ("reflect it right away") and the product page ("the moment
services and a fiscal year-end are set"); no page calls `/deadlines/generate`, and
nothing else does. Who presses it less often than every 640 days leaves periods out for
good. `add_months` clamps downwards only: the second quarter of a calendar year starts
on March 31, so a service that ended that day still gets it, and one month after June 30
is planned for July 30. With a year end inside a month, or on February 28 of a leap
year, some days are in no quarter (the precondition of `PeriodsLeaveNoGap`). A deadline is
recognised by its period's end alone: going from quarterly to monthly takes the quarter's
last month as present, with its old due date. Assigning a service again ignores the new
frequency. Removing an assignment deletes what was filed for it as well, even with
`drop_future_deadlines=false`. A generation that overlaps makes `assign_service` fail, and
the assignment with it.

*Engagement letters* (not modelled). A letter may be edited in states "sent", "viewed" and
"declined" (`engagements.py:31`) without being sent again, and a sign request does not say
which lines the signer saw. Sending, voiding, editing and signing all read the status and
write later; each can overwrite a signature that committed in between.

## Proofs

TLC checks the instances above. TLAPS proves, for every value of the constants
allowed by their assumptions:

`CallsProofs` (assumptions: the caller is one of the profiles; `Keep`, "this column is not
written", is no value of a column).

- `TypeCorrect`, `HopeWhileRinging`, `NoStaleInvitation` and `LastLeaverCloses` are
  `Spec => []` of `TypeOK`, `SomebodyHasNotDeclined`, `SettledHasNoInvitation` and
  `EmptiedOnlyByRemoval`. The inductive invariant is their conjunction with
  `NoRowsBeforeCreate` (no participant row exists before the call does): the step
  of `end_call` needs it, and the others support one another.
- `ImplementsLifecycle`: `Spec => KeepsPromise`. Each action maps to a step of
  `CallLifecycle` or a stutter; the cases that need the invariant are those that
  write "accepted" and those that close a call.
- `ClosedForGood`: a closed call's status never changes, with atomic requests.
- `MatrixIsSymmetric`, `MatrixIsTheEdgeSet`: between active people `can_call` is
  symmetric, and it is exactly the list of pairs in the comment above it.
- `TxTypeCorrect`: `TxSpec => []TxTypeOK`, for any number of requests in flight; whatever
  a request read and decided, what it writes is a value the schema knows.
- `UnansweredStays`: `TxSpec => UnansweredIsFinal`. Inductive is `NobodyReopens`: once a call
  has closed unanswered with nothing in flight, no request under way writes a status.
- `SerialRequestsAreSound`, `SerialRequestsKeepPromise`: under `Serial` (`MaxInFlight = 1`,
  finitely many people) the transactions keep the invariants of `Calls` and implement
  `CallLifecycle`, although a request still decides on what it read some steps ago and the
  ringing timeout may fall in between. `SerialInv` says what a request under way may count
  on: what it has read is still so (`ReadFits`), and what it is about to write leaves the
  call sound (`WritesFit`). Hence what `calls_tx_closed` finds takes two requests that overlap.

`BackupProofs` (assumptions: `Keep` and `FullEvery` positive, `MaxSnap` a natural
number; any sets of workers and devices).

- `ServerTypeCorrect`: `Spec => []TypeOK`.
- `PruningIsConfirmed`: `Spec => []OnlyConfirmedIsPruned`. The property is not
  inductive: a worker about to delete objects must already have seen a
  confirmation, and a worker still building must not be building a row that became
  ready through somebody else. The inductive invariant `IInv` adds
  `BuildersApart` (no two workers build the same row), `RetentionsOnListed`
  (a retention works on rows that were ready and only ever go to "pruned") and
  `DeletesConfirmed` (a worker past `Consider` has a confirmed or pruned
  candidate). Confirmations disappear only together with the row
  (`RetainCommit`), which is why they cannot be taken away under a worker.
- `WindowStaysWhole`: `Spec => []WindowIsWhole`. A retention's candidates are
  chosen from rows that may have changed by the time they are deleted, so the
  property says too little about what is to come. Call a ready snapshot *doomed* when
  its objects are not whole or some retention has it in hand (still to consider,
  being deleted, or deleted and not committed), and a *keeper* otherwise. The
  invariant that is inductive beside `IInv` is `DoomedHaveKeepers`: every doomed
  snapshot has at least `Keep` keepers above it. `StepEffects` shows action by
  action that no step but a retention's read dooms anything or loses a keeper, so
  the counts only grow (`KeepersGrow`). A retention's read dooms what is outside the
  window; the window itself holds no doomed snapshot, because one would have `Keep`
  ready rows above it (`WindowSpared`), so the window's `Keep` rows are keepers above
  each candidate (`ReadSparesWindow`).
- `LastGoodBackupStays`: `Spec => GoodBackupRemains`. A good snapshot is a keeper or
  has one above it, and keepers stay good through every step.

`CallClientsProofs` (any people and matrix).

- `ClientsImplementCalls`: what the pages do is a step of `Calls` or none, so the theorems
  of `CallsProofs` hold with pages around it.
- `ClientsTypeCorrect` and `NobodyIsLeftBehind` (`JoinedHasWindow`). Inductive with
  `PageInv`: a request and its answer are not under way together (`OneOfAKind`), the caller is
  never rung and only the caller is joined while it rings, a page accepts before it has a
  window, and without a fault whoever is joined is attended (`JoinedAreAttended`): by a
  window that has not given up, a connection, or the answer of an accept or a token; behind a
  window that waits for its end nobody is joined once that end is served, unless it overtook
  the token.

`BackupSyncProofs` extends the invariants of `BackupProofs`.

- `SyncImplementsServer`, `SyncTypeCorrect`: for any number of overlapping runs.
- `ClaimedIsComplete` and `RunsRemember` (`CompleteWhenClaimed`, `RunsForgetNothing`): assuming
  `OneRun`, that no two runs overlap; `backup_last_copy` shows that without it they fail.
  `RunMatchesDisk` says what the directories hold at each await of a run and that a run knows
  what is recorded, `SavedIsWhole` that what is recorded is complete, and `SettingIsKnown` that
  a call of `setSyncInterval` will write back only what the file and the run know.

`SessionsProofs` (any people, browsers, tabs and tokens). `SessionsTypeCorrect`,
`OnlySuperadminsEnter`, `TakenForACause`, `ReplacementIsComing`. The invariant adds to the
types: requests carry cookies that existed (`RequestsFit`, `NamesHaveRows`); a new token
is known to the answer that brings it and to nobody else (`FreshIsAlone`); while nothing
has gone wrong a spent cookie has its successor in an answer (`SpentIsReplaced`), and at
most one request presents a given token (`OnePresents`); and every access token for a
firm is a super-admin's (`AllHonest`).

`TimersProofs` (any people, tasks and tabs). `TimersTypeCorrect`, `OneClock`, and
`TimeIsCountedOnce` (`NoTimeIsCountedTwice`). The invariant adds `Timely` (no row runs from a
later time) and `DecidedFits`: what a handler will write is of the past, and the total a stop
has computed has been clocked, whatever happens to the row before it is written.

`RemindersProofs` (any firms, ladder and sweepers, failing firms included).
`RemindersTypeCorrect`, `NobodyIsMailedTwice`, `CommittedSweepStoresAll`
(`CrossedIsStored`). The invariant adds that no two transactions hold one key (`HeldIsNew`)
and that what was mailed is stored, held by the sweep that mailed it, or excused
(`MailedIsKept`). A sweep of all firms that began today has inserted, planned or yet to
visit whatever needs a reminder and was not touched (`SweptHasAll`), so nothing is left when
it commits. `RungsTighten`: as the due date nears, the rung never becomes looser.

`DeadlinesProofs` (any people, horizons of at most 60 months, days after the first year, any
terms with a year end and a frequency that the schema's checks admit; due rules are not
restricted). It stands on a theory of the calendar that needs no induction: the first day of
a year is a formula of the year, and `YearOf`, `MonthOf` and the earliest business day are
choices of which the lemmas show that there is one and only one.

- Dates. `PartsOfDate` and `DateOfDay`: year, month and day of a date and back; `YearOfRight`,
  `YearsFollowDays`. The proof of `YearOfDay` found an error in an earlier `YearOf`, which
  looked at two years where three are needed (January 1, 1903 was in neither); no date of the
  runs comes near it.
- Plans. `PlanIsComplete`: every period of the terms whose end is in the window and that
  the assignment covers is in the plan, which is what `YearsAround` (a year on either side)
  is for. `PlanWithinWindow`, `PlanIsOfPeriods`: and nothing else is.
- `DeadlinesTypeCorrect`, `NoPeriodTwice`, from `TypeInv`: the bag of rows is a set (the index
  refuses a second row for a period), and each request holds the plan made from what it read.
- `NothingIsLost`: `Spec => []NoPeriodIsLost`. A commit fills its window only if the periods
  it skipped as present still have their rows. That needs `KnownStays`: what a generation of
  the present assignment knows is still a row or was deleted, which in turn needs
  `OwnIsKept`: an assignment is inserted or activated by one transaction at a time and is
  meanwhile what that transaction made of it, and a request that read a former assignment is
  told from one that read the present one by its id. `NothingToFill` covers the time without
  an assignment. Two filled windows are joined when no day lies between them.
- `PlansHaveNoGap`: `Spec => []PeriodsLeaveNoGap`. The latest end before a period's is that of
  the stride before it (`EndsAreSpaced`, `EndsFollow`), and the clamped month arithmetic of
  `PeriodStart` puts the start right after it whenever the year ends with a month.
- `DeadlinesFallOnBusinessDays`: `Spec => []FilingDaysAreRight`. The engine's holidays are
  the calendar's (`HolidaysAgree`): Easter is a Sunday for every year (`EasterIsSunday`), the
  first one after the tabulated full moon (`EasterAfterMoon`), floating Mondays are the days
  of a month they may be (`NthMonday`, `VictoriaIsMonday`), and the holidays of two years are
  enough for a search of fifteen days (`HolidaysOfWindow`). The table of full moons is that of
  1900 to 2199, and so the property speaks of nominal dates up to 2198; every date of the runs
  is among them.

Only model-checked: every liveness property (`RingingStops`, `RingIsShown`, `RingGoes`,
`BuildsEnd`, `DeadSessionIsNoticed`, `StaleMarkerGoes`, `WidgetIsCorrected`, `SweepsEnd`;
TLAPS does not prove liveness under fairness here). Every invariant and every action
property of a passing run is a theorem, with the assumption `OneRun` for
`CompleteWhenClaimed` and `RunsForgetNothing`.

## Not modelled

Chat of a call (appended rows nothing else reads), call events, notifications and
rate limits; the LiveKit token; audit rows; the restore-drill report, which updates
two columns nothing reads back; encryption; contents and hashes of objects; passwords,
lockout and the e-mail links of sign-in; reminders of tasks and letters, which are
collected and stored as those of deadlines are.

Engagement letters, plan requests, seats and plan expiry read a status or a count and write
on it later, in transactions that nothing orders. What one would state of them (a signed
letter stays signed, a cancelled request is not applied, the cap is not passed) is false
as the code stands, in the way `calls_tx_closed` shows for calls, and what remains true of
them repeats a guard of one handler. They are worth modelling when their writes become
conditional. `PROJECT.json` lists the hazards.

The other components marked "not_modelled" in `PROJECT.json` are CRUD, I/O and rendering
with no interleaving a property would be about.

## Plan

Done: calls (atomic, transactional, abstract, pages), backups on both sides, sessions,
timers, reminders, the deadline calendar, and the theorems above. Next, in this order:

1. Theorems about the operators several proofs keep needing, where they can be shared, and
   what the liveness properties need of safety: that a step a fairness condition names is
   possible while its property waits for it.
2. `EngagementLetters` and `PlanRequests` (with seats and expiry markers), each with an
   abstract life as `CallLifecycle` is for calls, once their writes are conditional.
