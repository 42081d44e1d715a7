# A TLA+ development of Scanopy's discovery core

Scanopy maps networks: *daemons* scan, a *server* schedules the scans, follows
their progress and stores what they find.  The part of the program that is
hard to get right, and the one this project is about, is what lies between:
the server's table of *discovery sessions* (in-memory maps behind seven
`RwLock`s, changed by HTTP handlers, a scheduler, interval tasks and reports),
the protocol between a server and a daemon that may be slow, repeat itself or
fall silent, the way from a host a daemon has found to a row the server has
stored, and the decision that two reports are about one host.

Paths below are relative to `src/backend/src`.

## 1. Inventory

| Component | State | Operations | What is hard | What makes it correct |
|---|---|---|---|---|
| Session table (`server/discovery/service/`) | `sessions`, `daemon_sessions`, `discovery_sessions`, `daemon_pull_cancellations`, `running_snapshots`, `session_last_updated` | `start_session`, `update_session`, `cancel_session`, `cleanup_stalled_sessions`, `try_acquire/release_network_for_snapshot`, `clear_sessions_for_daemon` | every operation takes several locks one after the other, with database and HTTP awaits between them | the six maps agree; nothing blocks a discovery or a daemon for ever; no outcome is lost |
| Work pull (`server/daemons/service/processing.rs`) | none of its own | `get_pending_work`, `get_pending_cancellation`, `start_initial_discovery_sessions` | three lock acquisitions for one decision | a session is dispatched once, one at a time per daemon |
| Daemon deletion (`server/daemons/handlers.rs`, `service/mod.rs`) | the daemon's row | guard, clear, delete | races starts in flight | nothing refers to the deleted daemon |
| Snapshots (`server/snapshots/`) | closed rows; the reservation is in the session table | `create_snapshot` | excludes scans without blocking them | no scan writes into the network it freezes |
| Scheduling and CRUD (`service/scheduling.rs`, `service/mod.rs`, `discovery_crud.rs`, `cleanup.rs`) | the row, `job_ids`, cron jobs | create, update, delete, fire, start-up | every writer writes the whole row from a copy; jobs hold clones of their discovery; the row and the job are written in separate steps | an enabled discovery has its job; the row keeps what users saved and what scans counted |
| Daemon polling, monitoring, registration (`server/daemons/service/`) | reachability, standby, versions | poll loop with backoff, status processing | two transports (ServerPoll, DaemonPoll) | an unreachable daemon recovers; standby ends |
| Daemon manager and runner (`daemon/discovery/manager.rs`, `service/`) | current session, task handle, cancellation token, terminal payload | initiate, run, report, finish, cancel | the server polls while the task runs | one session at a time; the outcome reaches the server |
| Entity buffer (`daemon/discovery/buffer.rs`) | pending and created subnets, hosts, VLANs | push, confirm, await, drain, clear | confirmations come on another connection | nothing is dropped; ids are mapped |
| Daemon runtime (`daemon/runtime/`) | status, progress | `request_work` loop, `get_progress` | retries | an error does not end the loop |
| Hosts (`server/hosts/service/`) | host and address rows, advisory locks | match, create, delete, consolidate | two daemons report one host; routers share addresses; reports and people lock different things | one row per machine; nothing reported is lost |
| Event bus (`server/shared/events/`) | subscribers, batches | publish, debounce | handlers run inside the publisher or later | once, in order, not for ever late |
| Topology, services, billing, accounts, mail, metrics, UI | rows | CRUD, pure builders | I/O, data volume | outside the scope of model checking |

Interaction: the scheduler, the users and the work pull call `start_session`.
A daemon gets work by asking for it (DaemonPoll) or by the server's poll loop
(ServerPoll); both end in `get_pending_work`.  Its reports reach
`update_session`.  A user's cancellation either removes a session that was not
dispatched or sets a flag the daemon takes.  Two interval tasks of
`bin/server.rs` run the cleanups.  `create_snapshot` reserves a network.
Nothing of the session table is stored: after a restart it is rebuilt from
what the daemons report.

`PROJECT.json` lists every component and, under `hazards`, the places where
this code can go wrong in a way a test hardly reaches.

## 2. The modules

| Module | Models |
|---|---|
| `Queues` | what the service does with a `Vec<Uuid>`: membership, `retain` |
| `DiscoverySessions` | the session table and every task that touches it |
| `DiscoveryLocks` | the locks of that table: what each method holds while it awaits the next |
| `DiscoverySchedule` | one discovery configuration: its row, its cron jobs, and everything that writes them |
| `DiscoveryWorker` | abstract: what a server and a daemon promise together about sessions |
| `DaemonRuns` | the daemon's manager and runs, both transports, the server's side of them |
| `EntityHandoff` | the daemon's entity buffer, the calls that wait for it, the server that stores and confirms |
| `EventBus`, `SessionFinalizer` | a channel of the event bus; the end of `update_session` on top of it |
| `HostDedup` | matching, creating, deleting and consolidating the hosts of a network |
| `MC...` | instances for TLC |
| `...Proofs` | the theorems of `Queues`, `DiscoverySessions`, `DiscoveryLocks`, `DiscoverySchedule`, `DaemonRuns`, `EntityHandoff`, `SessionFinalizer` (with `EventBus`) and `HostDedup` |

How they fit together: `SessionFinalizer` extends `EventBus`; `DaemonRuns`
instantiates `DiscoveryWorker` with a refinement mapping.  `DaemonRuns` takes
the table of `DiscoverySessions` as four states of a session (waiting,
starting, active, ended or forgotten) and adds the other end of the wire;
`EntityHandoff` refines what happens inside its scanning phase; `HostDedup`
is what the server does with one of the entities it hands over.  Each module
has the detail its own properties need; none hides a step of the one it
borders on that its properties could see.

### DiscoverySessions

*State.*  The six maps have the names they have in `DiscoveryService`; a
session is its phase, `None` is absence.  `session_last_updated` is `"none"`,
`"fresh"` or `"old"` (more than five minutes old).  `history` is the set of
outcomes written to historical rows, `daemons` the rows of the daemons.  A
task between two critical sections is state as well: `start` (where the
`start_session` call of an id is, including the phase it has decided),
`cancel` (the phase a `cancel_session` call has read), `poll` (what
`get_pending_work` has picked), `stalled`/`unflagged` (what the running
cleanup has collected and not yet flagged), `snapshotting`/`releasing`,
`deleting`.  `report` is what a daemon last said of a session; `withdrawn` and
`unsaved` are ghosts.

A historical row is written by `update_session` and by the third pass of the
cleanup.  Either only logs a failure of the database and goes on to remove the
session (dispatch.rs 551, cleanup.rs 290): `SaveOutcome` and `SweepRemove` may
leave the row out for the sessions of `Unsavable`.  `unsaved` holds those whose
`update_session` met that failure.

*Actions.*  One action is what a task does without letting go of a lock:

| Code | Actions |
|---|---|
| `start_session` (dispatch.rs 96-248) | `StartCheck`, `StartFails`, `StartReserve`, `StartDecide`, `StartInsert`, `StartPush` |
| `get_pending_work` (processing.rs 755-793) | `PollActive`, `PollPick`, `PollTransition` |
| `get_pending_cancellation` | `PollCancellation` |
| `update_session` (dispatch.rs 363-644) | `UpdateIgnored`, `UpdateProgress`, `UpdateTerminal` |
| `cancel_session` (dispatch.rs 646-787) | `CancelRead`, `CancelQueued`, `CancelActive` |
| `cleanup_stalled_sessions` (cleanup.rs 78-320) | `SweepCollect`, `SweepFlag`, `SweepRemove`; `Age` is time |
| `try_acquire_…`, `release_network_for_snapshot` (sessions.rs 116-241) | `SnapshotAcquire`, `ReleaseBegin`, `ReleaseEnd` |
| delete of a daemon | `DeleteCheck`, `DeleteClear`, `DeleteRow` |
| the process ends | `Restart` |

*Why these steps are atomic.*  `update_session` holds `sessions.write` and
`session_last_updated.write` from its first line to its last, and every other
writer of the maps it touches in between needs `sessions.write` too or
commutes with it; so the call is one step.  `start_session` holds
`running_snapshots.read` from its decision to its push: `SnapshotReaders` is
the set of such calls, and the two writers of `running_snapshots` wait for it
to be empty.  The clock of a new Pending session is set just before the
session is inserted; the two are one step.  `cancel_session` takes its write
locks together.  The three passes of the cleanup are three kinds of steps,
because the second one holds no lock.

*The environment.*  A daemon may be handed work, report `Started`, then
`Scanning` any number of times, then one terminal phase (possibly again), or
stop at any point; it may answer after the server has forgotten the session.
Users start, cancel, snapshot and delete at any time.

### DiscoverySchedule

The module follows one discovery configuration.  It meets `DiscoverySessions`
at one point: `active` is whether `discovery_sessions` has an entry for it.

*State.*  `row` is the database row with the columns that are told apart: the
schedule (cron expression with time zone, and `enabled`; `None` for AdHoc), one
value for everything else a user edits, `scan_count`, and whether one-shot
fields (`integration_targets`, `force_full_scan`) are set.  `job_ids` is the
service's map at this discovery, `jobs` what the scheduler holds, `captured`
the clone in each job's closure, `removing` the spawned removals.  A request is
a task (`pc`, `kind`, `entity`, `job`), a call of `start_session` a starter
(`run`, `copy`): a job or a user.  `created`, `lost`, `saved`, `completed` and
`spent` are history.

| Code | Actions |
|---|---|
| `CrudService::create` (the API), `create_discovery` (the server) | `CreateByApi`, `CreateDiscovery` |
| `update` (mod.rs 87-200) | `EditRead`, `EditSave`, `EditWrite`, `ScheduleDisable` |
| `remove_scheduled_job` (cleanup.rs 322-359) | `Unmap`, `Drop`, `JobRemoved`, `JobRemovalFails` |
| `schedule_discovery` (scheduling.rs 54-224) | `ScheduleAdd`, `ScheduleFails`, `ScheduleTimesOut`, `ScheduleMap` |
| `start_scheduler` (scheduling.rs 6-51) | `BootClear`, `BootLoad`, `BootStart` |
| the job's closure (scheduling.rs 90-195) | `RunCheck`, `RunReload`, `RunStamp` |
| `start_session`, as far as it writes the row | `ManualRead`, `StartCheck`, `StartWrite`, `StartInsert`, `StartFails` |
| the end of a session | `FinishComplete` (`finalize_successful_scan`), `FinishOther` |
| delete | `DeleteCheck`, `DeleteRow` |
| the process ends | `Restart` |

`Save` is the UPDATE of the storage layer: it writes every column, and nothing
if the row is gone.  The scheduler is a library; what is assumed of it is that
a job it added is held until it is removed, that each addition has a new id,
and that additions and removals may fail or outlast their five seconds.  A job
does not fire again while its previous firing is still starting.  The entry of
`discovery_sessions` goes in the same step as the row is finalized: between the
two, starts and deletes are refused, which changes nothing.

### DiscoveryLocks

A method of `DiscoveryService` is a *program*: the sequence of the sets of
guards it holds.  Methods that branch are sets of programs.  A task calls a
program, queues for the next guard (`Await`), gets it (`Grant`), drops guards
and returns; `Grantable` is tokio's fair `RwLock`, in which a reader behind a
waiting writer waits.  The programs are read off the source line by line;
between two of their entries there is any amount of time.  The locks are all
that is modelled: what the methods do under them is `DiscoverySessions`.

### DaemonRuns

*State.*  On the server: the state of each session, the recorded outcomes,
the cancellation flag, cancellations on their way, the stalled session the
cleanup is about to end.  Between them: the round the poll loop (ServerPoll)
or the daemon's `request_work` loop (DaemonPoll) is in, with what it carries.
On the daemon: the manager's task, every task that is still alive (a *slot*),
its position and outcome, who has the manager's cancellation token (`holder`,
`None` while no task has it yet), the cancelled tokens, `current_session` and
`terminal_payload`.  `racing` is a ghost: the cancellations that had passed
their check when the manager's token was made.

| Code | Actions |
|---|---|
| `get_pending_work`, `update_session`, `cancel_session`, `cleanup_stalled_sessions`, as the daemon sees them | `PickWork`, `UpdateSession`, `CancelSession`, `SetFlag`, `StallBegin`, `StallEnd` |
| `poll_daemon` (polling.rs 122-450) | `PollStatus`, `PollServe`, `PollLost`, `PollReceive`, `PollWork`, `InitiateServe`, `InitiateLost` |
| `request_work` (runtime/service.rs 133-234) and `receive_work_request` | `RequestWork`, `AnswerWork`, `AnswerLost`, `FollowOrders` |
| `initiate_session`, `start_new_session` (manager.rs 45-155, 213-226), await by await | `NewToken` (in `InitiateServe` and `FollowOrders`), `ClearTask`, `Spawn`, `SetCurrentTask` |
| `/cancel` (manager.rs 229-250) | `CancelCheck`, `CancelSignal`, `CancelLost` |
| a run (`runner.rs`, `ops.rs`) | `RunAborts`, `RunSetupFails`, `RunStarts`, `RunReports`, `RunFinishes`, `RunPosts`, `RunStores`, `RunExits` |
| the daemon's process ends | `DaemonRestart` |

`DiscoveryWorker` says what this is for: the daemon works on one session at a
time, and what the server records of a session was decided by the daemon for
that session, or is the server's own verdict that it failed.  The mapping takes
`busy` to the session of the task that is alive and `known` to `recorded`.

`PollLost` is a GET /api/poll whose request never arrives (the payload stays on
the daemon) or whose response is lost (the payload is gone); in both cases the
round goes on to hand out work (polling.rs 404-413).  Between `NewToken` and
`Spawn` no task has the token, and `Running` says what the handle of the last
task says; a `/cancel` that checked before cancels the token of the next.

Two facts met on the way that matter to a reader of the code: the guard in
`spawn_discovery` calls `clear_completed_task` from inside the task, whose
handle is therefore never finished, so that it does nothing (manager.rs 194);
and `state.rs` 194 says that a terminal payload persists until the next session
starts, while `get_discovery_poll` clears it after serving it (handlers.rs 215).

### EntityHandoff

A *call* is one `create_host`, `create_subnet` or early host report, and stands
for the children its request carries.  The buffer has a state and a set of
children per entity.  In ServerPoll a round of the loop reads pending hosts and
subnets (`PollHosts`, `PollSubnets`), stores what it can (`ProcessEntities`,
any subset may be refused), and confirms (`ConfirmSubnets`, `ConfirmHosts`); a
confirmation whose answer is lost is sent again and may arrive late
(`ConfirmGivenUp`, `ConfirmLate`).  In DaemonPoll a call posts for itself
(`PostArrives`, `PostFails`, `PostReturns`).  The session ends in five steps
(`EndScan`, `ReadScannedSubnets`, `ReadScannedHosts`, `ClearHosts`,
`ClearSubnets`), between which early reports, in tasks of their own, go on.
Assumed of the calls: a subnet id is made for the call that uses it, and the
scan of a host that was reported early waits for the report (scan.rs).

### EventBus, SessionFinalizer

A publisher goes through the subscribers in order (`BeginPublish`, `Offer`); a
subscriber with a debounce window gets its events later, drained (`Tick`) and
then handled (`HandleBatch`) by a task of its own; a handler may fail, which is
logged.  `SessionFinalizer` is the tail of `update_session` for Complete:
publish the phase, write the historical row, publish it, delete the parent of a
rescan.

### HostDedup

A host is its row and its address rows.  A *report* is one
`create_with_children` call: `Match` (takes the network's HostDedup lock),
`CreateUnlocked`, `StoreAddress` (once per address), `Release`; it may fail at
any point (`ReportFails`, which leaves what was written) and a daemon's report
is sent again under the same ids (`Retry`).  A *user* deletes or consolidates
under the locks of single hosts, one row at a time.  Any call of such a request
may fail, or the wait for its locks may time out (`RequestFails`); there is no
transaction, so what has been moved stays moved and the other host stays, and
the person may ask again.  `SelectMatchingHost` is
the two-pass match, by address, id and MAC, with loopback and virtual MACs.
A row that is met twice in one report is written back as it was read last, as
`update_many` would leave it.  A consolidation decides whether an address
conflicts from both lists as it read them (`destRows`, `otherRows`), whatever
it has moved since.  `touched`, `overtaken` and `removed` are history: which
devices' reports made a host, which addresses a report and a request handled
at once, what a person deleted; `halfway` holds the addresses of the two hosts
of a consolidation that failed after it had begun to move.

## 3. The runs

| Run | Instance | Shows |
|---|---|---|
| `sessions_stall` | 2 sessions, one may stall, be cancelled and have its row refused, the daemon may be deleted, 1 restart | `TypeOK`; no discovery stays blocked (`GuardNotLeaked`); a promoted session has a clock (`StallClockTicks`); the queue mentions every session, once (`QueueCoversSessions`, `NoDuplicateInQueue`); an outcome that was reported is recorded, unless its own row was refused or a cancellation withdrew the session (`OutcomeRecorded`); no deadlock check, because once the only daemon is gone nothing is left to happen |
| `sessions_snapshot` | 2 sessions of one discovery, snapshots, 1 restart, fairness | start and snapshot see each other (`StartSeesSnapshot`), no wake-up is lost (`AwaitingIsCovered`); `LostDispatchRecovered`, `AwaitingIsReleased` |
| `locks` | 2 tasks, every method that keeps the order, fairness | `OrderKept`, `NoStuckLocks`, `EveryCallReturns` |
| `claim_lock_order` | the same with all methods | violation of `DocumentedLockOrder` |
| `schedule_edits` | 1 request at a time, 2 jobs, 2 times, failures, 1 restart, fairness | `EnabledHasJob`, `ScheduleRestored` |
| `schedule_races` | 2 requests, 2 jobs, failures, 1 restart | `TypeOK`, `MappedJobIsLive` |
| `schedule_runs` | 1 request, 1 job that fires, 1 manual start, delete | `DeletedStaysDeleted` |
| `daemon_runs` | 2 sessions, both modes, 1 fault | `OneRunAtATime`, `PayloadKept`, `NewRunNotCancelled`, `ImplementsWorker` |
| `daemon_ends` | 1 session, both modes, 2 faults, fairness | `HandedOutEnds` |
| `handoff` | 2 hosts, 1 subnet, 5 calls in 2 sessions, both modes, 1 fault, fairness | `ConfirmedIsStored`, `ReturnedIsStored`, `ScannedIsExact`, `WaitingIsAnswered` |
| `finalizer` | 3 subscribers (1 debounced), 2 publishers, 2 failing handlers, fairness | `DeliveredOnce`, `PublisherOrder`, `SubscribersBeforeDelete`, `PendingIsHandled` |
| `dedup` | 5 reports of 2 routers and their shared address, 1 user, 1 fault (of a report or of a request) | `OneHostPerAddress`, `PeersApart`, `OneFloatingHost`, `ReportedIsKept`, `ConsolidationKeeps` |

`schedule_edits` is deliberately sequential and without firing jobs: with
either, `EnabledHasJob` fails for the reason given below under `FieldsKept` (a
stale copy is written over the row).  What it establishes is that the sequence
of steps of one request, its error paths and recovery after a crash are right.
The schedule runs do not check for deadlock: a deleted discovery is the end.
Nor do `handoff`, `finalizer` and `dedup`, whose calls, publications and
reports run out.

*Bounds.*  Two sessions are one running and one queued or racing.  One daemon
suffices for the maps: tasks for different daemons share only the locks and the
reservation of the network.  `MaxReleasing = 1` allows a second snapshot of the
network while the first release is between its sections; `MaxRestarts = 1` is
enough for a report to meet an empty table.  `Unsavable` has one session, so
that a refused row meets one that is written.  For the schedule, two requests
are enough for one to hold a job id the other has replaced, two jobs are the
old and the new one; ids that nobody holds are used again, so the bound limits
the jobs that exist at once (a third addition fails).  `MaxScans = 1` lets a
scan complete between two firings.

Two tasks close a cycle of two locks; any number of tasks is what
`MethodsNeverStuck` is about.
`MaxFaults` bounds lost messages, refusals and restarts: one loses any single
message or repeats any single request, the second one in `daemon_ends` also
loses the retry.  Two slots let a new task meet an old one that is still
storing its outcome.  In `handoff` one host is pushed twice in a session and
once in the next one, so that a late confirmation can meet each of them.  In
`finalizer` two failures are one in a batch and one outside it.  In `dedup` the
first router is reported twice under different ids, with two addresses on one
card, and the floating address twice: enough for a twin, a trunk and a host per
scan; one fault leaves a half-written host behind for the retry, or a half-done
consolidation, after which the person may ask once more for the same.
Symmetry is over jobs and requests (`schedule_races`) and, with the ids they
carry, over the two reports of the first router and the two of the floating
address (`dedup`), neither of which checks liveness.

*Fairness* (`Fairness`) is what the server does by itself: the cleanup's
interval task keeps running, time passes, and a started call runs on.  Nothing
is assumed of daemons or users.  In `DiscoverySchedule` a request that was
begun goes on, and start-up reaches `start_scheduler`: strongly fair, because
in the model it shares the request slots, which in the server it does not.
`DiscoveryLocks`: a task that can take its next step takes it; tokio runs ready
tasks.  `DaemonRuns`: the loops of both sides and every spawned task go on, and
the interval task of the cleanup ends a session nobody works on; a scan ends
(it is bounded by timeouts), though nothing says how.  Nothing is assumed of
users and of the network beyond the bound on faults.  `EntityHandoff`: the poll
loop goes on and a waiting call looks again; a call need not time out and a
session need not end.  `SessionFinalizer`: debounce tasks tick for ever.

### Statements that do not hold

`claim_lock_order` checks what a comment of the code says and the code does not
do: *"Lock order: running_snapshots → sessions → daemon_sessions"*
(dispatch.rs 182, also sessions.rs 127).  `get_sessions_for_daemon` and
`has_active_session_for_daemon` take `daemon_sessions` first; against
`update_session`, which takes `sessions` first, both wait for ever.  The other
methods keep the order, and `MethodsKeepOrder` and `MethodsNeverStuck` show
that none of them can.

The modules also define statements that no run checks.  TLC refutes each on
the instances above; they are kept because they are what comments of the code
say, and they explain why the properties are no stronger:

* `OneSessionPerDiscovery` (mod.rs 43): the check of `discovery_sessions` and
  the insertion are separate, so two calls start one discovery twice.
* `QueuedIsBehindAnother` (types/base.rs 41): a session is decided Queued
  behind one that leaves before it is pushed; nothing promotes it afterwards,
  and Queued sessions are exempt from the cleanup.
* `IgnoredWasProcessed` (dispatch.rs 383): a cancellation that acts on a phase
  it read earlier removes a session that has been dispatched; its report is
  then taken for a repetition.  Nor is the outcome of a session recorded whose
  row the database refused: the session is gone all the same, and its tombstone
  makes `update_session` ignore the report when it is repeated (dispatch.rs 551).
* `EnabledHasJob` for rows created through the API (`Via = {"api"}`): nothing
  schedules them until a restart or the next edit of the schedule
  (impl/types.rs 279).  The same happens to an ad-hoc discovery that is edited
  to have a schedule (`Inputs <- NoonOrNever`).
* `FieldsKept`, `ScanCountExact`, `TargetsConsumed` (scheduling.rs 174): a job
  starts its sessions from the clone it captured, and `start_session` writes
  that clone over the row.
* `SnapshotBlocksDispatch` (promotions do not look at `running_snapshots`),
  `CancellationSparesUpcoming` (a flag set after its session has ended stays
  for the next one), `DispatchedOnce` (a session can be handed out again),
  `JobsTracked` (`start_scheduler` clears mappings of jobs that requests have
  already added).
* `CancelledWasAsked` (dispatch.rs 471): a daemon does not look at the session
  a cancellation names, so a late one cancels the run it meets.  One that has
  found a task running (manager.rs 234) and signals (241) after the next session
  has its new token (222) cancels a run that has not started; this is what
  `NewRunNotCancelled` exempts (`racing`).
* `ReturnedChildrenStored` (buffer.rs 205): in ServerPoll a second
  `create_host` for a host merges its children into the pending entry, and the
  confirmation of what was polled before the merge answers it and drops them.
* `WarningsRecorded` (hosts/subscriber.rs 40): the resolver runs on the
  Complete event, which is published before the historical row is written; its
  warnings find no row.
* That a merge is not interleaved (consolidate.rs 246): reports do not take the
  locks of single hosts.  A report that overlaps a consolidation or a deletion
  of its host can bring the host back, put an address on two hosts, stop the
  merge half-way on a unique index, or, by writing back the rows it read
  (create.rs 807), undo a move so that the deletion takes the address along.
  `HostDedup` keeps such addresses in `overtaken` and exempts them (`Torn`).
* `OneHostPerAddress` and `ReportedIsKept` without their exemption `Halved`
  (consolidate.rs 333).  A consolidation that fails after its first move leaves
  a trunk with one address on each host.  The next report of both goes to the
  older host and stores the other address there a second time.  And a second
  consolidation finds one address with that MAC on either side, takes them for
  the same, and deletes one with its host.

## 4. What is proved

`DiscoverySessionsProofs` proves, for any number of sessions, discoveries,
daemons and networks, every safety invariant of its passing runs:
`TypeCorrect`, `GuardReleased`, `SessionsQueued`, `QueuesWithoutRepetition`,
`WakeUpOwed`, `StartAndSnapshotExclude`, `ClockSet`, `OutcomesKept`.

Assumptions: `ConstantsAssumption` (each discovery has a daemon, each daemon a
network, the inputs are drawn from the ids) and `NoneAssumption` (absence is
not an id or a phase).

The argument is one inductive invariant, `IInv`, and one lemma per action.
None of the properties is inductive alone.  What has to be added:

* `Unborn`: nothing knows an id before it is minted.
* `PushedFirst`: a daemon knows an id only after `start_session` pushed it, so
  an update cannot push it first and make the second push a repetition.
* `GhostIsUnknown`: a session cancelled between its insertion and its push
  leaves its id behind in the queue.  That id is harmless only because it can
  never be handed out, so no report can revive it; this is what makes
  `NoDuplicateInQueue` true of `update_session`, which pushes without looking.
* `OwnQueue`: an id is only in its own daemon's queue, so a removal from that
  queue is a removal from all, and deleting a daemon touches nobody else.
* `StartWaits`: what a start decided about the reservation stays true while it
  holds the lock.
* `TombstoneIsRecorded`: an entry of `session_last_updated` without a session
  stands for a session that is recorded, withdrawn or was refused its row.  This is what entitles
  `update_session` to ignore a repeated report.

`QueuesProofs` rests the removals on `Retain`, the order-preserving filter:
its members are those not dropped (`RetainMembers`), it keeps ids distinct
(`RetainInjective`), by way of the n-th smallest element of a finite set of
positions (`NthExists`).  TLC also evaluates `IInv` on the instances.

`DiscoveryScheduleProofs` proves, for any number of requests, jobs, users,
schedules and restarts, `ScheduleTypeCorrect`, `MappingIsLive` and
`DeletedForGood`, from `ScheduleAssumption` (absence is not a value, jobs are
not users).  `MappedJobIsLive` needs `JobsExclusive`: a job that was added and
not yet mapped is known to the task that added it alone, so no concurrent
`remove_scheduled_job` can be removing it when it is mapped.  `TasksReady` says
that a task about to write or to remove holds what it writes or removes.
`DeletedForGood` needs no invariant: it is a fact about every step.

`EnabledKeepsJob` states `EnabledHasJob` for any jobs, schedules, failures and
restarts under the two conditions that the run has as well: `EditsAlone` (one
request at a time, no session started meanwhile) and `AlwaysTimed` (rows made
by `create_discovery`, never without a schedule).  Each is needed; section 3
names the statements that fail without them.  The invariant, `Scheduling`,
follows the order of `update`: before the mapping is touched the job fits the
row; from the write of the row on, the task holds the schedule it wrote; the
job it added captured that schedule.  A removal that ends late meets neither
the mapped job nor the one to be mapped, by `JobsExclusive`.

`DiscoveryLocksProofs` is about any tasks and any programs: if every task keeps
the order no set of locks is stuck (`OrderPreventsDeadlock`).  The invariant
says where a waiting task is queued, that the guards of a lock are those of its
holders and that these are compatible; the theorem takes from a stuck set a lock that no task can wait for
while it holds another of the set: an inner lock is awaited under
`sessions.write`, whose holder is unique.  That the methods keep the order is
proved of their programs: `Leads(p, a, b)` says that a piece of a method goes
from the guards `a` to the guards `b` in allowed steps, one lemma composes
pieces, one per method puts it together.  With that, `MethodsKeepOrder` and
`MethodsNeverStuck` hold of any number of tasks that run the methods of
`OrderedPrograms`, all but the two of `claim_lock_order`.

`DaemonRunsProofs` proves `TypeCorrect`, `RunsExclude`, `FreshToken` and
`Implementation`, for any number of sessions, slots and faults.  `IInv` adds
`Single` (only the manager's current task is alive, and nothing is alive while
a DaemonPoll daemon waits for the answer to a request in which it said it was
ready: this is all that keeps `initiate_session`, which checks nothing, from
starting a second run), `Tokens` (no token outlives its task), `Fresh` (a token
that no task has yet is cancelled only if some cancellation is in `racing`) and
`Reporting` (what a task, a payload or a response is about to say was decided
for that session).  While a session is initiated nothing is alive, so that a
`/cancel` that checks then finds nothing; that is why only those that checked
before can reach the token (`FreshToken`).  The refinement is one lemma per
action.

`PayloadNotLost` is the action property `PayloadKept`.  `initialize_session`
clears the payload without looking, so it holds because of what the server
knows.  The invariant `Payload` has three parts: `Rounds` (a session is handed
over only in a round that found the daemon ready, and nothing runs then but
the task it started), `Settled` (while a session is current a task works on it
and no payload is kept) and `Owed` (as long as the daemon owes the payload of a
session the server waits for, no other is under way to it or about to start).
A poll request that never arrives leaves the payload where it is and the session
live on the server, and a live session keeps `get_pending_work` from handing out
another one; only the cleanup, which ends the session, lets the payload go.

`EntityHandoffProofs` proves `TypeCorrect`, `ConfirmedStored`, `ReturnedStored`
and `ScannedExact` for any entities, calls and sessions that meet
`CallsAssumption`.  `IInv` adds `Messages` (every confirmation or answer that
is on its way speaks of stored entities; this is what makes late ones
harmless), `CallModes`, `Lifetimes` (only early reports outlive the scan),
`EarlyFirst`, `Buffer` (the buffer holds entities of this session's calls, all
of them until it is emptied) and `Reading`/`Named` (what `get_scanned_ids` has
read and has still to read).

`SessionFinalizerProofs` proves, for any publishers, subscribers, filters,
programs and failures, `TypeCorrect`, `DeliveryExactlyOnce`, `DeliveryInOrder`
and `DeleteAfterSubscribers`, from `SubscribersAssumption` (the list names each
subscriber once), `ProgramAssumption` (a publisher's events are a list) and
`FinalizerAssumption`.  Each subscriber has one *line*: what it handled, what
its task is handling, what waits.  Every step takes from the middle of the line
or adds at its end; `Offered` grows by exactly the event that is added, so
that the line stays without repetition and each publisher's events stay in
order.  `Direct` (a subscriber without debouncing never has anything waiting)
and `Publishing` are what the deletion of the parent rests on.

`HostDedupProofs` is about any hosts, reports, devices, users and faults, from
`ReportsAssumption` (a report names each address once, and carries a host id).
The types need nothing more (`TypeCorrect`).  `Sound` collects what every other
proof needs: one report at a time works (`Serial`), a request holds the locks
of its hosts (`Guarded`), a row is on a host that is there and that knows the
device that brought it, and has its id alone (`Tables`), and what a report or
a request has read is still there, or its address is in `overtaken`
(`Fresh`).  The last is the heart of it: it is where the two kinds of locks
meet.  On top of it:

| Theorem | Of the network | Invariant |
|---|---|---|
| `FloatingHostOnce` (`OneFloatingHost`) | `FloatingAlone`: a virtual IP reports its address and nothing else | `Single`, `Pending`: a report that is on its way goes to the host that has the address, or to one that other devices have touched |
| `RoutersStayApart` (`PeersApart`) | `DevicesApart`: ids, own addresses and their MACs belong to one device; `OneRequest` | `Peers`: a host, the host an id was made for, the host a report goes on with and the two hosts of a request are one machine |
| `AddressOnOneHost` (`OneHostPerAddress`) | `DevicesApart`, `OneOwnAddress`: one address per device besides shared ones | `OneHost` (`OneHostPerAddress` without the exemption for consolidations that failed, proved as well), `Directed`: a report goes on with the host that has the address |
| `DeviceOnOneHost` | `DevicesApart`, `SameOwnAddresses`: the reports of a device agree on its addresses | `Undisturbed`: the same for all addresses of a device, until somebody asks to delete or to consolidate |
| `ConsolidationKeepsAddresses` (`ConsolidationKeeps`) | nothing | `DestFresh`: what was read of the kept host is still there; `Relocated`: a row of the host to be removed will still be looked at, or the kept host has its address, or the only one on its card |

The instance of `dedup` meets `FloatingAlone`, `DevicesApart`, `OneRequest` and
`SameOwnAddresses` (TLC evaluates them, `NetworkAssumption`); it
goes beyond `OneOwnAddress`, because its first router is a trunk with two
addresses on one card.  `ConsolidationKeepsAddresses` asks nothing of the
network: it is about trunks, shared MACs and virtual addresses too.  The
conditions of the others are not there for the sake of the proof.  Without them the
statements are false of the code:

* `PeersApart` with two requests: two people consolidate two routers into the
  host of their shared address at once, each having looked before the other.
* `OneHostPerAddress` when the reports of a device bring different addresses:
  {a}, then {b}, then {a, b} leaves a on one host and b on another, and the
  third report goes to the older and stores b there again.
* `ReportedIsKept`, of which no theorem speaks, for networks larger than the
  instance: a report of two addresses comes between two
  tries of another that has one of them among several of one MAC; the
  addresses of one device are then on two hosts, and a consolidation takes two
  addresses with one MAC for the same one.

Only model-checked, and why:

* liveness, because fairness and `ENABLED` are outside the prover's reach:
  `LostDispatchRecovered`, `AwaitingIsReleased`, `EveryCallReturns`,
  `ScheduleRestored`, `HandedOutEnds`, `WaitingIsAnswered`, `PendingIsHandled`;
* `OneHostPerAddress` for devices with several addresses that are deleted and
  consolidated while they are reported, and `ReportedIsKept`: true on the
  instance, false in general (above).  What a consolidation itself does not
  lose is proved (`ConsolidationKeepsAddresses`);
* the refuted statements.

## 5. What is left out

* Rescans of a single host and `sweep_orphaned_rescans`, apart from the
  deletion of the parent in `SessionFinalizer`.
* Validation of requests, tags, and `DiscoveryService::delete_discovery`, which
  nothing calls (deletes take the generic path, which leaves the job).
* Failures of single database statements in `DiscoverySchedule`.
* The contents of historical rows, progress, logging, throttling of reports.
* A handler future dropped half-way by its client: a task either runs on or
  ends with the process.
* Daemons that send no `discovery_id` with their reports.
* The row of a daemon: reachability, standby, versions and capabilities are
  read, changed and written back by status processing, polling and monitoring
  (processing.rs 13-75, polling.rs 79-112, monitoring.rs 13-73), with the last
  writer winning; no decision of the modelled parts depends on them except
  whether a cancellation is posted, which is left open.
* In `EntityHandoff`: VLAN ids and a restart of the daemon (the buffer is then
  empty and its calls are gone).
* In `HostDedup`: ports, services, bindings and interfaces, whose merge follows
  the same pattern; host limits; more than one network.
* Network probing, SNMP, container and controller integrations, service
  patterns, topology layout, accounts, billing, mail, metrics, the web
  interface: I/O, pure conversions of large data, or CRUD over the generic
  storage layer, without shared state between tasks.  They are by far the
  larger part of the code.

## 6. Plan

Done: `DiscoverySessions`, `DiscoverySchedule`, `DiscoveryLocks`, `DaemonRuns`
with its abstract specification, `EntityHandoff`, `EventBus` and
`SessionFinalizer`, `HostDedup`; the theorems of section 4.

1. What is left of `HostDedup` between its theorems and its run: conditions
   under which a device with several addresses stays on one host although
   people consolidate.
2. The refuted statements with the weakest condition under which each holds
   (`OneSessionPerDiscovery` for one start at a time, `FieldsKept` without
   firing jobs), as theorems.
3. Standby, reachability and registration of daemons.
