# Nexus Backup in TLA+

Nexus Backup is a local-first backup appliance: one Node process (the
*gateway*) over one SQLite database, which queues and runs transfer jobs with
rclone, hands backup runs to Windows and Linux agents written in Go, and keeps
the schedules, sources, repositories and credentials of a household.  This
directory holds TLA+ models of it, the TLC configurations that check them, and
TLAPS proofs of what matters most.

    JobLifecycle        what the job engine promises                (abstract)
      ^ implemented by
    JobEngine           packages/core over D1/SQLite, HTTP handlers, recovery
      JobEngineProofs   theorems about JobEngine
      MCJobEngine       instances: engine_leases, engine_queue
    TransferRules       rules, discovery, objects, the executor in the gateway
      TransferRulesProofs
      MCTransferRules   instances: transfers_safety, transfers_liveness
    TransferGroups      torrents: labels, holds, manifests
      TransferGroupsProofs
      MCTransferGroups  instances: groups_agent, groups_gateway
    TransferCleanup     the deletion of delivered files
      TransferCleanupProofs
      MCTransferCleanup instance: cleanup
    WorkstationRuns     runs of a workstation: server, agent, network
      WorkstationRunsProofs
      MCWorkstationRuns instances: workstations_safety, workstations_liveness
    FlatFileBackup      the files of a run: walk, upload, rename, utimes
      FlatFileBackupProofs
      MCFlatFileBackup  instance: backup_files
    Enrolment           devices, install credentials, tokens, folders
      EnrolmentProofs
      MCEnrolment       instance: enrolment
    LocalFiles          configuration and the account kept in files
      LocalFilesProofs
      MCLocalFiles      instance: local_files

Run a check with `tlc -config engine_queue.cfg MCJobEngine`, the proofs of a
component with `tlapm JobEngineProofs.tla`.  Every safety property a passing run checks is
also a theorem, for every value of the constants; section 12 says from which assumptions, and
what remains with TLC.

## 1. The system

| Component | State | Operations | Model |
| --- | --- | --- | --- |
| Job engine, `packages/core/src` + `control-plane/src/d1-job-repository.ts` | `backup_jobs`, `backup_job_events` | create, acquire, claim, heartbeat, transition, recoverExpired | JobEngine |
| Control-plane API, `control-plane/src/api.ts` | `backup_agents` | HTTP handlers, lease TTL, errors | the job handlers, in JobEngine |
| Local server, `local-server/bin/server.mjs` | - | enqueueJob, recovery timer | in JobEngine |
| Transfer rules, `lib/transfer-rules.mjs` | `transfer_rules`, `transfer_objects` | create, update, setEnabled, remove, scanNow, runDue, persistTransferDiscovery | TransferRules, without remove |
| Local executor, `lib/local-repository-transfer.mjs` | staging directory | execute, executeDiscovery, executeCleanup | TransferRules, TransferCleanup |
| Gateway schedulers, `bin/gateway.mjs` | two "running" flags | run groups, rules, cleanup; recover and queue workstation runs | in the modules of what they run |
| Transfer groups, `lib/transfer-groups.mjs` | group columns of `transfer_objects` | runDue, persistTransferGroups | TransferGroups |
| Transfer cleanup, `lib/transfer-cleanup.mjs` | cleanup columns of `transfer_objects` | runDue | TransferCleanup |
| Workstations, `lib/workstations.mjs` | policies, runs, agent status | putPolicy, runNow, runDue, queueRecovery (no route calls it), poll, progress, finish, reportStatus, recoverExpired, remove | WorkstationRuns; putPolicy and remove also in Enrolment |
| Agent, `apps/workstation-agent` (Go) | `state.json`, `workstation.json` | status, poll, execute, progress, finish, report | WorkstationRuns, FlatFileBackup, Enrolment |
| Upload of backup files, `bin/gateway.mjs`, `lib/receiver-users.mjs` | the folder of a receiver | HEAD, PUT | FlatFileBackup |
| Source scans, `lib/source-scan-store.mjs` | artifacts on disk and their rows | upload, persist, remove | WorkstationRuns |
| Managed devices, `lib/managed-devices.mjs` | devices, tokens | enrol, report, rotate, update, remove | Enrolment |
| Integration configuration, `lib/integration-config.mjs` | a JSON file | create, update, delete | LocalFiles |
| Local authentication, `lib/local-auth.mjs` | `auth.json`, setup token; sessions and grants in memory | setup, login, grant, consume | the setup, in LocalFiles |
| Receivers, `lib/receiver-users.mjs` | `receiver_users` | create, updateWorkstationRoot, remove, setEnabled, resetPassword | those of workstations, in Enrolment |
| Repository settings, `lib/repository-settings.mjs` | five files | get, update; nothing calls the service at this commit | not modelled (section 10) |
| Repositories, schedules, filters, telemetry, dashboard, export, web | rows; none | CRUD, calendars, I/O and formatting | not modelled (section 10) |

How they meet.  Everything shares one SQLite database and one Node event loop:
a statement or a `batch` is atomic, and between two `await`s another handler,
timer or scheduler run may go.  JobEngine, which is written against the
asynchronous D1 interface, is modelled with a step per statement.  The SQLite
adapter of the local server (`sqlite-d1.mjs`) answers at once, so there a
handler that awaits only the database runs in one turn: a subset of those
behaviours.  TransferRules, too, has a step per statement in runs and scans, but
takes the check and the batch of an edit as one turn, so that what it says of
edits holds for the adapter as it is.  WorkstationRuns takes turns throughout,
and lets a crash cut a turn short after any statement.

The transfer scheduler calls groups, rules and cleanup in turn, and each runs
its jobs *in place*, through the same operation keys and leases an external
agent would use.  The recovery timer of the server takes jobs back from whoever
let a lease expire.  Workstation agents poll over HTTP, hold a run under a
five-minute lease, and report progress and results that may be lost or late.

What is hard here: rows that were read before an `await` and are written after
it; leases that expire under a live owner; a crash between two statements that
belong together; scans that overlap; source files that change while they are
copied; agents whose answers are lost.  `PROJECT.json` lists each of these
hazards at its line with the properties that cover it, or says why none does.

What makes each component correct:

- *Job engine*: one live lease per job, no lost update, no lease without an
  active state, recovery only after expiry, terminal rows frozen, one job per
  operation key, one event per mutation.  (All modelled; section 2.)
- *Transfer rules and executor*: every stable file is eventually delivered or
  given up, none twice; done means committed; settled generations stay settled;
  a move deletes only what it committed; a transfer follows its rule.  (Section 3.)
- *Groups*: the files of a finished torrent go together, are copied once, and move on.
  (Section 4.)  *Cleanup*: only what was delivered and is unchanged is deleted, a
  refusal is final, what is due settles.  (Section 5.)
- *Workstation runs*: one active run per device; a run ends once, with the result
  of its holder; an interrupted restore is not retried; a due slot is run once and
  not skipped; every run of a live agent ends; status and run agree in the end.
  *Source scans*: the row never names an artifact that is not there.  (Section 6.)
- *Backup of files*: what a run skips is current, what a run completes is whole, and
  the folder converges to the source.  (Section 7.)
- *Devices*: one machine has the identity of a device and keeps it; a workstation has one
  receiver, and its policy and folder agree once nobody writes them.  (Section 8.)
- *Files*: the configuration can always be read, and a saved entry is lost only to a request that had
  read the file before it was saved; one administrator is set up.  (Section 9, which names
  the exceptions.)

## 2. The job engine

### State and actions

`jobs[j]` is the row of `backup_jobs` with the columns the engine decides on:
state, operation key, lease (agent, token, expiry; NULL together), attempt,
revision, creation time.  `events[j]` counts its rows of `backup_job_events`.
`req[w]` is a handler in progress: a request is *submitted* (the handler reads
the clock: `deps.now()` is evaluated before its first await, so `at` may be
older than `now` when it decides), *loads* its row, and later *saves* what it
computed.  `listed[s]` holds the page a recovery pass is working on.  `granted`,
`answers` and `issued` observe what callers were told.

| Code | Actions |
| --- | --- |
| `create` (job-service.ts:20) | SubmitCreate, CreateExisting, CreateMissing, CreateInsert, CreateCollides |
| `acquire`, `claim` (33, 45): one conditional UPDATE | SubmitLease, GrantLease, RefuseLease |
| `heartbeat`, `transition` (54, 66): read, check, UPDATE by revision | SubmitHeartbeat / SubmitTransition, Load, Refuse, Save, SaveConflict |
| `recoverExpired` (80), paged by api.ts:140 | SweepList, SweepSave |
| wall clock; the process is killed and started again | Tick, Restart |

Lease tokens are unique, as UUIDs are; job identifiers may collide.
An agent may use any lease it was ever granted, however stale, and ask for any
transition.  The recovery loop over pages is a repeated SweepList.  A delayed
older heartbeat may shorten a lease, as in the code.

### Properties

- `LeaseOnlyWhileActive`, `SaveIsCurrent`, `EventPerMutation`,
  `IdempotentCreate`: invariants.  `SaveIsCurrent` is the heart of it: as long
  as the revision a handler has read is the revision of the table, the row it is about to write
  was computed from the row that is there.
- `RecoveryOnlyAfterExpiry`, `OnlyHolderWrites`, `TerminalFrozen`: what no step
  may do.  The first says of the instant of expiry whose the job is: it compares the deadline with
  the clock by itself and not with the code's `isLeaseExpired`.
- `ImplementsLifecycle`: mapping `phase`, `holder`, `deadline` to the columns
  and `spent` to the granted tokens, the engine implements `JobLifecycle`,
  where every handler is one atomic step.  This is what a client may rely on.
- `LeaseEventuallyReleased`: no job stays with a silent agent for ever.

### Runs

| Run | Instance | What it shows |
| --- | --- | --- |
| engine_leases | 1 job, 2 agents, 2 tokens, 2 handlers, 1 sweeper, time 0..2 | every race of two handlers and a recovery pass on one row (484,305 states) |
| engine_queue | 2 jobs, 2 keys, 2 handlers, page of 1, one restart | racing creates, claim order, paging, restart; `IInv` is an invariant; liveness, without symmetry (389,184 states) |

Why the bounds suffice: the checks of the engine concern one row and at most
two writers of it (the third is the sweeper); two tokens give a stale holder
and a current one; two ticks let a lease of one tick expire and be granted
again.  `Horizon` and `MaxRevision` bound time and heartbeats in the guards of
the submissions, never in the handlers.  The proofs need none of these bounds
to be small.  Symmetry is used in engine_leases only: the other run has a
liveness property.  `MaxRevision = 0` leaves heartbeats out of engine_queue; the
races of heartbeats are in engine_leases.

Fairness of `FairSpec`: the clock advances, and recovery passes run to their
end, as `setInterval` and the page loop justify.  Nothing is assumed of agents or
requests.

### Proofs

`JobEngineProofs` proves, for every value of the constants (from
`NoneAssumption`, `BoundsAssumption` and `TargetAssumption`, which TLC
evaluates in the runs):

    Invariant                  Spec => []IInv
    TypeCorrect, LeaseTracksState, NoLostUpdate, HistoryComplete,
    CreateIsIdempotent         Spec => [] of the named invariant
    RecoveryIsLate, TerminalIsFinal, StaleHoldersAreHarmless
                               Spec => the action property
    EngineImplementsLifecycle  Spec => Lifecycle!LifecycleSpec

None of the invariants is inductive alone.  `IInv` adds: lease columns NULL
together (`LeaseColumns`), requests carry their parameters
(`RequestsWellFormed`), tokens about to be granted are fresh (`TokensFresh`),
what was read is never newer than the table (`SnapshotsBehind`), what a recovery
pass listed had expired (`ListedExpired`), and an operation key has one row
(`KeysUnique`).  `SaveIsCurrent` needs `SnapshotsBehind` because a write
raises the revision above every snapshot of the row: equal revisions then mean
nobody wrote.  The steps are first classified (`StepKinds`): a step leaves the
table alone, or mutates exactly one row in one of a few ways; each conjunct of
`IInv`, each action property and the refinement then follow from that
classification.  The step of the refinement is that a save under an equal
revision is the atomic `Renew`, `Advance`, `Release` or `Reclaim`, and that
submitting, loading, refusing and losing the revision race are stutters.
`LeaseEventuallyReleased` is checked with TLC only, liveness under fairness being
out of the prover's reach.

Not modelled here: bearer authentication, `backup_agents`, payloads, event
contents, and `memory-repository.ts` (a test double with the same contract).

## 3. Transfer rules and the local executor

### State and actions

One rule with a repository destination and files that belong to no torrent.
A *generation* of a file is its path, size and modification time, as in the key
of `transfer_objects`.  `src` is what the source holds, `obj[g]` the row of
generation `g`, `job[g][n]` the job with operation key
`transfer:<rule>:<object>:attempt:<n>` (its life cycle is that of JobEngine;
`waiting` is queued or interrupted, `active` is leased to finalizing), `rule`
the row of `transfer_rules`, `sched` the run of the scheduler, `scan[s]` the
discovery a caller is in, `delivered` what was ever committed, under which
version of the rule.

| Code | Actions |
| --- | --- |
| `runTransferScheduler` (gateway.mjs:84), `runDue` (transfer-rules.mjs:142) | RunStart, Reconcile, SelectReady, ScanIfDue |
| `queueReadyTransfers` (205), `execute` (local-repository-transfer.mjs:20) | StartRow, SkipRow, Copy, Commit, DeleteSource, Complete, Fail, Record |
| `queueDiscovery` (152), `executeDiscovery` (44), `persistTransferDiscovery` (308) | ScanNow, ScanList, ScanFail, ScanRead, ScanPersist, ScanLink |
| `update` (80), `setEnabled` (124) | Edit, SetEnabled |
| lease recovery, a lease lost under a live executor, a crash of the gateway | Recover, Lapse, Crash |
| the source and time | SourceWrite, SourceRemove, ScanDue, Ripen |

Abstractions: contents are the generation they belong to; a stability window
or retry wait is a flag (`ripe`) that turns true at some time, except while
the run that compares against its own start is reconciling; the order of the
rows of a run and the limits of the queries are left open; the rclone
commands of a stage are one action that may fail.  Of the structural edits the model takes one, a change of destination
(`version`).  Listings are numbered, and
`last_seen_at >= last_scan_started_at` is compared on those numbers.

### Properties

- `DoneMeansDelivered`: an object is done only if a file of its path and size
  was committed.  Size is what the executor verifies; the content may be a
  later generation's.
- `QueuedMeansSettled`: an object is queued only under a job that is over, so
  the next run settles it whatever crashed.
- `OneDelivery`: once an attempt completed, no other attempt of the generation
  is open or completes.
- `SettledStaysSettled`: scans, retries, stale rows and crashes never
  resurrect an ignored, done, failed or superseded generation.
- `IInv`: types, `OneDelivery`, and what makes these inductive (below).
- `StableFilesSettle`: a file that stays as it is ends done or failed, with "Scan now" used besides the
  scheduler, without edits and crashes.  The exception is `Overtaken`: nothing orders two listings
  (transfer-rules.mjs:134-140, 186-203), so that an older one may be persisted last, supersede
  what the younger one discovered (321-327), and leave a generation that the upsert never revives (331).
  The file is then not transferred, although it stays as it is.

### Runs

| Run | Instance | What it shows |
| --- | --- | --- |
| transfers_safety | copy and move; a file and its replacement, one manual scan at a time, 2 listings, 1 crash, 1 edit, 1 retry | the safety properties (2,037,998 states) |
| transfers_liveness | copy; one manual scan at a time, 3 listings, 1 lapse, no crash, no edit | `StableFilesSettle` (484,470 states) |

Two listings are the least that supersede a generation, or that overlap in the
other order; one crash suffices because nothing survives it but the tables; one edit
gives a run with rows of the old version; one retry gives every
attempt index of the operation keys up to one beyond the budget.  The third listing of the liveness
run lets a stale object be seen again; `Reserved = 1` keeps it for the scheduler, which in the code lists
for ever, and which would otherwise find the bound used up by "Scan now" and wait for a
listing that never comes.  Without `Overtaken` the run is violated.

Fairness of `LiveSpec`: the scheduler's timer fires and its run goes on (weak);
`next_scan_at` is reached and expired leases are swept (weak); a listing that is tried
again and again succeeds, and a wait that is interrupted by runs ends (strong:
both are disabled and enabled again by the scheduler's own steps); a handler of "Scan now" that has begun
comes to its end (weak), but nobody has to press the button.
Transfers may fail every time: the property allows `failed`.

### Proofs

`TransfersAreSafe` is `Spec => []IInv`; `DoneFilesAreDelivered`, `QueuedFilesAreSettled` and
`FilesAreDeliveredOnce` are parts of it, `SettledForGood` follows from its step.  The argument is about
the job table, since edits drop objects, and crashes drop runs, but neither drops a job:

- `FailuresComeFirst`: attempt `n` of a generation is made only when all below it have failed.
  Failed jobs stay failed, so this is true as well of rows a run read before an edit removed their
  objects.  `OneDelivery` follows: what completed has neither a predecessor nor a successor.
- `RunIsOrdered`: where the executor is says what it has done for its row, so that a job
  completes only after its commit (`CompletedIsDelivered`), and an object is recorded only after its
  job is over (`QueuedMeansSettled`).

The weaker form that looks natural, that the *objects* count their attempts, is not
inductive: an object that an edit dropped and a scan found again starts to count at zero while the
jobs of its generation are there.  The step has one lemma per action and file of the invariant; what an
action leaves alone is stated once (`TablesStay`, `RunStays`) and cited.

Five properties that the documents state and the code does not have are defined in this module
and in WorkstationRuns, and listed in section 11.

Not modelled here: jobs claimed by remote agents, removal of a rule,
`reconcileFailedScans` (it changes what the UI shows only), multiple rules (they share
no state but the scheduler's turn), the `cancelled` outcome (no local caller cancels).

## 4. Transfer groups

### State and actions

One rule with a gate and one torrent.  `obj[o]` is the row of a generation with its
state, the scan that saw it last, its `group_key` (`label`), whether `stable_since`
is in the year 9999 (`hold`), whether its window or wait is over (`ripe`), its
attempt and, while it is queued, the key of its job.  `jobs` are the operation keys and states
of `backup_jobs`, `rule` the scans its row names, `scan` the discovery under way,
`sched` the run of the scheduler.  `Remote` selects one of two wirings: jobs
for an agent, whose scan is linked when it is enqueued (runtime-telemetry.mjs), or
the executor of the gateway, which links a scan after it was persisted.

| Code | Actions |
| --- | --- |
| `discover`, `persistTransferDiscovery`, `persistTransferGroups` (transfer-groups.mjs:137) | StartScan, PersistScan, ScanFails, ScanCut |
| `runDue` of groups (13), `executeRepositoryTransfer` or `enqueueJob` | SendGroup, SendGroupFails, Record |
| `runDue` of rules, `queueReadyTransfers` (transfer-rules.mjs:205) | ReadFiles, SendFile, SendFileFails, Record |
| reconciliation (transfer-rules.mjs:254), end of a job | Reconcile, JobEnds |
| source, time, a crash of the gateway | SourceChanges, Age, Crash |

`told` remembers which files the last scan knew to be of a complete torrent, `lost` those of them
whose labels that scan never wrote because the process died first,
`upset` which objects a scan touched while a job with them was not recorded yet.

### Properties

- `IInv`: types, `CopiedOnce` and what makes it inductive: no generation is in two jobs that run or completed,
  through retries, changes of the torrent and crashes.  The exception, which the code
  has, is an object in `upset`: the members are read, the job is enqueued, a scan
  relabels, and the UPDATE asks for a label that is gone (transfer-groups.mjs:79-116).
- `TorrentsStayTogether`: the scheduler for single files never takes a file whose last scan
  found its torrent complete.  The exception is `lost`: the listing and the groups are two
  batches (runtime-telemetry.mjs:108-113), and a file that had no label yet gets none when the
  process dies between them, until the next scan.  `RestartKeepsGroups` is the property without the
  exception; it does not hold (section 11).
- `PendingMovesOn`: a pending file of the current scan is sent or settled, unless a member of
  its torrent is in the way for good.

### Runs

| Run | Instance | What it shows |
| --- | --- | --- |
| groups_agent | jobs for an agent; two paths, one with two generations, 2 scans, 1 fault (also between the two batches), 1 retry | all three properties (397,597 states) |
| groups_gateway | the executor of the gateway, no fault | violates `TorrentsStayTogether` |

Two paths are the least a torrent can be torn into; the second generation
supersedes a member; the second scan clears, sets or moves the label of the first;
one retry puts a member into `retry_wait`.  The source changes only until the last
scan was started, so that a liveness property has something to wait for.
Fairness: one weak condition, that something goes on while timers, scans, jobs or time have
something to do; faults and the source are free.

### Proofs

`GroupsAreSafe` is `Spec => []IInv`, in both wirings, and `FilesAreCopiedOnce` its part
`CopiedOnce`.  The difficulty is a job that was enqueued by a run that was lost before it recorded it:
its objects are pending and carried.  They do not get a second job because they would be sent under the
same key, which enqueueing finds again (`PendingIsSentAgain`): a single file because its attempt
is in the key, the members of a torrent because the set `Waiting` is in the key and none
can leave it (`RunIsOrdered`, `QueuedIsSent`) or join it before a scan is persisted, which puts
them into `upset`.  `NextAttempt` is the same for all who would send it
(`Largest`, by well-founded induction over the attempts).  While the per-file scheduler has rows in hand no
unrecorded group contains them, which needs the kind of the run in the invariant.

`AgentsKeepTorrentsTogether` proves `TorrentsStayTogether` from the assumption `Remote`: what a scan
knew to be of a complete torrent and was not lost carries its label (`ToldIsLabelled`), also when a later scan
was cut, which takes no label away, and the query leaves labelled
rows out.  There is no such theorem for the gateway's own wiring, and there cannot be one:

The violation: the gateway persists the listing and its groups before it links the
scan (gateway.mjs:74-78, transfer-rules.mjs:152-167).  `persistTransferGroups`
accepts a scan only if the rule names it (transfer-groups.mjs:144-149), so it throws, and the files
go one by one, against docs/transfers.md:52: "all currently pending files belonging to the same
completed torrent are queued as one `managed-transfer` manifest job".

Observations no property is about.  A *move* rule with a gate labels its rows too, and
the query for single files leaves out every labelled row (transfer-rules.mjs:218)
while the one for groups asks for `mode='copy'`: the files of a finished torrent are
picked by nobody, though docs/transfers.md says that move rules remain per-file.
The order of groups_agent, linked first and persisted then, is that of `scanNow` with `recordRuntimeEvents`
(runtime-telemetry.mjs:107) and of test/transfer-groups.test.mjs; nothing in the server calls
`recordRuntimeEvents` at this commit, so that only the order of the violation runs in production.

Not modelled here: several torrents of one rule (their rows are disjoint), files outside
a torrent, the order and limits of queries, the contents of a manifest.

## 5. Transfer cleanup

### State and actions

`dst` is what a path of the destination holds: a delivered generation, somebody else's
file, nothing.  `row[o]` is the cleanup part of the row of a transferred object:
`due` (`cleanup_after`), `wait` (`next_cleanup_retry_at`), `job` and `attempt`.  `job[o][n]`
is the job `transfer-cleanup:<rule>:<object>:attempt:<n>`, whose life cycle is JobEngine's.  `run` is the
cleanup run of the gateway with the executor in it.

| Code | Actions |
| --- | --- |
| `runDue` (transfer-cleanup.mjs:9) | StartRun (reconciliation and query), Enqueue, EnqueueFails, Acquire, Finish |
| `executeCleanup` (local-repository-transfer.mjs:178) | Enqueue, Acquire, Stat, Remove, FileError, Finish |
| a transfer ends, time, other users of the destination | Deliver, FallDue, WaitOver, Touch |
| recovery timer, a lost lease, crashes | Recover, Lapse, Crash, CrashAfterEnd |

### Properties

- `IInv`: types and `CleanedIsGone` (a row that is cleaned and the file it stands for agree),
  with the parts that make it inductive: a completed job and an executor about to say so
  have removed the file, and nothing happens to an object before it is delivered.
- `OnlyOwnRemoved`: nothing is removed but the delivered generation, except a file that
  was put there between `stat` and `rm` (`touched`).
- `RefusalIsFinal`: what was found modified is never tried again, also when the process
  died before that was recorded.
- `DueSettles`: a due row is cleaned or given up.  The exception is `Orphaned`: the process
  died between the end of the job and the UPDATE, and the next try has the operation key
  of a job that has ended.

### Run

`cleanup`: two generations of one path, a file of its own whose time has digits below a
millisecond, one retry, one change by others and one fault (148,815 states).  One change is
enough to come before the stat, between stat and rm, or after; one fault interrupts each step,
and the recovery, which is not bounded, meets whatever it left.  Fairness: timers and calls (weak).

### Proofs

`CleanupIsSafe` is `Spec => []IInv`, `CleanedFilesAreGone` its part `CleanedIsGone`.  A row that is
cleaned is gone because its job completed (`CompletedIsGone`), which the executor says only
after `rm` (`VerdictIsTrue`); and nothing brings the object back, because it is delivered once
(`DeliveredFirst`).  `RemovesOnlyItsOwn` needs in addition that between `stat` and `rm` the path holds the
object or is touched (`RunIsCurrent`), `RefusedForGood` that the attempts are made one after the
other and that a refusal or success is the last (`AttemptsInOrder`): in particular that a row
which a crash left without its job points at an attempt nobody can acquire.

Observations: a file system that keeps digits below the millisecond makes every comparison fail
(`SubMs`; such files are never cleaned); a process that dies after `rm` leaves a row that ends
as done although its file is gone.

Not modelled here: directories that become empty, the messages of a refusal.

## 6. Workstation runs

### State and actions

One device.  `db` is the tables: `db.run[r]` a row of `workstation_runs` (state,
operation, operation key, lease token, and whether the lease has run out),
`db.shown` the run its status names, `db.scan` the scan its row names, `db.policy`
the policy with the slot `next_run_at` stands for.  `artifacts` are the
scans on disk, `server` the handlers that wait for the disk, `agent` the process
(`pc`, the run and token of its goroutine, `fail` for a cancelled backup or a
failed scan), `net` the requests under way.  `seen` observes leases granted and
results sent; `used` counts what is bounded.

A handler that awaits the database only is one turn.  `RecoverSteps`,
`FinishSteps` and the like are the tables after each statement of such a turn:
`Turn` takes the last, `Dies` is a crash after any of them, which leaves its
tables, drops every connection and forgets what handlers held.  Only `finish`
of a scan and `upload` wait for the disk and so are two turns.

| Code | Actions |
| --- | --- |
| `runNow`, `queueSourceScan`, `queueRecovery` (workstations.mjs:112) | Ask |
| `putPolicy` (55); `next_run_at` is reached | PutPolicy; SlotDue |
| `recoverExpired` (438), `runDue` (124), by the gateway's timer | Scheduler |
| `poll` (319), `progress` (340), `reportStatus` (410) | Poll, Progress, Status |
| `finish` (360), `persistSourceScan` (464) | Finish, FinishScan |
| `authorizeSourceScanUpload` (206), `write` (source-scan-store.mjs:33) | Upload, WriteEnds |
| `pollOnce` (main.go:181), `reportStatus` (157) | AgentPoll, AgentPollFails, AgentStatus |
| `executeBackup` (main.go:215), `execute` (recovery_execute.go:11) | AgentProgress, AgentUpload, AgentScanFails, AgentFinish, AgentDone |
| time, network, processes | LeaseLapses, Lose, AgentRestart, Crash |

An answer is part of the step that handles its request: the agent learns of it
or does not.  A request stays in `net` when the agent gives it up, so it
may be handled late, in any order, after a restart of the agent or under a
lease that is no longer current.  The agent never sends a request twice.

Abstractions: the time of a lease is the flag `lapsed`; key 0 stands for a
key nobody else has, key `n` for the key of slot `n`; checks of the device that
have no part in the properties (it is enabled, online, capable, has sources) are
left open; the two UPDATEs of `recoverExpired` concern at most one active run
and are one statement.

Restores: the service can queue them (`queueRecovery`, workstations.mjs:221), though no route of the gateway
calls it at this commit; the model asks for them as its tests do.  The agent of this repository refuses them
with a failure that names no snapshot (recovery_execute.go:18), and the server answers that report with 400
(`WellFormed`, workstations.mjs:771-772), so that a restore that was handed out ends only when its lease lapses.

### Properties

- `OneActiveRun`: no request, slot, recovery or crash makes a second active run.
- `SlotRunsOnce`, `NoSlotSkipped`: a crash between the insertion of a run and
  the advance of the policy neither repeats nor loses the slot, nor does a busy device.
- `RestoreNeverRetried`: a restore is handed out at most once.
- `ResultIsTheHolders`: a run ends with what the holder of its current lease
  sent, or fails as a lapsed restore; results of older leases change nothing,
  and nothing changes a run that ended.
- `ShownScanIsStored`: uploads, results and removals of the previous artifact
  interleave over the disk, yet the scan that is named can be opened.
- `RunsEnd`, `DueSlotIsTaken`, `StatusSettles`: liveness with a live agent.  The
  last is about status reports that were sent while a run was executed
  and arrive after it ended.

### Runs

| Run | Instance | What it shows |
| --- | --- | --- |
| workstations_safety | 2 requested runs (scan or restore) and 1 scheduled backup, 1 edit, 1 fault | the safety properties (668,999 states) |
| workstations_liveness | 1 requested scan, 1 scheduled backup, 1 fault | the liveness properties, without symmetry (58,376 states) |

A fault is a crash of server or agent, a lost or late answer, or a lease that
lapses under a working agent; a lease lapses freely once nobody works under it.
Two requested scans are the least that replace an artifact; three runs are the
least in which one ends, one is active and one is refused.  The policy of the
safety run has no repository at first, so that `poll` meets runs it must not hand out;
that of the liveness run has one (a run that is queued without one waits for ever).  `MaxUnderWay` bounds
progress and status reports only where they are sent.

Fairness of `LiveSpec`: the timers of the gateway and the agent fire and what was
sent is handled (weak); a lease nobody renews lapses (weak); a backup or scan that
reports progress again and again ends, and the agent's loop, which alternates
between polling and reporting, comes to report (strong).

### Proofs

`RunsAreSafe` is `Spec => []IInv`; `SlotsRunOnce`, `RestoresRunOnce` and `ShownScansAreStored` are parts of
it, `ResultsAreTheHolders` and `SlotsAreTaken` follow from its step.  A turn is proved safe
through its sequence of tables: what holds of each table of the sequence (`Good`) holds of the last one, and
of the one a crash leaves, so each handler has one lemma about its statements instead of one
about its success and one about its crash.  `RestoreNeverRetried` needs `FreshRuns`: a restore that is queued has had no lease,
since recovery fails it and does not queue it again.  `ResultIsTheHolders` needs `ResultsAsSent`:
a result under way, or in a handler that waits for the disk, is one that was sent, so
that the token it is matched with is that of its sender.  `ShownScanIsStored` holds because a result
names its artifact only once that is stored, and removes only the one named before, after the tables have
moved on: a crash between leaves the old row or the new one, with both files.

Two things the model shows that no property rules out, listed under hazards: a
run that is queued while the policy has no repository is never handed
out and keeps scans from being queued until the policy is edited; and an
upload that takes longer than a lease, each time, is repeated for ever.

Not modelled here: previews, inventories and browse caches, removal of a
device, the other columns of the status, several devices (rows of
different devices share nothing but the scheduler's turn).

## 7. The files of a backup

### State and actions

`src[p]` is the version a source file has: all versions are of one size, the case
in which only the modification time tells them apart.  `remote[f][p]` is what a folder
of the repository holds: a version, parts of two (`Torn`) or nothing, and its
time.  `run` is the run of the agent with the files its walk found, `puts` the uploads the
gateway is working at, which may outlive their client.

| Code | Actions |
| --- | --- |
| `executeFlatFileBackup` (flat_file.go:37), `fileMetadata`, `uploadFileWithMtime` (client.go) | Walk, Inspect, Open, Finish |
| `/v1/device/workstation/files` (gateway.mjs:201), `resolvePath` (receiver-users.mjs) | Open, Received, Rename, SetTime, Answer |
| `updateWorkstationRoot` | Move |
| the owner of the files; failures | Write; RunFails, GatewayCrash |

### Properties

- `IInv`: types, `SkippedIsCurrent` and what makes it inductive: a file the next run would skip holds the version the
  source has, although its time is taken by the walk, its contents are read later, and its time is
  set after the rename.
- `CompletedIsWhole`: a run that completes has every file of its walk in one folder, unless the
  file changed since, or the folder did.
- `Converges`: a source that is left alone is in the folder in the end.

All three except places in `crossed`, where two uploads of one path were at work at a time:
an agent that gave up a request whose last byte has arrived starts again, and two renames
and two utimes interleave.

### Run

`backup_files`: two files of two versions, one version dated 1970 (whose time is never set), two
folders, one fault, one move (548,104 states).  Versions are numbered and bounded, so
that the source comes to rest; one fault leaves an upload without its client while the next
run is at work.  Fairness: runs are scheduled again and again, requests are answered (weak).

### Proofs

`BackupIsSafe` is `Spec => []IInv`, `SkippedFilesAreCurrent` its part `SkippedIsCurrent`.  Two facts carry it.  `TimesInOrder`: the
time of an upload is taken by the walk and its contents are read later, so an upload with the time of
the latest version has its contents.  `UploadsApart`: a place that is not in `crossed` has one upload at
a time, and holds what that renamed; it arrives late at a place that has the latest time only with the
same contents (`Arrives`).  `CompletedRunsAreWhole` needs `DoneIsThere`, that an item the
run is through with stays in place unless its source changes, and `RunIsOrdered`, that the folder of
the moment is among those the run has used.

Observations: the first error stops a run, whatever it is; a change of folder splits one backup over
two folders; two workstations may be bound to one folder.

Not modelled here: the walk itself (filters, links), sizes, free space, upload limits.

## 8. Enrolment

### State and actions

`dev[d]` is the row of a device with the number of its current token, `recv` the receivers, `policy` the
folder each policy names, `task[c]` a handler of `enroll` or `putPolicy` under way, cut
at its real awaits.  `shown` are the install commands that were shown, `file[m]` the token saved
on a machine, `pc[m]` its installer or agent.  A token is a device and a number:
nobody knows one that was not given.  `mixed` and `bereft` remember what the exceptions below are about.

| Code | Actions |
| --- | --- |
| `enroll` (gateway.mjs:428), receivers, `putPolicy` (workstations.mjs:55) | Enrol, AddReceiver, Edit, WritePolicy, WriteRoot |
| `rotateToken`, `update`, `remove`; `remove` of a receiver (receiver-users.mjs:47) | Rotate, SetEnabled, Remove, RemoveIsCut; RemoveReceiver |
| `report` (managed-devices.mjs:91) | Report, Expire |
| install.ps1; `report`, `saveConfig` of the agent (main.go) | Install, Configure, AgentReport, Answer, Profile |
| lost calls, a cut file, a crash of the server | CallFails, SaveIsCut, Crash |

### Properties

- `IInv`: types, `OneIdentity` and what makes these inductive: no two machines have a token that is accepted for one device,
  although a command may be run on both at a time and calls are lost and repeated.
- `IdentityKept`: a saved token that is accepted stops being so only by an act of the operator.
- `ShownIsWhole`: a workstation whose command was shown has one receiver, which has its name and its device
  to itself and the folder its policy names as soon as no handler is between the two.  Two exceptions, which the
  code has.  A receiver may be deleted while its device stays (`bereft`): the list of transfer users deletes those of
  workstations as well (receiver-users.mjs:47-51, gateway.mjs:390-392), and a removal of the workstation may be
  cut between its two rows; nothing brings the receiver back, and each edit of the policy is stored and then answered
  with 404.  And the folder may differ (`mixed`) after two handlers were between policy and receiver at a
  time, or one was cut there, until the next edit that is made alone.

### Run

`enrolment`: two enrolments under one name or two, two machines, one editor, two folders, three tokens, and two events
(322,886 states; names, folders, machines and devices are symmetric).  `MaxEvents` counts edits, acts of the operator (a
config written by hand is one), lost calls and crashes together, so that any two of them meet: an edit and the removal of the device or of its receiver, an
edit and a crash between its two rows, a rotation and a lost answer.  An enrolment is a handler between policy and receiver
like an edit, and the two overlap, as two edits would.  Two machines and one command are the least that share
an identity; three tokens are the credential, the token it is exchanged for and one after a
rotation.  There are no liveness properties and the operator may stop: deadlock is not checked.

### Proofs

`EnrolmentIsSafe` is `Spec => []IInv`.  Its first half is about tokens: no token is younger than its
device's current one (`TokensInOrder`), and one that is not the install credential was given in one answer to one machine
(`GivenOnce`); `MachinesHaveOneIdentity` follows because only the current token is accepted, and the first
only until the device has reported.  The second half is about the three rows of a workstation, which handlers
write one by one: an enrolment shows nothing before its receiver is there (`EnrolledOnce`), receivers
have a name and a device to themselves (`ReceiversApart`), one that was shown stays until it is deleted, once and for
all (`ReceiversKept`), and unless two wrote at a time the handler
between policy and receiver is the one that wrote the policy (`FoldersAgree`).  An edit that is made alone writes both rows,
and therefore takes its device out of `mixed`.  `ShownCommandsAreWhole` is a consequence of these,
`OnlyTheOperatorRevokes` of the step.

The invariant was not inductive at first, and the reason was in the model: when the server stops during a
removal, every other handler that is between a policy and its receiver is cut as well and leaves its pair
half written, but only the device being removed was counted as such.  `HalfWritten` names
these devices, and both steps that stop the server add them.

Observations: the answer to a bootstrap that is lost leaves a machine without an identity until the operator
acts, and `install.ps1` is in this state until it has the profile as well, since it saves its
configuration after the profile; `rotateToken` of a device that
was bootstrapped gives a token `install.ps1` cannot install; of one that was not, it keeps the 15 minutes
of its creation; an enrolment under a name that is taken leaves a device behind; two edits that overlap
may leave a policy with the folder of one and a receiver with that of the other, for good if nobody edits again.

Not modelled here: receivers made by hand, `setEnabled` and `resetPassword` of a receiver (no property depends on
either), the removal's cascade to runs and scans, inventories.

## 9. Configuration files

### State and actions

`task[r]` is a request under way, cut at each await.  `inode` and `live` are the versions of
`integrations.json` and which of them has the name; an entry is the number of the request that wrote
it.  `auth`, `token` and `configured` are `auth.json`, the setup token, and the process's knowledge of them.
`kept` remembers each entry as it was last saved, `lost` the entries that a later save put back.

| Code | Actions |
| --- | --- |
| `readRaw`, `writeRaw`, create, update, delete (integration-config.mjs:19-135) | Change, ReadConfig, OpenTemp, WriteTemp, RenameTemp |
| `setup`, `createLocalAuth` (local-auth.mjs) | Setup, ReadToken, CreateAuth, FillAuth, FinishSetup, Restart |
| a disk or a program says no | Fails |

### Properties

- `ConfigKept`: the file is readable and holds every entry as it was last saved, whatever failed or was
  restarted in the middle.  Nothing orders the requests, so there are two exceptions: an entry that was saved after another request
  had read the file, and that the save of the other puts back (`lost`: that entry only, until it is saved
  again), and two writes of one millisecond under one temporary name (`shared`).
- `IInv`: types, `SetUpOnce` and what makes these inductive: one setup is accepted, its password counts, and the appliance is
  set up or can be, also after a restart; a setup that was cut or failed while it filled the
  file is the exception (`broken`).

### Run

`local_files`: four requests, two at a time, two entries, two passwords, two faults (650,384
states).  Four requests are the least in which an entry is lost to an overlapping save, saved again and
then meets another request; two faults are a failed call in one request and a restart in the other.  A process that
cannot start stops, so deadlock is not checked.  No fairness is assumed.

### Proofs

`FilesAreSafe` is `Spec => []IInv`; `ConfigIsKept` and `OnePassword` are its parts.  The two files have their own
variables, so a step of one leaves the invariant of the other alone (`ConfigUntouched`, `AuthUntouched`).
`ConfigKept` needs that a request has its own change in its copy (`CopiesAreChanges`) and a temporary
file to itself which holds that copy once written (`TempsApart`): a rename then puts back just the entries
that were saved since the request read the file (`Stale`).  `SetUpOnce` needs that one request at a time is between creation and
answer (`OneFills`), which exclusive creation gives.

Observations: an `auth.json` that was cut stops every later start, and a `chmod` that fails after it was
filled leaves the process unconfigured until a restart.

Not modelled here: sessions, grants and the rate limit of logins (maps in memory, used within one turn),
the encryption of secrets and rclone's obscuring, the schemas.

## 10. Not modelled

- *In-memory job repository*: a test double with the contract of the table.
- *Repositories, receivers by hand*: one row, one statement.
- *Repository settings* (`createRepositorySettingsService`): nothing in the repository calls it at this commit, so
  there is no program behaviour to model.
- *Schedules, filters, inventory search*: pure functions over calendars and patterns; TLC could
  only enumerate what the unit tests do.
- *Source-scan walk, telemetry, dashboard, emergency export, network origin, web pages,
  packaging*: I/O, formatting, and no state of their own that a step of another could disturb.
- *Restores of files*: the agent of this repository refuses them (section 6 has what becomes of the run).

Of components that are listed as partly modelled, the sections above say which operations are missing.

## 11. Where code and documentation disagree

`groups_gateway` (section 4) checks one disagreement.  Six more were found and are stated as properties that
no run checks; add one to the `PROPERTIES` of `transfers_safety.cfg` (1, 3, 4: 1 also needs
`InitialBehavior = "ignore_existing"`), `transfers_liveness.cfg` with `MaxCrashes = 1` (2),
`workstations_safety.cfg` (5) or `groups_agent.cfg` (6) to see it violated.

1. *First scan* (`OnlyFirstScanIgnores`, transfer-rules.mjs:335).  The
   statement that initializes the rule asks for the job linked to it, but
   local discovery links the job only after it was persisted.  The rule is never
   initialized, and with `ignore_existing` every later generation is ignored,
   against docs/transfers.md:36.
2. *Restart* (`StableFilesSettle`, transfer-rules.mjs:244).  A crash between the
   end of the job and the UPDATE of the object leaves the object pointing to
   an attempt whose operation key names a terminal job; each run is refused the
   lease and skips it, against docs/transfers.md:102.
3. *Move* (`MoveDeletesOnlyCommitted`, local-repository-transfer.mjs:142).
   The source path is deleted whatever it holds by then, against
   docs/transfers.md:83.
4. *Edit* (`ActiveTransfersFollowTheRule`, transfer-rules.mjs:98).  A run holds
   the rows it has read; until it enqueues the job of a row no job is open, and
   an edit of the destination is accepted.  The transfer then starts for the old
   destination, against the message of the check.
5. *Expiry* (`ExpiredLeaseRejected`, workstations.mjs:349).  `progress` and
   `finish` match token and state, not `lease_expires_at`: a report under an
   expired lease is accepted, and renews it, until a recovery pass came by, against
   docs/workstations.md:92.
6. *Groups after a restart* (`RestartKeepsGroups`, runtime-telemetry.mjs:111).  A discovery and its groups are
   persisted in two batches.  When the process dies between them the files of a torrent that was found
   complete have no label, the rule counts as scanned, and they are taken one by one until the next scan,
   against docs/transfers.md:102 ("A restart does not forget what was discovered, grouped or committed")
   and docs/transfers.md:52.  As with section 4, nothing in the server calls `recordRuntimeEvents` at this commit.

Every property the passing runs check holds with these behaviours in the model; where a property
needs an exception for one of them, its comment names it.

## 12. What is proved, and what is not

Each component has an inductive invariant `IInv`, which a run checks and `...Proofs` proves, and the properties
that follow from it.  The constants are as general as the modules declare them: any finite sets of jobs, agents,
paths, runs, machines or requests, any number of retries, scans, faults and edits.  The assumptions are those
of the module (sets are finite, NULL is not a member, bounds are naturals); TLC evaluates them on every run.

| Module | Theorems | Properties of runs they state |
| --- | --- | --- |
| JobEngineProofs | 10, section 2 | all safety properties of engine_leases and engine_queue, the refinement of JobLifecycle among them |
| TransferRulesProofs | TransfersAreSafe, DoneFilesAreDelivered, QueuedFilesAreSettled, FilesAreDeliveredOnce, SettledForGood | all of transfers_safety |
| TransferGroupsProofs | GroupsAreSafe, FilesAreCopiedOnce, AgentsKeepTorrentsTogether | all safety properties of groups_agent |
| TransferCleanupProofs | CleanupIsSafe, CleanedFilesAreGone, RemovesOnlyItsOwn, RefusedForGood | all safety properties of cleanup |
| WorkstationRunsProofs | RunsAreSafe, SlotsRunOnce, RestoresRunOnce, ShownScansAreStored, ResultsAreTheHolders, SlotsAreTaken | all of workstations_safety |
| FlatFileBackupProofs | BackupIsSafe, SkippedFilesAreCurrent, CompletedRunsAreWhole | all safety properties of backup_files |
| EnrolmentProofs | EnrolmentIsSafe, MachinesHaveOneIdentity, ShownCommandsAreWhole, OnlyTheOperatorRevokes | all of enrolment |
| LocalFilesProofs | FilesAreSafe, ConfigIsKept, OnePassword | all of local_files |

The proofs are laid out alike: lemmas about values and record types; what an action leaves untouched; one lemma
per action (or per action and part of the invariant); `NextIInv`; the theorems.

What stays with TLC:

- *Liveness under fairness*, which the prover does not do: `LeaseEventuallyReleased`, `StableFilesSettle`,
  `PendingMovesOn`, `DueSettles`, `RunsEnd`, `DueSlotIsTaken`, `StatusSettles`, `Converges`.
- `TorrentsStayTogether` in the gateway's wiring, which is false (groups_gateway).
- The six properties of section 11, which are false as stated or at the bounds given there.

What the proofs do not cover is what the models leave out: each section says it.  Next, where there is
something to gain: an abstract specification of the life of an object (seen, under way, settled) that TransferRules
implements, as JobLifecycle is for the engine; sessions and grants of the local accounts.
