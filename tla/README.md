# A TLA+ model of the resticpal service

resticpal backs up a Windows machine with restic. A protected service owns the
schedule, the repository credentials and every restic process; a tray program and
a settings program talk to it over a named pipe; a management server may sign
policies for it. This directory models the control of the service and of the tray:
which thread may start what, when and on which repository; how restic is run and
stopped; what is written to disk and in which order; how policies and updates arrive.
The modules are checked with TLC on small instances, and the main safety properties
are proved with TLAPS for every instance.

## The system and its parts

| Part | Source | Model |
| --- | --- | --- |
| Shared runtime state, start, stop, crash | `runtime/state.rs`, `state.rs`, `runtime/helpers.rs` | `RuntimeState` |
| Event loop | `main.rs` (`run_event_loop` and its callees), `runtime/lifecycle.rs` | `EventLoop` |
| Backup, repository and update threads | `main.rs`, `runtime/lifecycle.rs` | `WorkerThreads` |
| Requests, enrollment, policy application | `runtime/ipc.rs`, `runtime/enrollment.rs` | `RuntimeRequests` |
| Their composition | | `ServiceRuntime` |
| Schedule, backoff, sleep of the loop | `schedule.rs`, `runtime/scheduler.rs`, `runtime/lifecycle.rs` | `Scheduler` |
| Policy resolution | `policy.rs`, `config.rs` | `Choose`, `Resolve` and `Locks` in `RuntimeState`, for location and sources |
| Stores of configuration and state | `config_store.rs`, `state.rs`, `atomic_file.rs` | `saved_config`, `saved_state`: replaced whole, or not at all |
| restic executor, power request | `executor.rs`, `power_request.rs`, `restic.rs`, `main.rs` | `Executor`, which implements `ResticTask` |
| Run history, diagnostic log | `history.rs`, `diagnostics.rs`, `lifecycle.rs` | `History`, `Diagnostics`, composed in `Records` |
| Credentials, enrollment, repository update | `enrollment.rs`, `ipc.rs`, `credentials.rs` | `DeviceState`, `Enrollment` |
| Management thread, policy cache | `main.rs`, `management.rs` | `ManagementWorker`; composed with the former in `Device` |
| Update, from the check to the installer | `resticpal-tray`, `ipc.rs`, `updater.rs` | `Updates` |
| Tray: menu, watch, notifications | `resticpal-tray` | `Balloons`, `Tray` |
| Settings program, profile discovery, installer, release scripts | `ResticPal.UI`, `user_profiles.rs`, `installer/`, `scripts/` | not modelled, see the end |

`PROJECT.json` lists every component with its status, and the source lines of every
definition.

### Threads and locks

The event loop receives `RuntimeEvent`s from a channel and owns the cancellation
tokens `active_backup` and `active_repository_operation`. It spawns one worker thread
per backup, repository operation or update, which reports by one event. The IPC
thread serves one request at a time. The management worker applies policies. The
service control manager delivers stops, resumes and clock changes. They share
`RuntimeState` behind the state mutex, the effective configuration behind a
reader-writer lock, the local configuration, and `configuration_mutation`, which
serialises the writers of the configuration.

The hard part is that several handlers read the configuration before they take the
state mutex, or let go of the mutex between a check and an act, and that two files
and a policy server decide what a restart believes.

## The modules

### ServiceRuntime and what it extends

A step ends where a thread gives up the state mutex, or where it reads the
configuration before taking it. `loop`, `ipc` and `worker[w]` say where each thread
is and hold its locals, so `loop.config` is the copy that `evaluate_schedule` or
`finish_repository_operation` made, and `loop.snapshot` the copy of the state that is
saved without the mutex. A handler that does all its work under one lock is one
action.

| Variable | Code |
| --- | --- |
| `runtime` | `RuntimeState`: status, manual request, repository operation, validation record, update hold, flags |
| `config`, `local_config`, `field_locks` | effective and local configuration, `field_resolutions` |
| `saved_config`, `saved_state` | `config.toml`, the validation part of `state.json` |
| `queue` | the channel; events that only wake the loop are left out, because the loop may wake at any time |
| `active_backup`, `active_repository_operation`, `stopping` | locals of `run_event_loop` |
| `probed` | history: the repositories restic has accepted |

Abstractions, and why they keep what the properties tell apart:

- A repository is a location (URL with options) and a set of secret references, which
  is what `RepositoryIdentity` compares. A configuration without a URL has no
  identity. This is exact: an operation cannot succeed without a URL, and the
  repository does not change under it (`RepositoryFixedWhileResticRuns`).
- Sources are absent, none or some. Time is the expiry of the hold and a scheduling
  decision, which is any decision `decide` allows.
- A rejected request changes nothing and is a stutter. Callers are administrators
  where the code demands it.
- Policies carry no secret references, as `validate_effective_policy` and
  `commit_enrollment` demand of enrolled devices. A signed manifest configured
  without enrollment is not modelled, nor is the upgrade of a schema-1 `state.json`.
- `automatic_install` picks one of two update requests and may change whenever either
  is accepted, so both are offered. `update_retention` changes nothing modelled.
  `enroll_bootstrap` is an enroll request that comes first.
- Sending an event fails only when the loop has dropped its receiver at the end of the
  process, which `Exit` stands for.
- A crash kills every thread and, through the job object, restic. The orphan of a crash
  between spawn and assignment is in `Executor`.

### Scheduler

The same loop with a clock. `now` is the wall clock, which `TimeChanged` may set;
`delay` is what is left of `recv_timeout`, which the wall clock does not move. Time
passes only while the loop sleeps with nothing pending: the loop acts within a unit of
time. `pending` holds the reasons to wake that wait in the channel. Which repository is
used and the update hold stay in `ServiceRuntime`; `RunBackupNow` is one step here
because its interleaving is explored there. `AlreadyRunning` is folded into the early
return of the evaluation, and the failure count saturates at `MaxFailures`, above the
cap of the exponent. `loop.busy` records that the latest evaluation was stopped by a
management operation. `RunningIffActive`, checked on the core, is why `status.state`
may stand for `active_backup`.

### Executor and ResticTask

`Executor` follows one worker thread at a time from `Start` to the event it sends.
`pc` is the place in `execute_invocation` or `execute_repository_invocation`: build the
command, take the power request, check the token, spawn, assign to the job, poll, reap,
join the readers. A backup is the sequence Unlock, Backup, and Forget and Prune where
retention is allowed; `AfterUnlock`, `AfterBackup`, `AfterForget` and their kin are the
returns of `backup` and `retention`. The environment is restic (`child`), a process
restic has started and that may hold its pipes (`helper`), the kernel that needs time
to end them, and the watchdog that drops the power request at its limit. Output is what
the outcome depends on: whether a summary was written and read, and whether a pipe
failed. A crash closes the job, which ends restic if it had been assigned; a restic
spawned and not yet assigned lives on. Which message texts mean a lock or a wrong
password is a free choice, as is whether a configuration lets a command be built.

`ResticTask` is the promise to the event loop: one restic at a time, one report, no
report while restic lives, except for a restic that survived its termination, after which
the task starts no other. `ServiceRuntime` takes this promise for granted. The refinement
maps the executor's places to three phases and its two processes to one `live` flag.

### Records

`History` has one connection per call: open, read the version, migrate (in one
transaction), append or read. SQLite's transactions are atomic (external). A run is an
identifier and a completion time, which a clock set back may make smaller than that of
earlier runs, with its `details`: the kind of its outcome, the stored items and the omitted
ones. An execution of restic is what `finish_outcome` looks at: the exit, the summary, and
of each pipe whether it was read to its end, whether a VSS error was in it, and its error
lines that parse. `Outcome` keeps failure details only for a warning of the backup, merges
those of stderr only if its reader succeeded, and `WithWarning` adds the warning of
retention, which has none. `said` is a history variable: the execution behind each stored
run.

`Diagnostics` holds the files of the log as lines, each an entry or garbage, ended or not.
A rotation is one step per rename. A record may break off at any step, by an I/O error or a
crash, and in `write_all` after any part of its line: all of it but the newline, which still
parses, or less. What is written next to a line without its end becomes part of it, and the
whole does not parse. Entries differ in length, so a file may be full after any number of
lines up to `MaxLog`. `recorded` holds the entries whose `record` returned Ok, `exposed`
those of them that were the first after a broken write.

The loops of both (`PushAll`, `Entries`, `Readable`) are recursive functions, so that the
proofs can speak of them. `Records` is `finish_backup_at` (append, save, record), the
records of the workers, which come before the event that ends them, the reads of the IPC
thread, I/O errors and crashes.

### Device

`Enrollment` is `enroll` with `commit_enrollment`, `unenroll` and `update_repository`, one
action per write: each credential, `config.toml`, the cache, memory, each removal; each
may fail, and a crash may come between any two. `ManagementWorker` is the thread that
reloads the configuration, activates a source it has not seen, refreshes a known one,
writes the cache without a lock and applies under `configuration_mutation`. A policy is
its source and its sequence. A task holds the references it read at its start, so that a
removal under it would show. References come from a counter, as `put_new` never reuses a
name. The delays of the thread are a choice, and its status reports are left out.

### Tray and Balloons

`Balloons` has the routes the tray queues (`pending`, `active`), the shell's own queue and
the messages between them; the shell is external and shows balloons in order, may drop one,
and forgets all when Explorer restarts. `RestartsOverlap` says whether Explorer may restart
again before the tray has handled the `TaskbarCreated` message of the restart before.
`MaxMessages` bounds the messages that wait for the window thread; it has no counterpart in
the code, and the theorems hold for every value. `Tray` is the window thread. The open menu
dispatches messages, so a callback, a poll or an update notice may come between the choice
of a command and its execution. A request may be handled although its client timed out.
Attempts are numbered; a time that the service reports is the number of its attempt.
`asked` is a history variable: the last attempt the request cannot be about.

### Updates

The tray's timers, single-flight flag, retry timer, notice and menu entry (`offered`: a
click on either counts whatever became of `UPDATE_AVAILABLE` since); the service's
`InstallUpdate` with its hold; the worker's staging, download, rename, verification,
launch and wait; msiexec and the transaction behind it, which a killed msiexec leaves
running. Content is `signed` or not. The rest of the service only makes a request be
rejected.

## Runs

`tlc -config X.cfg M`, where `PROJECT.json` gives the module of each configuration.

| Run | Config | What it shows |
| --- | --- | --- |
| local | `MCLocal` | `OneResticAtATime`; `ResticExclusion` (the inductive invariant); `BackupUsesVerifiedRepository`; `ReadyMeansVerified`; `RunningIffActive`; `UpdateExcludesRestic`; `RepositoryFixedWhileResticRuns`, for every request of an unmanaged device |
| managed | `MCManaged` | the repository properties with policies arriving at any time |
| unenroll | `MCUnenroll` | `VerificationWasProbed`, which holds in spite of unenroll's open window |
| liveness | `MCLiveness` | `OperationEnds`, `CancelEndsBackup`, `HoldIsReleased` |
| schedule | `MCSchedule` | `DueWithinInterval`, `BackoffIsBounded`, `NoBusySpin` with a clock that only advances, enrollments and deferrals of more than an interval included |
| clock | `MCClock` | `NeverOversleeps` and `StartsOnlyWhenDue`, no backup late for want of a wake and none early, with suspensions and a clock that is set both ways |
| executor | `MCExecutor` | a reported backup has a snapshot (`KeptMeansSnapshot`), which retention does not spoil (`RetentionKeepsBackup`); `DestructiveOnlyWhenAllowed`; `PowerFollowsRestic`; cancelled and timed-out tasks end (`CancelEndsTask`, `RepositoryTaskEnds`); `ImplementsTask` |
| records | `MCRecords` | `NewestRunsKept` whatever the clock; `SchemaNeverStuck` after any crash or race; `FailuresAccounted`, a stored run has the details of its own execution; `LogLosesOldest`, only old entries and those next to a broken write are lost |
| device | `MCDevice` | `NoDanglingReference` at any fault; `NothingLeaks` without one; `PolicyOfCurrentSource`; `RevisionReachesDevice` |
| tray | `MCTray` | `ClickOpensItsPage` while Explorer's restarts do not overlap, `AnnouncesRequestedBackup`, `WatchEnds` |
| updates | `MCUpdates` | `InstallsSignedContent`, `BackupsWaitForInstaller`, `UpdateIsRequested` |

Every property has a mutant in `PROJECT.json`: a plausible mistake in a definition,
for example a dropped guard, under which TLC finds the property violated.

### Where the code and its documentation disagree

The run unenroll_backup (`MCUnenrollBackup`) ends in a counterexample: `unenroll` makes
another repository effective without requiring its validation, and the next backup uses
it (DESIGN.md:205, "The first use of a configured repository, and any later change that
affects connectivity, requires durable verification").

The models refute further statements. Each takes an existing configuration with the
change named here:

| Change | Violated | What happens |
| --- | --- | --- |
| `MCUnenroll`, `"PrepareForUpdate"` added to `Requests` | `UpdateExcludesRestic` | A backup starts between unenroll's check and its end (enrollment.rs:264-323); unenroll overwrites `Running`, and an update is accepted while restic runs (DESIGN.md:418). |
| `MCLocal` | `RequirementIsDurable` | The state copied by `finish_backup_at` (lifecycle.rs:211) is saved late, over the requirement to validate that a repository operation has just saved; a crash then starts the service ready (DESIGN.md:205, 272). |
| `MCSchedule`, `OneSchedule`, `ClockChanges = {0}`, `MaxNow = 6` | `DueWithinInterval` | A success in the future is clamped anew at every evaluation, so the deadline slides (schedule.rs:68, against the comment at schedule.rs:337). |
| `MCSchedule`, `WithoutSources` | `NoBusySpin` | A device whose sources were removed while a backup was starting keeps a past deadline, and the loop spins (scheduler.rs:66, against the comment at 129). |
| `MCTray`, `RestartsOverlap = TRUE` | `ClickOpensItsPage` | Explorer restarts twice. The second `TaskbarCreated` message clears the routes of balloons the new shell accepted after the first (tray main.rs:449-458), and a click on one of them finds no route (against the test `balloon_clicks_follow_the_route_that_became_visible`, main.rs:1526). |

Weaknesses and smaller disagreements show in the same models:

- With `Enrolls = TRUE`, `NeverOversleeps` and `DueWithinInterval` fail if their conjunct
  `~loop.busy` is dropped: an evaluation stopped by an enrollment consumes the wake-up of a
  manual request, and `enroll` clears its flag without an event before the loop computes
  its sleep, which then lasts until the old deadline, for example that of a deferral.
- A wake grace may be longer than the interval (config.rs:371 allows up to 24 hours). Then
  `DueWithinInterval` fails, because a machine that has just resumed waits for the grace.
- With the clock set back, `BackoffIsBounded` fails, because `not_before` is not clamped.
- The configuration cloned before the mutex in `finish_repository_operation` can leave a
  service without sources in a status other than `Unconfigured`.
- The management thread keeps its `sequence` when the source changes and the first policy
  of the new source cannot be fetched or applied (main.rs:324-362). If the new source
  counts from a lower number, its revisions are refused or ignored until they pass the old
  number, the service restarts, or management is disabled, whereas DESIGN.md:292 says that
  it "applies new revisions without restarting". `RevisionReachesDevice` is therefore about
  a source whose sequence is above the thread's.
- The comment at executor.rs:1338, "KILL_ON_JOB_CLOSE ensures subprocesses cannot outlive
  the service", leaves out a crash between spawn and assignment; `ResticTask` allows that
  orphan.
- A write to the log that breaks off leaves a line without its end, and the next entry is
  appended to it although `record` returns Ok (diagnostics.rs:61): the log may show what came
  before and after that entry without it. `LogLosesOldest` excepts such entries (`exposed`).
- A rotation that fails midway has already removed the oldest archive (diagnostics.rs:84); one
  that fails again and again empties the archives one by one, the oldest first.
- Items that stderr named are lost uncounted when its reader fails (executor.rs:948), as are
  those of an error line too long to be read. `FailuresAccounted` speaks of what was read.
- Failure details are stored for an exit 0 with a VSS warning as well, whereas DESIGN.md:456
  says "For a partial backup only".
- The updater renames the `.partial` file to `.msi` and verifies it afterwards
  (updater.rs:159-160), whereas DESIGN.md:404 says it "atomically changes a `.partial` file to
  `.msi` only after verification". What is launched is verified in either order
  (`InstallsSignedContent`); an unverified `.msi` can be left behind by a crash, and the next
  update removes it first.
- The retry that keeps the tray's silent handoff from being "lost until the six-hour
  periodic timer" (tray main.rs:674) is lost when the feed cannot be read at that retry.
  `UpdateIsRequested` holds by the periodic timer.

### Bounds

- Two repositories, or one where only exclusion is asked about; one or two sets of
  secrets: enough for the configured, the verified and the probed repository to differ.
- Two workers. The loop never has two restic workers, but a second one lets a mutant
  have them, and an update worker outlives a hold beside a backup. Workers are
  symmetric; no symmetry is used in the liveness run.
- Three policies: one locks the location, one recommends location and sources, one
  locks the sources away. That gives every case of `Choose`.
- Each configuration offers the requests its question needs (`Requests`). `MaxCancels`
  bounds the cancel events queued at once; other events are bounded by the protocol.
- Schedules of two and three units, a grace of two, a retry of one unit doubling once, a
  deferral longer than either interval, `MaxNow` of three and five units: a deadline, a
  retry at its cap and a whole interval after them fit. `MaxFailures` is four, where a
  retry without its cap would exceed the deferral as well. The clock run has no growing
  backoff (`MaxFailures = 0`): there a retry is one more instant to wake at.
- Executor: a progress channel of one event, so that it is full as soon as one is in it.
  Tasks follow each other without bound.
- Records: one stored run of three, so that a prune follows a prune; one stored failure
  item of up to four lines; two instants; two archives, files of one or two lines and four
  entries, so that archives are dropped. The four executions of `MCExecutions` are a partial
  backup with repeated, unsafe and too many items on both pipes, a VSS warning with a pipe
  that could not be read, and two whose items are not kept.
- Device: two sources, one secret variable, two sequences, four references and one fault:
  a change of source with a revision before and after it and a failure at any point.
- Tray: two routes, so that a third balloon meets a full queue; two messages under way, so
  that a callback waits behind another; two attempts; one restart
  of the service; any number of restarts of Explorer, one at a time; one fast poll before the slow ones.
- Updates: three publications, changes of the setting or restarts (`MaxEvents`).

Deadlock is not checked where the bounds end every behaviour, or where nothing need ever
happen (records, device, tray, updates).

### Fairness

`ServiceRuntime`: the loop and the IPC thread finish what they began, the loop wakes (it
always sleeps with a timeout), and receiving is strongly fair, since the loop alternates
between waking and receiving and the channel is a queue. A repository operation ends
because the executor gives it a timeout (`RepositoryTaskEnds`). A backup has no timeout, so
it is assumed to end only once it is cancelled (`CancelEndsTask`). Requests, crashes, stops,
installers and spawn failures are not fair. The installer's end is not assumed, which
is why `HoldIsReleased` speaks of a hold that no installer keeps.

`Executor`: the worker thread runs, a process whose job was terminated dies, a reader
reaches the end of a pipe nobody holds, and a process restic has started ends at some time
(`HelperEnds`). Without the last the join of the readers may block after restic has exited
by itself, and the code has no other answer to it. restic itself need not end.

`Device`: threads run and started requests and tasks end; a fetch that is tried again and
again succeeds at some time; and the retries of a policy that met a busy service do not
meet a busy one for ever (`RetriesMeetAnIdleRuntime`): they come every few minutes and
backups hours apart.

`Tray`: the poll timer fires and two hours pass. Neither the service nor the shell is fair.

`Updates`: threads, timers and deadlines; a transaction ends; the feed, the setting and the
request, asked again and again, are answered at some time.

## Proofs

Eight modules, checked by `tlapm`. The theorems hold for all values of the constants that
satisfy the named assumptions (`ConstantsAssumption` and its like: special values lie
outside their sets, limits are natural numbers, policies and requests have their types).
Where a bound appears in a guard, the theorem holds for every value of the bound.
The type invariants are proved and are not among the properties of the runs.

| Module | Theorems |
| --- | --- |
| `ServiceRuntimeProofs` | `TypeCorrect`: `Spec => []TypeOK`; `ExclusionCorrect`: `[]ResticExclusion`; `OneResticCorrect`: `[]OneResticAtATime` |
| `RepositoryProofs` | `ProbedCorrect`: `[]VerificationWasProbed`; and without unenroll `ReadyCorrect`: `[]ReadyMeansVerified`, `BackupRepositoryCorrect`: `[]BackupUsesVerifiedRepository`, `RepositoryFixedCorrect`: `RepositoryFixedWhileResticRuns`, `UpdateExcludesCorrect`: `[]UpdateExcludesRestic`, `RunningCorrect`: `[]RunningIffActive` |
| `SchedulerProofs` | `TypeCorrect`; `OversleepsCorrect`: `[]NeverOversleeps`; `StartsCorrect`: `StartsOnlyWhenDue`; `SpinCorrect`: `NoBusySpin` where every configuration has sources; `BackoffCorrect`: `[]BackoffIsBounded` where the clock is not set; `IntervalCorrect`: `[]DueWithinInterval` where besides no grace exceeds its interval |
| `ExecutorProofs` | `KeptCorrect`, `DestructiveCorrect`, `PowerCorrect`, `RetentionCorrect`; `Refinement`: `Spec => ImplementsTask` |
| `RecordsProofs` | `SchemaCorrect`: `[]SchemaNeverStuck`; `NewestRunsCorrect`: `[]NewestRunsKept`; `FailuresCorrect`: `[]FailuresAccounted`; `LogCorrect`: `[]LogLosesOldest` |
| `DeviceProofs` | `TypeCorrect`; `ReferencesCorrect`: `[]NoDanglingReference`; `PolicyCorrect`: `[]PolicyOfCurrentSource`; `LeaksCorrect`: `[]NothingLeaks` |
| `UpdatesProofs` | `TypeCorrect`; `WaitCorrect`: `[]BackupsWaitForInstaller`; `SignedCorrect`: `[]InstallsSignedContent` |
| `TrayProofs` | `TypeCorrect`; `AnnouncementCorrect`: `[]AnnouncesRequestedBackup`; `ClicksCorrect`: `[]ClickOpensItsPage` where Explorer's restarts do not overlap |

**Exclusion.** `OneResticAtATime` is not inductive: nothing in it says why an evaluation finds no
operation, or why a request finds no backup. `ResticExclusion` says where a piece of
work can be. A backup is its worker, its report in the channel, or the loop saving its
success, and in exactly one of them, with `active_backup` set until the last is over.
A repository operation is its request, its worker, its report, or the loop finishing
it, and while it is anywhere the operation status is `Running`. That status blocks
evaluations, requests, and the policies that would reset it; an enrollment, which does
not look again before it commits, is covered by the clause on `ipc.pc`. The proof takes
the actions one by one; `HoldsAppend` and `HoldsTail` say what sending and receiving do
to the channel, `ExclusionFrame` disposes of the actions that touch none of it, and
`ChannelFrame` of those that send or receive an event of neither. The
theorem includes unenroll, so it holds in spite of the disagreements above.

**Repository.** Five inductive invariants on top of the exclusion. `OperationOnConfig`:
while an operation is anywhere the configuration keeps its repository, so what its worker
probed is what `finish_repository_operation` marks, although that reads the configuration
again. `StatesEarned`: every copy of a validation record, in memory, in `state.json`, in the
hands of the loop or of a retention worker, names an identity restic accepted; without the
copies a late save of an old one would break `VerificationWasProbed`. These two hold with
unenroll. `UpdateInOnePlace`: an installation is its request, its worker or its report, and
marked active in all three. `BackupSettled`: beside a backup worker the status is `Running`,
the operation allows backups, no update is pending, no enrollment or unenrollment is in
progress, and the worker's repository is the configured one. `RunningSettled`: the status is
`Running` exactly as long as the loop has a backup that it has not finished, which needs
that no hold restores `Running`. The last two, and the five theorems that rest on them,
assume `"Unenroll" \notin Requests`: `unenroll` checks that the service is idle, gives up
the mutex and changes the repository without checking again, and `unenroll_backup` shows
that `BackupUsesVerifiedRepository` then fails.

**Scheduler.** `OperationInv` says what a running backup and a running operation exclude.
`SleepInv` carries `NeverOversleeps` back to the evaluation: from there on the sleep the
loop will compute, and then the one it has computed, ends in time unless an event is
pending, so a handler that moves the deadline without a wake would break it. It holds
with a clock that is set both ways. `StartsCorrect` does too: only `Evaluate` makes the
status Running, every other action keeps it from becoming so (`OnlyEvaluateStarts`), and
an evaluation that starts a backup has compared the clock under the mutex with the very
instants the property names (`DuePast`); a success recorded in the future is clamped to
now, which an interval of at least one keeps from being due. `SpinInv` says that the sleep planned by an
evaluation is not empty; `AllConfigured` is needed, as the table of disagreements shows.
`HistoryInv` puts the recorded times in the past and bounds the time waited by the time
since the last success; with `SleepInv` it makes `IntervalInv` inductive, by which the
time waited and the sleep still to come stay within the interval and a poll. The clock
must not be set and the grace not exceed the interval; both hypotheses have
counterexamples above. `BackoffCorrect` rests on the powers of two being monotone up to
the cap of the exponent.

**Executor.** `ExecutorInv` ties the place of the worker to the state of the process, the
job, the power request and the output: before the spawn and after the return there is no
process; while it polls, restic is in the job; a helper implies a job; a summary implies a
snapshot; retention runs only after a kept backup. The four properties are its
consequences. The refinement takes each action under `ExecutorInv` to a step of
`ResticTask` or a stutter; the case that matters is the report, which needs that at
`returned` no process of the task is left, or that the result says so.

**Records.** The schema is safe because a migration is one transaction. `RunsInv` adds to
`NewestRunsKept` that ids are distinct, so that completion time and id order the runs
totally; the deletion after an append then removes at most the last in that order, which
any later deletion would have removed as well.
`Pass(d, S, k, r)` is what `k` pushes of the names `S` make of `d`; it holds of `push`, of
`merge` and of normalisation, and `TwoPipes` joins them for any lines on the two pipes.
`OutcomeAccounted` carries that through every way an execution may end, and the append adds
one run to the table and its own details to it while the pruned ones lose theirs.
`LogInv` orders the entries within the files and between them. While a rotation is under
way the file above the next to move is missing (`LogStep`), so that a crash between two
renames loses nothing that was kept; a line without its end is no recorded entry
(`LogOpen`); a recorded entry that is gone is older than all that are left (`LogGap`), and
the newest one is in the current file, or in the first archive when there is none
(`LogNewest`). `Extended` is what a write does to a file, with and without an open line at
its end. What recursive functions
compute is proved by taking the least number at which a claim fails (`LeastNumber`,
`Iteration`, `UpTo`), which needs no theorem with an operator parameter.

**References.** `NoDanglingReference` needs to know what a half-done request may still do.
`CredentialInv` says of its candidate that every slot is new, empty or as before, that no
two slots share a reference, and that what cleanup may remove (`created`) and what
retirement may remove (`retired`) is apart from the configuration in force; and that no
task runs while secrets may change. `LeakInv` adds that without a fault the store is the
configuration in force with the created or the retired references. `PolicyInv` says that a
policy in the hands of a request or of the management thread is of the source they read,
so the comparison of sources at the application is enough.

**Updates.** `UpdateInv`: whenever something of ours may be at work the update is marked
active, and a known end is reported only when nothing is. `SignedInv`: what is to be
launched is what was verified.

**Tray.** `TrayInv`: the attempt the request was about is never above the latest, and a
watch that has seen a backup running has seen a later one. `InStep` is about the routes:
reading the messages under way in order, each one that uses up a route finds at the head of
`pending` the page of its own balloon, and what is left is the shell's queue. A restart
message is the last one under way, and the shell accepts no balloon until the tray has
handled it; that is what overlapping restarts break.

Only model-checked: the liveness properties, which are outside the prover's reach
(`OperationEnds`, `CancelEndsBackup`, `HoldIsReleased`, `CancelEndsTask`,
`RepositoryTaskEnds`, `RevisionReachesDevice`, `WatchEnds`, `UpdateIsRequested`). Every
other property of a passing run has a theorem.

## Not modelled

- The settings program (`ResticPal.UI`). It is a client of the pipe, and no decision of
  the service depends on its state. Its synchronisation of managed revisions
  (`ManagedConfigurationSynchronization.cs`), where a revision may be observed while an
  earlier one is being loaded, is the one part with a protocol of its own.
- Framing and overlapped I/O of the named pipe, access-control checks of directories,
  DPAPI, signatures and their dates: each only decides whether a step fails, and every such
  step has a failure in the models.
- The fields of the effective configuration other than location, sources, mode and
  schedule: they follow the same rule of `Choose` and decide nothing here. Validation of
  values and of source paths. The upgrade of a schema-1 `state.json`.
- Status reports of the management thread, the tray's start of the settings window,
  onboarding, and all texts.
- User profile discovery (stateless queries), the installer and the release scripts.
