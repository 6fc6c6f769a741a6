------------------------------ MODULE Executor ------------------------------
(***************************************************************************)
(* How the service runs restic (executor.rs, and the worker threads of     *)
(* main.rs that call it): one task at a time, each a sequence of restic    *)
(* invocations.  An invocation takes a power request, starts restic in a   *)
(* kill-on-close job, reads its two pipes on threads of their own, polls   *)
(* for its end, and terminates the job on cancellation or timeout.         *)
(* restic, the processes it starts and the kernel are the environment.     *)
(***************************************************************************)
EXTENDS Naturals, FiniteSets

CONSTANT MaxPendingProgress  \* MAX_PENDING_PROGRESS_EVENTS

ASSUME PendingAssumption == MaxPendingProgress \in Nat \ {0}

VARIABLES
  task,      \* what the worker was started for, and the mode it cloned
  op,        \* the operation of the current invocation
  pc,        \* where the worker thread is
  token,     \* the CancellationToken
  result,    \* the outcome of the last invocation
  saved,     \* the backup outcome kept while retention runs
  pruneDue,  \* RetentionPlan
  report,    \* the outcome the event loop got for the last task
  job,       \* this invocation's job handle is open
  child,     \* the restic process: "none", "running", "dying", "exited"
  contained, \* restic was assigned to the job
  code,      \* restic's exit code
  helper,    \* a process restic started: "holding" our pipes, or "apart"
  reader,    \* the thread reading each pipe, and what it returned
  pending,   \* progress events in the channel
  summary,   \* the summary the stdout reader has parsed
  why,       \* why the job was terminated
  power,     \* the power request: "none", "held", "expired"
  snapshot,  \* the repository holds a snapshot of this task
  written,   \* restic wrote its summary
  left       \* processes of earlier tasks still there

workerVars == <<task, op, pc, result, saved, pruneDue, report>>
processVars == <<job, child, contained, code, helper, left>>
outputVars == <<reader, pending, summary, written>>
vars == <<workerVars, processVars, outputVars, token, why, power, snapshot>>

-----------------------------------------------------------------------------
Modes == {"Standard", "AppendOnly"}
Kinds == {"Backup", "Probe", "Initialize"}
Operations == {"Unlock", "Backup", "Probe", "Initialize", "Forget", "Prune"}
Streams == {"stdout", "stderr"}
NoTask == [kind |-> "None", mode |-> "Standard"]

\* Mutant: the mode is not looked at.
AllowedAnyway(o, mode) == TRUE

AllowedIn(o, mode) == mode = "Standard" \/ o \in {"Backup", "Unlock", "Probe"}

Succeeded == [kind |-> "Succeeded", code |-> "none"]
Warnings(c) == [kind |-> "SucceededWithWarnings", code |-> c]
Cancelled == [kind |-> "Cancelled", code |-> "none"]
Failed(c) == [kind |-> "Failed", code |-> c]
None == [kind |-> "None", code |-> "none"]
NoReport == [event |-> "None", kind |-> "None", code |-> "none"]

Kept(o) == o.kind \in {"Succeeded", "SucceededWithWarnings"}

\* Mutant: the last warning replaces the first.
WithLastWarning(o, c) == Warnings(c)

\* BackupOutcome::with_warning: the first warning stays.
WithWarning(o, c) ==
  IF o.kind = "Succeeded" THEN Warnings(c) ELSE o

\* execute_repository_invocation, from the exit code on.
RepositoryOutcome ==
  CASE why = "cancelled" -> Cancelled
    [] why = "timed_out" -> Failed("repository_operation_timed_out")
    [] why = "wait_failed" -> Failed("restic_wait_failed")
    [] OTHER -> IF code = 0 THEN Succeeded ELSE Failed("repository_operation_failed")

\* Mutant: only the exit code counts, and any other code is a warning.
FinishByExitCode ==
  CASE code = 130 -> Cancelled
    [] code = 0 -> Succeeded
    [] OTHER -> Warnings("restic_partial_source")

\* finish_outcome.
FinishOutcome ==
  CASE code = 130 -> Cancelled
    [] code # 130 /\ (reader["stdout"] = "failed" \/ summary # "read") ->
         Failed("restic_output_invalid")
    [] OTHER ->
         CASE code = 0 /\ "flagged" \in {reader[s] : s \in Streams} ->
                Warnings("restic_vss_fallback")
           [] code = 0 /\ "flagged" \notin {reader[s] : s \in Streams} -> Succeeded
           [] code = 3 -> Warnings("restic_partial_source")
           [] OTHER -> Failed("restic_exit")

\* execute_invocation, once both readers are joined.
InvocationOutcome ==
  CASE op = "Backup" /\ why = "cancelled" -> Cancelled
    [] op = "Backup" /\ why = "wait_failed" -> Failed("restic_wait_failed")
    [] op = "Backup" /\ why = "none" -> FinishOutcome
    [] OTHER -> RepositoryOutcome

-----------------------------------------------------------------------------
NoReaders == [s \in Streams |-> "none"]

\* Leaving execute_*: the locals are dropped.  The job handle closes, which
\* kills what the job still holds, and the power request is released.
Return(r) ==
  /\ pc' = "returned"
  /\ result' = r
  /\ job' = FALSE
  /\ child' = "none"
  /\ contained' = FALSE
  /\ helper' = IF job /\ helper # "none" THEN "dying" ELSE helper
  /\ reader' = NoReaders
  /\ pending' = 0
  /\ summary' = "none"
  /\ written' = FALSE
  /\ why' = "none"
  /\ power' = "none"
  /\ code' = 0
  /\ UNCHANGED <<task, op, saved, pruneDue, report, token, snapshot>>

\* An early return: nothing was started, or it has been waited for.
ReturnEarly(r) == Return(r) /\ UNCHANGED left

\* start_backup_worker, start_repository_worker.
Start(k, m) ==
  /\ task = NoTask
  /\ task' = [kind |-> k, mode |-> m]
  /\ op' = IF k = "Backup" THEN "Unlock" ELSE k
  /\ pc' = "build"
  /\ token' = FALSE
  /\ snapshot' = FALSE
  /\ report' = NoReport
  /\ UNCHANGED <<result, saved, pruneDue, processVars, outputVars, why, power>>

\* ResticCommandBuilder: the mode decides, and any configuration may be invalid.
Build ==
  /\ pc = "build"
  /\ \/ /\ AllowedIn(op, task.mode)
        /\ pc' = "acquire"
        /\ UNCHANGED result
     \/ /\ pc' = "returned"
        /\ result' = Failed("invalid_configuration")
  /\ UNCHANGED <<task, op, saved, pruneDue, report, processVars, outputVars,
                 token, why, power, snapshot>>

\* Mutant: `let _ =` drops the power request at once.
AcquireAndDrop ==
  /\ pc = "acquire"
  /\ pc' = "check"
  /\ UNCHANGED <<task, op, result, saved, pruneDue, report, processVars, outputVars,
                 token, why, power, snapshot>>

\* resolve_secrets, then WakeLockProvider::acquire.
Acquire ==
  /\ pc = "acquire"
  /\ \/ /\ power' = "held"
        /\ pc' = "check"
        /\ UNCHANGED <<task, op, result, saved, pruneDue, report, processVars,
                       outputVars, token, why, snapshot>>
     \/ ReturnEarly(Failed("credential_unavailable"))
     \/ ReturnEarly(Failed("wake_lock_unavailable"))

\* The token is looked at once before anything is started; then the job.
Check ==
  /\ pc = "check"
  /\ \/ token /\ ReturnEarly(Cancelled)
     \/ ~token /\ ReturnEarly(Failed("process_isolation_failed"))
     \/ /\ ~token
        /\ pc' = "spawn"
        /\ job' = TRUE
        /\ UNCHANGED <<task, op, result, saved, pruneDue, report, child, contained,
                       code, helper, left, outputVars, token, why, power, snapshot>>

Spawn ==
  /\ pc = "spawn"
  /\ \/ /\ pc' = "assign"
        /\ child' = "running"
        /\ UNCHANGED <<task, op, result, saved, pruneDue, report, job, contained,
                       code, helper, left, outputVars, token, why, power, snapshot>>
     \/ ReturnEarly(Failed("restic_start_failed"))

\* Assigning the child to the job; a child that cannot be assigned is killed.
Assign ==
  /\ pc = "assign"
  /\ \/ /\ pc' = "poll"
        /\ contained' = TRUE
        /\ reader' = [s \in Streams |-> "reading"]
        /\ UNCHANGED child
     \/ /\ pc' = "discard"
        /\ child' = IF child = "running" THEN "dying" ELSE child
        /\ UNCHANGED <<contained, reader>>
  /\ UNCHANGED <<task, op, result, saved, pruneDue, report, job, code, helper, left,
                 pending, summary, written, token, why, power, snapshot>>

\* child.wait() after the kill.
Discard ==
  /\ pc = "discard"
  /\ child = "exited"
  /\ ReturnEarly(Failed("process_isolation_failed"))

\* collect_progress_events, at the head of the loop.
PollProgress ==
  /\ pc = "poll"
  /\ pending > 0
  /\ pending' = 0
  /\ UNCHANGED <<workerVars, processVars, reader, summary, written, token, why,
                 power, snapshot>>

PollExit ==
  /\ pc = "poll"
  /\ child = "exited"
  /\ pc' = "join"
  /\ UNCHANGED <<task, op, result, saved, pruneDue, report, processVars, outputVars,
                 token, why, power, snapshot>>

\* terminate_process_tree, up to its wait: the job is terminated and closed.
Terminate(reason) ==
  /\ why' = reason
  /\ pc' = "reap"
  /\ job' = FALSE
  /\ child' = IF child = "running" THEN "dying" ELSE child
  /\ helper' = IF helper # "none" THEN "dying" ELSE helper
  /\ UNCHANGED <<task, op, result, saved, pruneDue, report, contained, code, left,
                 outputVars, token, power, snapshot>>

PollCancel == pc = "poll" /\ child # "exited" /\ token /\ Terminate("cancelled")

\* Mutant: only the connection test has a timeout.
PollTimeoutOfProbe ==
  pc = "poll" /\ child # "exited" /\ ~token /\ op = "Probe" /\ Terminate("timed_out")

\* Only execute_repository_invocation has a timeout; cancellation comes first.
PollTimeout ==
  pc = "poll" /\ child # "exited" /\ ~token /\ op # "Backup" /\ Terminate("timed_out")

PollError == pc = "poll" /\ Terminate("wait_failed")

Reaped ==
  /\ pc = "reap"
  /\ child = "exited"
  /\ pc' = "join"
  /\ UNCHANGED <<task, op, result, saved, pruneDue, report, processVars, outputVars,
                 token, why, power, snapshot>>

\* PROCESS_TERMINATION_GRACE is over, or the wait failed: the readers are left.
GiveUp ==
  /\ pc = "reap"
  /\ left' = IF child = "dying" THEN left \cup {"dying"} ELSE left
  /\ Return(Failed("restic_termination_failed"))

Join ==
  /\ pc = "join"
  /\ \A s \in Streams : reader[s] # "reading"
  /\ ReturnEarly(InvocationOutcome)

-----------------------------------------------------------------------------
\* The worker thread is gone.
Quit ==
  /\ task' = NoTask
  /\ pc' = "idle"
  /\ op' = "None"
  /\ result' = None
  /\ saved' = None
  /\ pruneDue' = FALSE

\* It sends BackupFinished or RepositoryOperationFinished first.
Finish(o) ==
  /\ report' = [event |-> task.kind, kind |-> o.kind, code |-> o.code]
  /\ Quit

Continue(o) ==
  /\ op' = o
  /\ pc' = "build"
  /\ UNCHANGED <<task, result, report>>

\* backup_outcome_for_lock_cleanup.
AfterUnlock ==
  /\ op = "Unlock"
  /\ IF result.kind = "Succeeded" THEN Continue("Backup") /\ UNCHANGED <<saved, pruneDue>>
                                  ELSE Finish(result)

\* begin_retention reads the mode the service has now.
AfterBackup ==
  /\ op = "Backup"
  /\ \E now \in Modes :
       IF Kept(result) /\ now = "Standard"
       THEN saved' = result /\ pruneDue' \in BOOLEAN /\ Continue("Forget")
       ELSE Finish(result)

\* finish_retention: a failure is a warning on the backup, as is a failed save.
FinishRetention ==
  IF result.kind = "Succeeded"
  THEN Finish(saved) \/ Finish(WithWarning(saved, "retention_state_save_failed"))
  ELSE Finish(WithWarning(saved, IF result.kind = "Cancelled"
                                 THEN "retention_cancelled" ELSE result.code))

\* Mutant: a prune that is due follows whatever became of the forget.
AfterAnyForget ==
  /\ op = "Forget"
  /\ IF pruneDue THEN Continue("Prune") /\ UNCHANGED <<saved, pruneDue>>
                 ELSE FinishRetention

AfterForget ==
  /\ op = "Forget"
  /\ IF result.kind = "Succeeded" /\ pruneDue
     THEN Continue("Prune") /\ UNCHANGED <<saved, pruneDue>>
     ELSE FinishRetention

AfterPrune == op = "Prune" /\ FinishRetention

AfterOperation == op \in {"Probe", "Initialize"} /\ Finish(result)

Advance ==
  /\ pc = "returned"
  /\ AfterUnlock \/ AfterBackup \/ AfterForget \/ AfterPrune \/ AfterOperation
  /\ UNCHANGED <<processVars, outputVars, token, why, power, snapshot>>

-----------------------------------------------------------------------------
\* A client, a shutdown or a low battery cancels the token.
Cancel ==
  /\ task # NoTask
  /\ token' = TRUE
  /\ UNCHANGED <<workerVars, processVars, outputVars, why, power, snapshot>>

\* restic's own steps: a snapshot, then the summary, then the exit.
SaveSnapshot ==
  /\ child = "running" /\ op = "Backup"
  /\ snapshot' = TRUE
  /\ UNCHANGED <<workerVars, processVars, outputVars, token, why, power>>

WriteSummary ==
  /\ child = "running" /\ op = "Backup" /\ snapshot
  /\ written' = TRUE
  /\ UNCHANGED <<workerVars, processVars, reader, pending, summary, token, why,
                 power, snapshot>>

ChildExits ==
  /\ child = "running"
  /\ child' = "exited"
  /\ code' \in {0, 1, 3, 130}
  /\ op = "Backup" /\ code' \in {0, 3} => written
  /\ op # "Backup" => code' \in {0, 1}
  /\ UNCHANGED <<workerVars, job, contained, helper, left, outputVars, token, why,
                 power, snapshot>>

\* A process told to terminate ends; its exit code is nobody's business.
ChildDies ==
  /\ child = "dying"
  /\ child' = "exited"
  /\ code' = 1
  /\ UNCHANGED <<workerVars, job, contained, helper, left, outputVars, token, why,
                 power, snapshot>>

HelperStarts ==
  /\ child = "running" /\ contained /\ helper = "none"
  /\ helper' \in {"holding", "apart"}
  /\ UNCHANGED <<workerVars, job, child, contained, code, left, outputVars, token,
                 why, power, snapshot>>

HelperEnds ==
  /\ helper # "none"
  /\ helper' = "none"
  /\ UNCHANGED <<workerVars, job, child, contained, code, left, outputVars, token,
                 why, power, snapshot>>

LeftDies ==
  /\ \E l \in left : left' = left \ {l}
  /\ UNCHANGED <<workerVars, job, child, contained, code, helper, outputVars, token,
                 why, power, snapshot>>

\* read_json_output: a status line is offered to the channel with try_send, so
\* a full channel drops it and the reader goes on.
ReadProgress(s) ==
  /\ reader[s] = "reading" /\ op = "Backup"
  /\ pending < MaxPendingProgress
  /\ pending' = pending + 1
  /\ UNCHANGED <<workerVars, processVars, reader, summary, written, token, why,
                 power, snapshot>>

PipeIsHeld == child \in {"running", "dying"} \/ helper \in {"holding", "dying"}

\* Mutant: the reader waits for room in the channel.
ReadEndWithRoom(s) ==
  /\ reader[s] = "reading"
  /\ ~PipeIsHeld
  /\ pending < MaxPendingProgress
  /\ reader' \in {[reader EXCEPT ![s] = r] : r \in {"ended", "flagged"}}
  /\ summary' \in IF s = "stdout" /\ written THEN {"read", "none"} ELSE {summary}
  /\ UNCHANGED <<workerVars, processVars, pending, written, token, why, power,
                 snapshot>>

\* The end of a pipe.  By then every line was parsed; the summary is the last
\* one of them, unless its line was oversized or garbled.
ReadEnd(s) ==
  /\ reader[s] = "reading"
  /\ ~PipeIsHeld
  /\ reader' \in {[reader EXCEPT ![s] = r] : r \in {"ended", "flagged"}}
  /\ summary' \in IF s = "stdout" /\ written THEN {"read", "none"} ELSE {summary}
  /\ UNCHANGED <<workerVars, processVars, pending, written, token, why, power,
                 snapshot>>

ReadError(s) ==
  /\ reader[s] = "reading"
  /\ reader' = [reader EXCEPT ![s] = "failed"]
  /\ UNCHANGED <<workerVars, processVars, pending, summary, written, token, why,
                 power, snapshot>>

\* The watchdog thread drops the request when its timeout passes.
PowerExpires ==
  /\ power = "held"
  /\ power' = "expired"
  /\ UNCHANGED <<workerVars, processVars, outputVars, token, why, snapshot>>

\* The service process ends: its handles close.  A job kills what it holds; a
\* restic that was not assigned yet is left running.
Crash ==
  /\ Quit
  /\ report' = NoReport
  /\ left' = left \cup IF child = "running" /\ ~contained THEN {"orphan"}
                       ELSE IF child \in {"running", "dying"} THEN {"dying"} ELSE {}
  /\ job' = FALSE
  /\ child' = "none"
  /\ contained' = FALSE
  /\ helper' = IF helper # "none" THEN "dying" ELSE helper
  /\ reader' = NoReaders
  /\ pending' = 0
  /\ summary' = "none"
  /\ written' = FALSE
  /\ why' = "none"
  /\ power' = "none"
  /\ code' = 0
  /\ token' = FALSE
  /\ snapshot' = FALSE

-----------------------------------------------------------------------------
Init ==
  /\ task = NoTask /\ op = "None" /\ pc = "idle" /\ token = FALSE
  /\ result = None /\ saved = None /\ pruneDue = FALSE /\ report = NoReport
  /\ job = FALSE /\ child = "none" /\ contained = FALSE /\ code = 0
  /\ helper = "none" /\ left = {}
  /\ reader = NoReaders /\ pending = 0 /\ summary = "none" /\ written = FALSE
  /\ why = "none" /\ power = "none" /\ snapshot = FALSE

Worker ==
  \/ Build \/ Acquire \/ Check \/ Spawn \/ Assign \/ Discard
  \/ PollExit \/ PollCancel \/ PollTimeout \/ Reaped \/ GiveUp \/ Join \/ Advance

Environment ==
  \/ Cancel \/ SaveSnapshot \/ WriteSummary \/ ChildExits \/ ChildDies
  \/ HelperStarts \/ HelperEnds \/ LeftDies \/ PowerExpires \/ Crash
  \/ \E s \in Streams : ReadProgress(s) \/ ReadEnd(s) \/ ReadError(s)

Next ==
  \/ \E k \in Kinds, m \in Modes : Start(k, m)
  \/ Worker \/ PollProgress \/ PollError
  \/ Environment

Spec == Init /\ [][Next]_vars

\* The worker thread and the reader threads run; a process told to terminate
\* dies; a helper does not outlive restic for ever.  restic itself may hang.
FairSpec ==
  /\ Spec
  /\ WF_vars(Worker)
  /\ WF_vars(ChildDies)
  /\ WF_vars(HelperEnds)
  /\ \A s \in Streams : WF_vars(ReadEnd(s))

-----------------------------------------------------------------------------
(* A backup is reported as kept, with or without warnings, only when the   *)
(* repository really holds a snapshot of this task: no early return,       *)
(* reader failure, termination or retention result turns into a success    *)
(* (finish_outcome, with_warning, finish_retention).                       *)
KeptMeansSnapshot == report.event = "Backup" /\ Kept(report) => snapshot

(* Once restic has saved the backup, what retention does afterwards (a     *)
(* failure, a timeout, a cancellation, a restic that cannot be killed) is  *)
(* reported as a warning at most, and does not replace a warning about the *)
(* backup itself (finish_retention, with_warning).                         *)
RetentionKeepsBackup ==
  [][saved # None /\ report' # NoReport =>
       Kept(report') /\ (saved.code # "none" => report'.code = saved.code)]_vars

(* restic runs a command that changes what a repository already holds only *)
(* in Standard mode, and removes snapshots only after it has saved one, no *)
(* matter what begin_retention saw of a configuration that changed since   *)
(* the worker cloned it (allowed_in, ResticCommandBuilder).                *)
DestructiveOnlyWhenAllowed ==
  /\ child # "none" /\ op \in {"Forget", "Prune", "Initialize"} => task.mode = "Standard"
  /\ child # "none" /\ op \in {"Forget", "Prune"} => snapshot

(* The system is kept awake while a restic of the task runs, for as long   *)
(* as the lease lasts, and no request outlives its invocation              *)
(* (TimedSystemPowerRequest, the _wake_lock of both execute functions).    *)
PowerFollowsRestic ==
  /\ child # "none" => power # "none"
  /\ pc \in {"idle", "build", "returned"} => power = "none"

(* A cancelled task ends even if restic ignores everything: the job is     *)
(* terminated, the readers reach the end of their pipes and are joined, or *)
(* the grace runs out (execute_invocation, terminate_process_tree).        *)
CancelEndsTask == (token /\ task # NoTask) ~> task = NoTask

(* A repository operation ends although nobody cancels it and restic hangs *)
(* (the timeout of execute_repository_invocation).                         *)
RepositoryTaskEnds == (task.kind \in {"Probe", "Initialize"}) ~> task = NoTask

-----------------------------------------------------------------------------
phaseBar ==
  IF task = NoTask THEN "idle"
  ELSE IF pc = "returned" /\ result = Failed("restic_termination_failed")
       THEN "abandoning" ELSE "working"

liveBar == child \in {"running", "dying"} \/ helper \in {"holding", "apart"}

Abstract == INSTANCE ResticTask WITH phase <- phaseBar, live <- liveBar

(* The executor keeps the promise of ResticTask: one restic at a time, no  *)
(* report while it lives, and no further restic once one was abandoned.    *)
ImplementsTask == Abstract!ASpec
=============================================================================
