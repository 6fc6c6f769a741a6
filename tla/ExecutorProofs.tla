---------------------------- MODULE ExecutorProofs ----------------------------
(***************************************************************************)
(* Proofs about the executor, for every length of the progress channel and *)
(* any number of tasks.  The invariant ties the worker's place to its      *)
(* process (where a restic may exist, and in which state), to the power    *)
(* request, to the operations of the task, and the outcomes to the         *)
(* snapshot.  It carries the step simulation of ResticTask.                *)
(***************************************************************************)
EXTENDS Executor, TLAPS

(* The provers that try a leaf which names none, in this order.            *)
USE SMT, Zenon, Z3T(30)

Starting == {"idle", "build", "acquire", "check", "spawn", "returned"}
Locations == Starting \cup {"assign", "discard", "poll", "reap", "join"}

(* Where the worker is decides what the process may be.                    *)
ProcessInv ==
    /\ pc \in Locations
    /\ child \in {"none", "running", "dying", "exited"}
    /\ helper \in {"none", "holding", "apart", "dying"}
    /\ pc \in Starting => child = "none" /\ ~contained
    /\ pc = "assign" => child \in {"running", "exited"} /\ ~contained
    /\ pc = "discard" => child \in {"dying", "exited"} /\ ~contained
    /\ pc = "poll" => child \in {"running", "exited"} /\ contained
    /\ pc = "reap" => child \in {"dying", "exited"} /\ ~job
    /\ pc = "join" => child = "exited"
    /\ pc \in {"spawn", "assign", "poll"} => job
    /\ helper \in {"holding", "apart"} => job /\ contained

(* The power request spans the invocation.                                 *)
PowerInv ==
    /\ pc \in {"idle", "build", "acquire", "returned"} => power = "none"
    /\ pc \notin {"idle", "build", "acquire", "returned"} => power # "none"

(* The operation belongs to the task and was allowed.                      *)
TaskInv ==
    /\ task = NoTask <=> pc = "idle"
    /\ op \in {"Unlock", "Backup", "Forget", "Prune"} => task.kind = "Backup"
    /\ op \in {"Probe", "Initialize"} => task.kind = op
    /\ op = "None" => task = NoTask
    /\ pc \notin {"idle", "build", "returned"} => AllowedIn(op, task.mode)

(* Outcomes and the snapshot.                                              *)
Honest(o) == o.kind = "Succeeded" => o.code = "none"

OutcomeInv ==
    /\ why \in {"none", "cancelled", "timed_out", "wait_failed"}
    /\ written => snapshot
    /\ summary = "read" => snapshot
    /\ pc \in Starting => ~written /\ summary # "read"
    /\ pc = "returned" => Honest(result)
    /\ pc = "returned" /\ Kept(result) =>
          op # "Unlock" \/ result.kind = "Succeeded"
    /\ pc = "returned" /\ op = "Backup" /\ Kept(result) => snapshot
    /\ op \in {"Forget", "Prune"} => snapshot /\ Kept(saved) /\ Honest(saved)
    /\ saved # None => op \in {"Forget", "Prune"}
    /\ task # NoTask => report = NoReport

ExecutorInv ==
    /\ ProcessInv /\ PowerInv /\ TaskInv /\ OutcomeInv
    /\ KeptMeansSnapshot

-----------------------------------------------------------------------------
(* The outcome records, by kind.                                           *)
LEMMA OutcomeShapes ==
    /\ ~Kept(Cancelled) /\ Honest(Cancelled) /\ ~Kept(None) /\ Kept(Succeeded) /\ Honest(Succeeded)
    /\ \A c : ~Kept(Failed(c)) /\ Honest(Failed(c)) /\ Kept(Warnings(c)) /\ Honest(Warnings(c))
    /\ \A c : Failed(c).kind = "Failed" /\ Failed(c).code = c
    /\ \A c : Warnings(c).kind = "SucceededWithWarnings" /\ Warnings(c).code = c
    /\ Cancelled.kind = "Cancelled" /\ Succeeded.kind = "Succeeded" /\ Succeeded.code = "none"
    /\ None.kind = "None"
BY DEF Kept, Honest, Cancelled, None, Succeeded, Failed, Warnings

(* What an invocation may return: a repository command never returns a     *)
(* warning, and a backup is kept only if its summary was read.             *)
LEMMA InvocationShapes ==
    /\ Honest(InvocationOutcome)
    /\ op # "Backup" => InvocationOutcome.kind \in {"Succeeded", "Cancelled", "Failed"}
    /\ op = "Backup" /\ Kept(InvocationOutcome)
          /\ why \in {"none", "cancelled", "timed_out", "wait_failed"} => summary = "read"
    /\ InvocationOutcome # Failed("restic_termination_failed")
<1>1. RepositoryOutcome \in {Cancelled, Succeeded, Failed("repository_operation_timed_out"),
         Failed("restic_wait_failed"), Failed("repository_operation_failed")}
  BY DEF RepositoryOutcome
<1>2. FinishOutcome \in {Cancelled, Succeeded, Failed("restic_output_invalid"),
         Failed("restic_exit"), Warnings("restic_vss_fallback"), Warnings("restic_partial_source")}
  BY DEF FinishOutcome
<1>3. Kept(FinishOutcome) => summary = "read"
  BY OutcomeShapes DEF FinishOutcome
<1>4. why = "timed_out" => RepositoryOutcome = Failed("repository_operation_timed_out")
  BY DEF RepositoryOutcome
<1>5. InvocationOutcome \in {Cancelled, Failed("restic_wait_failed"), FinishOutcome, RepositoryOutcome}
  BY DEF InvocationOutcome
<1>6. op # "Backup" => InvocationOutcome = RepositoryOutcome
  BY DEF InvocationOutcome
<1>7. op = "Backup" /\ why = "timed_out" => InvocationOutcome = RepositoryOutcome
  BY DEF InvocationOutcome
<1>8. op = "Backup" /\ why \in {"none", "cancelled", "wait_failed"}
      => InvocationOutcome \in {Cancelled, Failed("restic_wait_failed"), FinishOutcome}
  BY DEF InvocationOutcome
<1> HIDE DEF InvocationOutcome, RepositoryOutcome, FinishOutcome, Cancelled, Succeeded, Failed,
             Warnings, Kept, Honest
<1> QED
  BY <1>1, <1>2, <1>3, <1>4, <1>5, <1>6, <1>7, <1>8, OutcomeShapes

-----------------------------------------------------------------------------
(* The invariant is inductive                                              *)

(* Leaving an invocation with an outcome it may return.                    *)
Returnable(r) ==
    /\ Honest(r)
    /\ op # "Backup" => r.kind \in {"Succeeded", "Cancelled", "Failed"}
    /\ op = "Backup" /\ Kept(r) => snapshot

(* Dropping the locals of an invocation keeps the invariant.               *)
LEMMA ReturnInv ==
    ASSUME ExecutorInv, pc # "idle", NEW r, Returnable(r), Return(r)
    PROVE  ExecutorInv'
<1>1. ProcessInv'
  BY DEF ExecutorInv, ProcessInv, Return, Starting, Locations
<1>2. PowerInv'
  BY DEF Return, PowerInv
<1>3. TaskInv'
  BY DEF ExecutorInv, TaskInv, Return
<1>4. OutcomeInv'
  <2>1. /\ why' = "none" /\ written' = FALSE /\ summary' = "none" /\ result' = r /\ pc' = "returned"
        /\ UNCHANGED <<op, saved, snapshot, task, report>>
    BY DEF Return
  <2> QED
    BY <2>1 DEF ExecutorInv, OutcomeInv, Returnable, Kept
<1>5. KeptMeansSnapshot'
  BY DEF ExecutorInv, KeptMeansSnapshot, Return
<1> QED
  BY <1>1, <1>2, <1>3, <1>4, <1>5 DEF ExecutorInv

(* The outcomes of the early returns.                                      *)
LEMMA EarlyReturnable == Returnable(Cancelled) /\ \A c : Returnable(Failed(c))
BY OutcomeShapes DEF Returnable

(* From the start of a task to its restic.                                 *)
LEMMA LaunchInv ==
    ASSUME ExecutorInv,
           \/ \E k \in Kinds, m \in Modes : Start(k, m)
           \/ Build \/ Acquire \/ Check \/ Spawn \/ Assign \/ Discard
    PROVE  ExecutorInv'
<1> USE DEF ExecutorInv
<1>1. ASSUME NEW k \in Kinds, NEW m \in Modes, Start(k, m) PROVE ExecutorInv'
  <2>1. task' # NoTask /\ task'.kind = k /\ pc' = "build"
    BY <1>1 DEF Start, NoTask, Kinds
  <2>2. op' = IF k = "Backup" THEN "Unlock" ELSE k
    BY <1>1 DEF Start
  <2>3. pc = "idle" /\ task = NoTask /\ op \notin {"Forget", "Prune"}
    BY <1>1 DEF Start, TaskInv, NoTask
  <2>4. ProcessInv' /\ PowerInv'
    BY <1>1, <2>1, <2>3 DEF Start, ProcessInv, PowerInv, Starting, Locations, processVars
  <2>5. TaskInv'
    BY <2>1, <2>2 DEF TaskInv, Kinds
  <2>6. OutcomeInv'
    BY <1>1, <2>1, <2>2, <2>3 DEF Start, OutcomeInv, Kinds, Starting, outputVars
  <2>7. KeptMeansSnapshot'
    BY <1>1 DEF Start, KeptMeansSnapshot, NoReport
  <2> QED
    BY <2>4, <2>5, <2>6, <2>7
<1>2. CASE Build
  <2>1. ProcessInv' /\ PowerInv' /\ TaskInv' /\ KeptMeansSnapshot'
    BY <1>2 DEF Build, ProcessInv, PowerInv, TaskInv, KeptMeansSnapshot, Starting, Locations,
                processVars
  <2>2. OutcomeInv'
    BY <1>2, OutcomeShapes DEF Build, OutcomeInv, Starting, outputVars
  <2> QED
    BY <2>1, <2>2
<1>3. CASE Acquire
  <2>1. CASE \E c : ReturnEarly(Failed(c))
    BY <1>3, <2>1, ReturnInv, EarlyReturnable DEF Acquire, ReturnEarly
  <2>2. CASE power' = "held" /\ pc' = "check" /\ UNCHANGED <<task, op, result, saved, pruneDue,
               report, processVars, outputVars, token, why, snapshot>>
    BY <1>3, <2>2 DEF Acquire, ProcessInv, PowerInv, TaskInv, OutcomeInv, KeptMeansSnapshot,
                      Starting, Locations, processVars, outputVars
  <2> QED
    BY <1>3, <2>1, <2>2 DEF Acquire
<1>4. CASE Check
  <2>1. CASE ReturnEarly(Cancelled) \/ \E c : ReturnEarly(Failed(c))
    BY <1>4, <2>1, ReturnInv, EarlyReturnable DEF Check, ReturnEarly
  <2>2. CASE pc' = "spawn" /\ job' = TRUE /\ UNCHANGED <<task, op, result, saved, pruneDue, report,
               child, contained, code, helper, left, outputVars, token, why, power, snapshot>>
    BY <1>4, <2>2 DEF Check, ProcessInv, PowerInv, TaskInv, OutcomeInv, KeptMeansSnapshot,
                      Starting, Locations, outputVars
  <2> QED
    BY <1>4, <2>1, <2>2, ZenonT(30) DEF Check
<1>5. CASE Spawn
  <2>1. CASE \E c : ReturnEarly(Failed(c))
    BY <1>5, <2>1, ReturnInv, EarlyReturnable DEF Spawn, ReturnEarly
  <2>2. CASE pc' = "assign" /\ child' = "running" /\ UNCHANGED <<task, op, result, saved, pruneDue,
               report, job, contained, code, helper, left, outputVars, token, why, power, snapshot>>
    BY <1>5, <2>2 DEF Spawn, ProcessInv, PowerInv, TaskInv, OutcomeInv, KeptMeansSnapshot,
                      Starting, Locations, outputVars
  <2> QED
    BY <1>5, <2>1, <2>2 DEF Spawn
<1>6. CASE Assign
  BY <1>6 DEF Assign, ProcessInv, PowerInv, TaskInv, OutcomeInv, KeptMeansSnapshot, Starting,
              Locations
<1>7. CASE Discard
  BY <1>7, ReturnInv, EarlyReturnable DEF Discard, ReturnEarly
<1> QED
  BY <1>1, <1>2, <1>3, <1>4, <1>5, <1>6, <1>7

(* Polling, terminating and joining.                                       *)
LEMMA PollInv ==
    ASSUME ExecutorInv,
           \/ PollProgress \/ PollExit \/ PollCancel \/ PollTimeout \/ PollError
           \/ Reaped \/ GiveUp \/ Join
    PROVE  ExecutorInv'
<1> USE DEF ExecutorInv
<1>1. CASE PollProgress
  BY <1>1 DEF PollProgress, ProcessInv, PowerInv, TaskInv, OutcomeInv, KeptMeansSnapshot,
              workerVars, processVars
<1>2. CASE PollExit \/ Reaped
  BY <1>2 DEF PollExit, Reaped, ProcessInv, PowerInv, TaskInv, OutcomeInv, KeptMeansSnapshot,
              Starting, Locations, processVars, outputVars
<1>3. ASSUME NEW reason \in {"cancelled", "timed_out", "wait_failed"}, pc = "poll", Terminate(reason)
      PROVE  ExecutorInv'
  <2>1. ProcessInv'
    BY <1>3 DEF Terminate, ProcessInv, Starting, Locations
  <2>2. PowerInv' /\ TaskInv' /\ OutcomeInv' /\ KeptMeansSnapshot'
    BY <1>3 DEF Terminate, PowerInv, TaskInv, OutcomeInv, KeptMeansSnapshot, Starting, outputVars
  <2> QED
    BY <2>1, <2>2
<1>4. CASE PollCancel \/ PollTimeout \/ PollError
  BY <1>3, <1>4 DEF PollCancel, PollTimeout, PollError
<1>5. CASE GiveUp
  BY <1>5, ReturnInv, EarlyReturnable DEF GiveUp
<1>6. CASE Join
  <2>1. Returnable(InvocationOutcome)
    BY InvocationShapes DEF Returnable, OutcomeInv
  <2> HIDE DEF InvocationOutcome
  <2> QED
    BY <1>6, <2>1, ReturnInv DEF Join, ReturnEarly
<1> QED
  BY <1>1, <1>2, <1>4, <1>5, <1>6

(* A report that says no more than the snapshot allows.                    *)
LEMMA FinishInv ==
    ASSUME ExecutorInv, pc = "returned", NEW o, Finish(o),
           task.kind = "Backup" /\ Kept(o) => snapshot,
           UNCHANGED <<processVars, outputVars, token, why, power, snapshot>>
    PROVE  ExecutorInv'
<1> USE DEF ExecutorInv
<1>1. task' = NoTask /\ pc' = "idle" /\ op' = "None" /\ saved' = None
      /\ report' = [event |-> task.kind, kind |-> o.kind, code |-> o.code]
  BY DEF Finish, Quit
<1>2. ProcessInv' /\ PowerInv'
  BY <1>1 DEF ProcessInv, PowerInv, Starting, Locations, processVars
<1>3. TaskInv'
  BY <1>1 DEF TaskInv
<1>4. OutcomeInv'
  BY <1>1 DEF OutcomeInv, Starting, outputVars
<1>5. KeptMeansSnapshot'
  BY <1>1 DEF KeptMeansSnapshot, Kept
<1> QED
  BY <1>2, <1>3, <1>4, <1>5

(* A warning on a kept backup leaves it kept, and its first warning.       *)
LEMMA WarningKept ==
    ASSUME NEW o, Kept(o), Honest(o), NEW c
    PROVE  Kept(WithWarning(o, c)) /\ (o.code # "none" => WithWarning(o, c) = o)
BY OutcomeShapes DEF WithWarning, Kept, Honest

(* The worker goes on to the next command of its task, or reports.         *)
LEMMA AdvanceInv == ASSUME ExecutorInv, Advance PROVE ExecutorInv'
<1> USE DEF ExecutorInv
<1>0. pc = "returned" /\ UNCHANGED <<processVars, outputVars, token, why, power, snapshot>>
  BY DEF Advance
<1>1. ASSUME NEW o \in {"Backup", "Forget", "Prune"}, Continue(o), task.kind = "Backup",
             \/ o = "Backup" /\ saved' = saved /\ op = "Unlock"
             \/ o # "Backup" /\ snapshot /\ Kept(saved') /\ Honest(saved')
      PROVE  ExecutorInv'
  <2>1. pc' = "build" /\ op' = o /\ UNCHANGED <<task, result, report>>
    BY <1>1 DEF Continue
  <2>2. ProcessInv' /\ PowerInv' /\ TaskInv' /\ KeptMeansSnapshot'
    BY <1>0, <1>1, <2>1 DEF ProcessInv, PowerInv, TaskInv, KeptMeansSnapshot, Starting, Locations,
                            processVars
  <2>3. OutcomeInv'
    BY <1>0, <1>1, <2>1 DEF OutcomeInv, Starting, outputVars
  <2> QED
    BY <2>2, <2>3
<1>2. CASE AfterUnlock
  BY <1>0, <1>1, <1>2, FinishInv DEF AfterUnlock, TaskInv, OutcomeInv
<1>3. CASE AfterBackup
  <2>1. ASSUME Kept(result), saved' = result, Continue("Forget") PROVE ExecutorInv'
    BY <1>0, <1>1, <1>3, <2>1 DEF AfterBackup, TaskInv, OutcomeInv
  <2>2. ASSUME Finish(result) PROVE ExecutorInv'
    BY <1>0, <1>3, <2>2, FinishInv DEF AfterBackup, OutcomeInv
  <2> QED
    BY <1>3, <2>1, <2>2 DEF AfterBackup
<1>4. CASE op \in {"Forget", "Prune"} /\ FinishRetention
  <2>1. snapshot /\ Kept(saved) /\ Honest(saved)
    BY <1>4 DEF OutcomeInv
  <2> QED
    BY <1>0, <1>4, <2>1, FinishInv DEF FinishRetention
<1>5. CASE AfterForget
  <2>1. ASSUME Continue("Prune"), UNCHANGED saved PROVE ExecutorInv'
    BY <1>1, <1>5, <2>1 DEF AfterForget, TaskInv, OutcomeInv
  <2> QED
    BY <1>4, <1>5, <2>1 DEF AfterForget
<1>6. CASE AfterPrune
  BY <1>4, <1>6 DEF AfterPrune
<1>7. CASE AfterOperation
  BY <1>0, <1>7, FinishInv DEF AfterOperation, TaskInv
<1> QED
  BY <1>2, <1>3, <1>5, <1>6, <1>7 DEF Advance

(* restic, its helpers, the pipes, the lease and crashes.                  *)
LEMMA EnvironmentInv == ASSUME ExecutorInv, Environment PROVE ExecutorInv'
<1> USE DEF ExecutorInv
<1>1. CASE Cancel \/ PowerExpires
  BY <1>1 DEF Cancel, PowerExpires, ProcessInv, PowerInv, TaskInv, OutcomeInv, KeptMeansSnapshot,
              workerVars, processVars, outputVars
<1>2. CASE SaveSnapshot \/ WriteSummary
  BY <1>2 DEF SaveSnapshot, WriteSummary, ProcessInv, PowerInv, TaskInv, OutcomeInv,
              KeptMeansSnapshot, Starting, workerVars, processVars, outputVars
<1>3. CASE ChildExits \/ ChildDies
  BY <1>3 DEF ChildExits, ChildDies, ProcessInv, PowerInv, TaskInv, OutcomeInv, KeptMeansSnapshot,
              Starting, Locations, workerVars, outputVars
<1>4. CASE HelperStarts \/ HelperEnds \/ LeftDies
  <2>1. UNCHANGED <<workerVars, job, child, contained, outputVars, why, power, snapshot>>
    BY <1>4 DEF HelperStarts, HelperEnds, LeftDies
  <2>2. ProcessInv'
    BY <1>4, <2>1 DEF HelperStarts, HelperEnds, LeftDies, ProcessInv, Starting, Locations, workerVars
  <2> QED
    BY <2>1, <2>2 DEF PowerInv, TaskInv, OutcomeInv, KeptMeansSnapshot, workerVars, outputVars
<1>5. ASSUME NEW s \in Streams, ReadProgress(s) \/ ReadEnd(s) \/ ReadError(s) PROVE ExecutorInv'
  <2>1. UNCHANGED <<workerVars, processVars, written, why, power, snapshot>>
    BY <1>5 DEF ReadProgress, ReadEnd, ReadError
  <2>2. summary' = summary \/ written
    BY <1>5 DEF ReadProgress, ReadEnd, ReadError
  <2>3. ProcessInv' /\ PowerInv' /\ TaskInv' /\ KeptMeansSnapshot'
    BY <2>1 DEF ProcessInv, PowerInv, TaskInv, KeptMeansSnapshot, workerVars, processVars
  <2>4. OutcomeInv'
    BY <2>1, <2>2 DEF OutcomeInv, workerVars
  <2> QED
    BY <2>3, <2>4
<1>6. CASE Crash
  <2>1. task' = NoTask /\ pc' = "idle" /\ op' = "None" /\ saved' = None /\ report' = NoReport
    BY <1>6 DEF Crash, Quit
  <2>2. ProcessInv'
    BY <1>6, <2>1 DEF Crash, ProcessInv, Starting, Locations
  <2>3. PowerInv' /\ TaskInv' /\ OutcomeInv' /\ KeptMeansSnapshot'
    BY <1>6, <2>1 DEF Crash, PowerInv, TaskInv, OutcomeInv, KeptMeansSnapshot, NoReport, Starting
  <2> QED
    BY <2>2, <2>3
<1> QED
  BY <1>1, <1>2, <1>3, <1>4, <1>5, <1>6 DEF Environment

(* The invariant holds in every state.                                     *)
LEMMA ExecutorInvariant == Spec => []ExecutorInv
<1>1. Init => ExecutorInv
  BY DEF Init, ExecutorInv, ProcessInv, PowerInv, TaskInv, OutcomeInv, KeptMeansSnapshot,
         NoReport, Starting, Locations, Honest, Kept, None, NoTask
<1>2. ExecutorInv /\ [Next]_vars => ExecutorInv'
  <2> SUFFICES ASSUME ExecutorInv, [Next]_vars PROVE ExecutorInv'
    OBVIOUS
  <2>1. CASE UNCHANGED vars
    BY <2>1 DEF vars, ExecutorInv, ProcessInv, PowerInv, TaskInv, OutcomeInv, KeptMeansSnapshot,
                workerVars, processVars, outputVars
  <2> QED
    BY <2>1, LaunchInv, PollInv, AdvanceInv, EnvironmentInv DEF Next, Worker
<1> QED
  BY <1>1, <1>2, PTL DEF Spec

-----------------------------------------------------------------------------
(* The properties                                                          *)

(* A backup is reported as kept only when the repository holds a snapshot  *)
(* of it, whatever failed on the way.                                      *)
THEOREM KeptCorrect == Spec => []KeptMeansSnapshot
<1>1. ExecutorInv => KeptMeansSnapshot
  BY DEF ExecutorInv
<1> QED
  BY <1>1, ExecutorInvariant, PTL

(* restic changes what a repository holds only in Standard mode, and       *)
(* removes snapshots only once the task has saved one.                     *)
THEOREM DestructiveCorrect == Spec => []DestructiveOnlyWhenAllowed
<1>1. ExecutorInv => DestructiveOnlyWhenAllowed
  BY DEF ExecutorInv, ProcessInv, TaskInv, OutcomeInv, DestructiveOnlyWhenAllowed, AllowedIn,
         Starting, Locations
<1> QED
  BY <1>1, ExecutorInvariant, PTL

(* A power request is held while restic runs and never longer than its     *)
(* invocation.                                                             *)
THEOREM PowerCorrect == Spec => []PowerFollowsRestic
<1>1. ExecutorInv => PowerFollowsRestic
  BY DEF ExecutorInv, ProcessInv, PowerInv, PowerFollowsRestic, Starting, Locations
<1> QED
  BY <1>1, ExecutorInvariant, PTL

(* Retention never turns a kept backup into a failed one, and never hides  *)
(* a warning about it.                                                     *)
THEOREM RetentionCorrect == Spec => RetentionKeepsBackup
<1> DEFINE Step == saved # None /\ report' # NoReport =>
                       Kept(report') /\ (saved.code # "none" => report'.code = saved.code)
<1>1. ExecutorInv /\ [Next]_vars => [Step]_vars
  <2> SUFFICES ASSUME ExecutorInv, Next, saved # None, report' # NoReport
               PROVE  Kept(report') /\ (saved.code # "none" => report'.code = saved.code)
    OBVIOUS
  <2>1. /\ op \in {"Forget", "Prune"} /\ Kept(saved) /\ Honest(saved) /\ report = NoReport
    BY DEF ExecutorInv, OutcomeInv, TaskInv, NoTask
  <2>2. ASSUME NEW o, Kept(o), saved.code # "none" => o = saved, Finish(o)
        PROVE  Kept(report') /\ (saved.code # "none" => report'.code = saved.code)
    BY <2>2 DEF Finish, Kept
  <2>3. CASE Advance
    <3>1. FinishRetention
      BY <2>1, <2>3 DEF Advance, AfterUnlock, AfterBackup, AfterForget, AfterPrune, AfterOperation,
                        Continue
    <3> QED
      BY <2>1, <2>2, <3>1, WarningKept DEF FinishRetention
  <2>4. CASE ~Advance
    <3>1. report' \in {report, NoReport}
      BY <2>4, Zenon
         DEF Next, Worker, Environment, Start, Build, Acquire, Check, Spawn, Assign, Discard,
             PollProgress, PollExit, PollCancel, PollTimeout, PollError, Terminate, Reaped, GiveUp,
             Join, ReturnEarly, Return, Cancel, SaveSnapshot, WriteSummary, ChildExits, ChildDies,
             HelperStarts, HelperEnds, LeftDies, PowerExpires, Crash, ReadProgress, ReadEnd,
             ReadError, workerVars
    <3> QED
      BY <2>1, <3>1
  <2> QED
    BY <2>3, <2>4
<1> QED
  BY <1>1, ExecutorInvariant, PTL DEF Spec, RetentionKeepsBackup

-----------------------------------------------------------------------------
(* The refinement of ResticTask                                            *)

(* Phases of the abstract task, by where the worker is.                    *)
LEMMA Phases ==
    ASSUME ExecutorInv
    PROVE  /\ phaseBar = "idle" <=> pc = "idle"
           /\ pc \notin {"idle", "returned"} => phaseBar = "working"
           /\ pc = "returned" =>
                phaseBar = IF result = Failed("restic_termination_failed") THEN "abandoning" ELSE "working"
BY DEF ExecutorInv, TaskInv, phaseBar

(* Leaving an invocation: its restic has ended, or is abandoned.           *)
LEMMA ReturnRefines ==
    ASSUME ExecutorInv, ExecutorInv', pc \notin {"idle", "returned"}, NEW r, Return(r),
           r # Failed("restic_termination_failed"), left' = left
    PROVE  [Abstract!ANext]_(Abstract!avars)
<1>1. phaseBar = "working" /\ phaseBar' = "working"
  BY Phases DEF Return, phaseBar, ExecutorInv, TaskInv
<1>2. liveBar' = FALSE
  BY DEF Return, liveBar, ExecutorInv, ProcessInv
<1>3. liveBar \in BOOLEAN
  BY DEF liveBar
<1> QED
  BY <1>1, <1>2, <1>3, Zenon DEF Abstract!ANext, Abstract!End, Abstract!avars

(* A step that stays in its phase and starts no restic.                    *)
LEMMA QuietRefines ==
    ASSUME ExecutorInv, UNCHANGED <<phaseBar, left>>, liveBar' => liveBar
    PROVE  [Abstract!ANext]_(Abstract!avars)
<1>1. liveBar \in BOOLEAN /\ liveBar' \in BOOLEAN
  BY DEF liveBar
<1> QED
  BY <1>1 DEF Abstract!ANext, Abstract!End, Abstract!avars

(* Every step of the worker is a step of the abstract task or a stutter.   *)
LEMMA WorkerRefines ==
    ASSUME ExecutorInv, ExecutorInv',
           (\E k \in Kinds, m \in Modes : Start(k, m)) \/ Worker \/ PollProgress \/ PollError
    PROVE  [Abstract!ANext]_(Abstract!avars)
<1>1. ASSUME NEW k \in Kinds, NEW m \in Modes, Start(k, m)
      PROVE  [Abstract!ANext]_(Abstract!avars)
  <2>1. phaseBar = "idle" /\ phaseBar' = "working"
    BY <1>1 DEF Start, phaseBar, NoTask, Kinds
  <2>2. UNCHANGED <<liveBar, left>>
    BY <1>1 DEF Start, liveBar, processVars
  <2> QED
    BY <2>1, <2>2 DEF Abstract!ANext, Abstract!Begin
<1>2. \A c : Failed(c) = Failed("restic_termination_failed") => c = "restic_termination_failed"
  BY OutcomeShapes
<1>3. Cancelled # Failed("restic_termination_failed")
  BY OutcomeShapes
<1>4. CASE Build
  <2>1. UNCHANGED <<phaseBar, left, liveBar>>
    BY <1>2, <1>4 DEF Build, phaseBar, liveBar, processVars
  <2> QED
    BY <2>1, QuietRefines
<1>5. CASE Acquire
  <2>1. CASE power' = "held" /\ pc' = "check" /\ UNCHANGED <<task, processVars>>
    <3>1. UNCHANGED <<phaseBar, left, liveBar>>
      BY <1>5, <2>1 DEF Acquire, phaseBar, liveBar, processVars
    <3> QED
      BY <3>1, QuietRefines
  <2> QED
    BY <1>2, <1>5, <2>1, ReturnRefines DEF Acquire, ReturnEarly
<1>6. CASE Check
  <2>1. CASE pc' = "spawn" /\ UNCHANGED <<task, child, helper, left>>
    <3>1. UNCHANGED <<phaseBar, left, liveBar>>
      BY <1>6, <2>1 DEF Check, phaseBar, liveBar
    <3> QED
      BY <3>1, QuietRefines
  <2> QED
    BY <1>2, <1>3, <1>6, <2>1, ReturnRefines DEF Check, ReturnEarly
<1>7. CASE Spawn
  <2>1. CASE pc' = "assign" /\ child' = "running" /\ UNCHANGED <<task, helper, left>>
    <3>1. phaseBar = "working" /\ phaseBar' = "working"
      BY <1>7, <2>1, Phases DEF Spawn, phaseBar
    <3>2. liveBar = FALSE /\ liveBar' = TRUE
      BY <1>7, <2>1 DEF Spawn, liveBar, ExecutorInv, ProcessInv, Starting
    <3> QED
      BY <2>1, <3>1, <3>2 DEF Abstract!ANext, Abstract!Launch
  <2> QED
    BY <1>2, <1>7, <2>1, ReturnRefines DEF Spawn, ReturnEarly
<1>8. CASE Assign
  <2>1. UNCHANGED <<phaseBar, left>> /\ (liveBar' => liveBar)
    BY <1>8 DEF Assign, phaseBar, liveBar
  <2> QED
    BY <2>1, QuietRefines
<1>9. CASE Discard
  BY <1>2, <1>9, ReturnRefines DEF Discard, ReturnEarly
<1>10. CASE PollProgress \/ PollExit \/ Reaped
  <2>1. UNCHANGED <<phaseBar, left, liveBar>>
    BY <1>10 DEF PollProgress, PollExit, Reaped, phaseBar, liveBar, workerVars, processVars
  <2> QED
    BY <2>1, QuietRefines
<1>11. CASE PollCancel \/ PollTimeout \/ PollError
  <2>1. UNCHANGED <<phaseBar, left>> /\ (liveBar' => liveBar)
    BY <1>11 DEF PollCancel, PollTimeout, PollError, Terminate, phaseBar, liveBar
  <2> QED
    BY <2>1, QuietRefines
<1>12. CASE GiveUp
  <2>1. phaseBar = "working" /\ phaseBar' = "abandoning"
    <3>1. phaseBar = "working"
      BY <1>12, Phases DEF GiveUp
    <3>2. pc' = "returned" /\ result' = Failed("restic_termination_failed") /\ task' # NoTask
      BY <1>12 DEF GiveUp, Return, ExecutorInv, TaskInv
    <3> QED
      BY <3>1, <3>2 DEF phaseBar
  <2>2. liveBar' = FALSE /\ left' = IF liveBar THEN left \cup {"dying"} ELSE left
    BY <1>12 DEF GiveUp, Return, liveBar, ExecutorInv, ProcessInv
  <2> QED
    BY <2>1, <2>2 DEF Abstract!ANext, Abstract!Abandon
<1>13. CASE Join
  <2>1. InvocationOutcome # Failed("restic_termination_failed")
    BY InvocationShapes
  <2> HIDE DEF InvocationOutcome
  <2> QED
    BY <1>13, <2>1, ReturnRefines DEF Join, ReturnEarly
<1>14. CASE Advance
  <2>1. pc = "returned" /\ UNCHANGED <<processVars>>
    BY <1>14 DEF Advance
  <2>2. liveBar = FALSE /\ liveBar' = FALSE /\ left' = left
    BY <2>1 DEF liveBar, processVars, ExecutorInv, ProcessInv, Starting
  <2>3. CASE \E o : Finish(o)
    <3>1. phaseBar # "idle" /\ phaseBar' = "idle"
      BY <2>1, <2>3, Phases DEF Finish, Quit, phaseBar
    <3> QED
      BY <2>2, <3>1, Zenon DEF Abstract!ANext, Abstract!Report
  <2>4. CASE (\E o : Continue(o)) /\ Kept(result)
    <3>1. phaseBar = "working" /\ phaseBar' = "working"
      BY <2>1, <2>4, Phases, OutcomeShapes DEF Continue, phaseBar
    <3> QED
      BY <2>2, <3>1, QuietRefines
  <2> QED
    BY <1>14, <2>3, <2>4 DEF Advance, AfterUnlock, AfterBackup, AfterForget, AfterPrune,
           AfterOperation, FinishRetention, Kept
<1> QED
  BY <1>1, <1>4, <1>5, <1>6, <1>7, <1>8, <1>9, <1>10, <1>11, <1>12, <1>13, <1>14 DEF Worker

(* So is every step of the environment.                                    *)
LEMMA EnvironmentRefines ==
    ASSUME ExecutorInv, Environment
    PROVE  [Abstract!ANext]_(Abstract!avars)
<1>1. CASE Cancel \/ SaveSnapshot \/ WriteSummary \/ PowerExpires
           \/ \E s \in Streams : ReadProgress(s) \/ ReadEnd(s) \/ ReadError(s)
  <2>1. UNCHANGED <<phaseBar, left, liveBar>>
    BY <1>1 DEF Cancel, SaveSnapshot, WriteSummary, PowerExpires, ReadProgress, ReadEnd, ReadError,
                phaseBar, liveBar, workerVars, processVars
  <2> QED
    BY <2>1, QuietRefines
<1>2. CASE ChildExits \/ ChildDies \/ HelperStarts \/ HelperEnds
  <2>1. UNCHANGED <<phaseBar, left>> /\ (liveBar' => liveBar)
    BY <1>2 DEF ChildExits, ChildDies, HelperStarts, HelperEnds, phaseBar, liveBar, workerVars
  <2> QED
    BY <2>1, QuietRefines
<1>3. CASE LeftDies
  <2>1. UNCHANGED <<phaseBar, liveBar>>
    BY <1>3 DEF LeftDies, phaseBar, liveBar, workerVars
  <2> QED
    BY <1>3, <2>1 DEF LeftDies, Abstract!ANext, Abstract!LeftDies
<1>4. CASE Crash
  <2>1. phaseBar' = "idle" /\ liveBar' = FALSE
    BY <1>4 DEF Crash, Quit, phaseBar, liveBar, ExecutorInv, ProcessInv
  <2>2. \/ left' = left
        \/ liveBar /\ \E l \in {"dying", "orphan"} : left' = left \cup {l}
    BY <1>4 DEF Crash, liveBar
  <2> QED
    BY <2>1, <2>2 DEF Abstract!ANext, Abstract!Stop
<1> QED
  BY <1>1, <1>2, <1>3, <1>4 DEF Environment

(* The executor implements ResticTask: one restic at a time, no report     *)
(* while it lives, and no further restic once one had to be abandoned.     *)
THEOREM Refinement == Spec => ImplementsTask
<1>1. Init => Abstract!AInit
  BY DEF Init, Abstract!AInit, phaseBar, liveBar
<1>2. ExecutorInv /\ ExecutorInv' /\ [Next]_vars => [Abstract!ANext]_(Abstract!avars)
  <2> SUFFICES ASSUME ExecutorInv, ExecutorInv', [Next]_vars
               PROVE  [Abstract!ANext]_(Abstract!avars)
    OBVIOUS
  <2>1. CASE UNCHANGED vars
    <3>1. UNCHANGED <<phaseBar, left, liveBar>>
      BY <2>1 DEF vars, workerVars, processVars, phaseBar, liveBar
    <3> QED
      BY <3>1, QuietRefines
  <2> QED
    BY <2>1, WorkerRefines, EnvironmentRefines DEF Next
<1> QED
  BY <1>1, <1>2, ExecutorInvariant, PTL DEF Spec, ImplementsTask, Abstract!ASpec

=============================================================================
