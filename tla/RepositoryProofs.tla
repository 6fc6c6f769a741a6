-------------------------- MODULE RepositoryProofs --------------------------
(***************************************************************************)
(* The repository that ServiceRuntime works on: what is recorded as        *)
(* verified, which repository a running restic uses, and what excludes an  *)
(* update, for every set of repositories, policies, requests and workers.  *)
(*                                                                         *)
(* The order of the module is that of the argument: where a repository     *)
(* operation and the configuration it marks meet (OperationOnConfig), how  *)
(* a record is earned (StatesEarned), where an installation is             *)
(* (UpdateInOnePlace), what a running backup excludes (BackupSettled), and *)
(* how long the status is Running (RunningSettled).  What rests on the     *)
(* last two assumes that no client asks to unenroll: unenroll checks that  *)
(* the service is idle, gives up the mutex, and changes the repository     *)
(* without looking again.                                                  *)
(***************************************************************************)
EXTENDS ServiceRuntimeProofs

(* The provers that try a leaf which names none, in this order.            *)
USE SMT, Zenon, Z3T(30)

-----------------------------------------------------------------------------
(* The operation and the configuration it is marked for                    *)

(* A report that restic accepted the repository waits in the channel.      *)
Accepted(events) ==
    \E i \in 1..Len(events) :
        events[i].type = "RepositoryOperationFinished" /\ events[i].result = "ok"

(* The configuration keeps its repository as long as an operation is       *)
(* anywhere, so that the one its worker used is the one that is marked.    *)
(* An unenrollment, which may move it, begins when no operation runs and   *)
(* keeps the IPC thread from beginning one.                                *)
OperationOnConfig ==
    /\ \A w \in Workers :
         worker[w].task = "repository" => worker[w].repository \in {Absent, Identity(config)}
    /\ Accepted(queue) => Identity(config) \in probed
    /\ loop.pc = "finishRepository" =>
         /\ Identity(loop.config) = Identity(config)
         /\ loop.result = "ok" => Identity(config) \in probed
    /\ ipc.pc \in {"unenroll", "unenrolled"} => ~OperationRunning

(* Sending, receiving and the empty channel.                               *)
LEMMA AcceptedChannel ==
    ASSUME NEW q \in Seq(RuntimeEvents), NEW e \in RuntimeEvents
    PROVE  /\ Accepted(Append(q, e)) =>
                Accepted(q) \/ (e.type = "RepositoryOperationFinished" /\ e.result = "ok")
           /\ q # <<>> /\ Accepted(Tail(q)) => Accepted(q)
           /\ q # <<>> /\ Head(q).type = "RepositoryOperationFinished" /\ Head(q).result = "ok"
                => Accepted(q)
           /\ Accepted(q) => Holds(q, "RepositoryOperationFinished")
<1>1. /\ Len(Append(q, e)) = Len(q) + 1 /\ Len(q) \in Nat
      /\ \A i \in 1..Len(q) : Append(q, e)[i] = q[i]
      /\ Append(q, e)[Len(q) + 1] = e
  OBVIOUS
<1>2. Accepted(Append(q, e)) =>
         Accepted(q) \/ (e.type = "RepositoryOperationFinished" /\ e.result = "ok")
  BY <1>1 DEF Accepted
<1>3. q # <<>> => /\ Len(Tail(q)) = Len(q) - 1 /\ Len(q) \in Nat \ {0}
                  /\ \A i \in 1..Len(q) - 1 : Tail(q)[i] = q[i + 1]
                  /\ Head(q) = q[1]
  OBVIOUS
<1>4. q # <<>> /\ Accepted(Tail(q)) => Accepted(q)
  BY <1>3 DEF Accepted
<1>5. /\ q # <<>> /\ Head(q).type = "RepositoryOperationFinished" /\ Head(q).result = "ok"
           => Accepted(q)
      /\ Accepted(q) => Holds(q, "RepositoryOperationFinished")
  BY <1>3 DEF Accepted, Holds
<1> QED
  BY <1>2, <1>4, <1>5

(* What a step that leaves the repository of the configuration alone must  *)
(* leave alone besides.                                                    *)
LEMMA OperationFrame ==
    ASSUME OperationOnConfig,
           Identity(config') = Identity(config), probed' = probed,
           Accepted(queue') => Accepted(queue),
           \A w \in Workers : worker'[w].task = "repository" =>
               \/ worker'[w].repository \in {Absent, Identity(config)}
               \/ /\ worker[w].task = "repository"
                  /\ worker'[w].repository = worker[w].repository,
           loop'.pc = "finishRepository" => loop' = loop,
           OperationRunning' => OperationRunning \/ ipc'.pc = "idle",
           ipc'.pc \in {"unenroll", "unenrolled"} =>
               ipc.pc \in {"unenroll", "unenrolled"} \/ ~OperationRunning
    PROVE  OperationOnConfig'
BY DEF OperationOnConfig

(* A repository that changes while no operation runs.                      *)
LEMMA OperationAbsent ==
    ASSUME TypeOK, ResticExclusion, ~OperationRunning, ~OperationRunning',
           UNCHANGED <<queue, worker, loop>>
    PROVE  OperationOnConfig'
<1>1. queue \in Seq(RuntimeEvents)
  BY DEF TypeOK
<1>2. /\ Task("repository") = {}
      /\ ~Holds(queue, "RepositoryOperationFinished")
      /\ loop.pc # "finishRepository"
  BY DEF ResticExclusion, OperationInOnePlace
<1>3. ~Accepted(queue)
  BY <1>1, <1>2 DEF Accepted, Holds
<1> QED
  BY <1>2, <1>3 DEF OperationOnConfig, Task

(* A process that just started or ended has no operation.                  *)
LEMMA OperationNowhere ==
    ASSUME queue' = <<>>, ipc'.pc = "idle", loop'.pc # "finishRepository",
           \A w \in Workers : worker'[w].task = "none"
    PROVE  OperationOnConfig'
<1>1. ~Accepted(<<>>)
  BY DEF Accepted
<1> QED
  BY <1>1 DEF OperationOnConfig

LEMMA OperationOnConfigInit == Init => OperationOnConfig
<1>1. ~Accepted(<<>>)
  BY DEF Accepted
<1> QED
  BY <1>1 DEF Init, OperationOnConfig, NoTask, LoopIdle, IpcIdle

(* Every step keeps the operation on the configuration it began with.      *)
LEMMA OperationOnConfigStep ==
    TypeOK /\ ResticExclusion /\ OperationOnConfig /\ [Next]_vars => OperationOnConfig'
<1> SUFFICES ASSUME TypeOK, ResticExclusion, OperationOnConfig, [Next]_vars
             PROVE  OperationOnConfig'
  OBVIOUS
<1> USE DEF configVars, activeVars, loopVars
<1>a. /\ runtime \in RuntimeStates
      /\ config \in Configs
      /\ queue \in Seq(RuntimeEvents)
      /\ loop \in LoopStates
      /\ ipc \in IpcStates
      /\ worker \in [Workers -> WorkerStates]
  BY DEF TypeOK
<1>1. CASE Start
  BY <1>1, OperationNowhere DEF Start, ResticExclusion, Task, LoopIdle
<1>2. CASE Crash \/ Exit
  BY <1>2, OperationNowhere DEF Crash, Exit, Terminate, LoopIdle, IpcIdle, NoTask
<1>3. CASE /\ UNCHANGED <<config, probed, queue, worker>>
           /\ loop'.pc = "finishRepository" => loop' = loop
           /\ ipc' = ipc \/ ipc'.pc \notin {"unenroll", "unenrolled"}
           /\ runtime'.repository_operation = runtime.repository_operation
  BY <1>3, OperationFrame, ZenonT(30) DEF OperationRunning
<1>4. CASE Wake \/ EvaluateWhileUpdating \/ EvaluateWithoutStart \/ FinishFailedStart
           \/ SaveBackupState \/ HoldExpires
  <2>1. CASE Wake
    BY <1>3, <2>1 DEF Wake, LoopIdle
  <2>2. CASE EvaluateWhileUpdating
    BY <1>3, <1>a, <2>2 DEF EvaluateWhileUpdating, Evaluating, LoopIdle, RuntimeStates
  <2>3. CASE EvaluateWithoutStart
    <3>1. runtime'.repository_operation = runtime.repository_operation
      BY <1>a, <2>3, HoldReleasedType, StatusKept DEF EvaluateWithoutStart, RuntimeStates
    <3> QED
      BY <1>3, <2>3, <3>1 DEF EvaluateWithoutStart, Evaluating, LoopIdle
  <2>4. CASE FinishFailedStart
    BY <1>3, <1>a, <2>4 DEF FinishFailedStart, LoopIdle, RuntimeStates
  <2>5. CASE SaveBackupState
    BY <1>3, <2>5 DEF SaveBackupState, LoopIdle
  <2>6. CASE HoldExpires
    BY <1>3, <1>a, <2>6 DEF HoldExpires, RuntimeStates
  <2> QED
    BY <1>4, <2>1, <2>2, <2>3, <2>4, <2>5, <2>6
<1>5. CASE EvaluateToStart
  <2>1. runtime'.repository_operation = runtime.repository_operation
    BY <1>5, <1>a, HoldReleasedType, StatusKept DEF EvaluateToStart, RuntimeStates
  <2>2. /\ UNCHANGED <<config, probed, queue, ipc>>
        /\ loop'.pc # "finishRepository"
    BY <1>5 DEF EvaluateToStart, Evaluating, LoopIdle
  <2>3. \A w \in Workers : worker'[w] = worker[w] \/ worker'[w].task = "backup"
    BY <1>5, <1>a, ZenonT(30) DEF EvaluateToStart, Spawned, NoTask
  <2> QED
    BY <2>1, <2>2, <2>3, OperationFrame, ZenonT(30) DEF OperationRunning
<1>6. CASE ControlStop \/ CancelBackup
  <2>1. PICK type \in {"Stop", "Cancel"} : queue' = Append(queue, Event(type, "none", "none"))
    BY <1>6 DEF ControlStop, CancelBackup
  <2>2. Event(type, "none", "none") \in RuntimeEvents
    BY <2>1, EventType DEF EventTypes, MaybeKind, Results
  <2>3. Accepted(queue') => Accepted(queue)
    BY <1>a, <2>1, <2>2, AcceptedChannel DEF Event
  <2>4. UNCHANGED <<runtime, config, probed, worker, loop>> /\ (ipc' = ipc \/ ipc'.pc = "idle")
    BY <1>6 DEF ControlStop, CancelBackup, Reply, IpcIdle, RestUnchanged
  <2> QED
    BY <2>3, <2>4, OperationFrame, ZenonT(30) DEF OperationRunning
<1>7. CASE BeginUpdateInstall
  <2>1. queue' = Append(queue, Event("UpdateInstallRequested", "none", "none"))
    BY <1>7 DEF BeginUpdateInstall
  <2>2. Event("UpdateInstallRequested", "none", "none") \in RuntimeEvents
    BY EventType DEF EventTypes, MaybeKind, Results
  <2>3. Accepted(queue') => Accepted(queue)
    BY <1>a, <2>1, <2>2, AcceptedChannel DEF Event
  <2>4. /\ UNCHANGED <<config, probed, worker, loop, ipc>>
        /\ runtime'.repository_operation = runtime.repository_operation
    BY <1>7, <1>a DEF BeginUpdateInstall, HoldForUpdate, RestUnchanged, RuntimeStates
  <2> QED
    BY <2>3, <2>4, OperationFrame, ZenonT(30) DEF OperationRunning
<1>8. CASE ReceiveEvent
  <2>1. /\ queue # <<>> /\ queue' = Tail(queue) /\ loop.pc = "idle"
        /\ UNCHANGED <<config, ipc, probed>>
    <3>1. \E type \in EventTypes : Receive(type)
      BY <1>8, ZenonT(30)
         DEF ReceiveEvent, ReceiveStop, ReceiveCancel, ReceiveBackupFinished,
             ReceiveRepositoryOperationRequested, ReceiveRepositoryOperationFinished,
             ReceiveUpdateInstallRequested, ReceiveUpdateInstallFinished,
             DiscardWhileDraining, EventTypes
    <3> QED
      BY <3>1 DEF Receive
  <2>2. Accepted(queue') => Accepted(queue)
    BY <1>a, <2>1, ReceivedType, AcceptedChannel
  <2>3. CASE ReceiveStop \/ ReceiveCancel \/ DiscardWhileDraining
    <3>1. \A w \in Workers : /\ worker'[w].task = worker[w].task
                             /\ worker'[w].repository = worker[w].repository
      BY <1>a, <2>3
         DEF ReceiveStop, ReceiveCancel, DiscardWhileDraining, Cancelled, WorkerStates
    <3>2. UNCHANGED <<runtime, loop>>
      BY <2>3 DEF ReceiveStop, ReceiveCancel, DiscardWhileDraining
    <3> QED
      BY <2>1, <2>2, <3>1, <3>2, OperationFrame, ZenonT(30) DEF OperationRunning
  <2>4. CASE ReceiveBackupFinished
    <3>1. /\ runtime'.repository_operation = runtime.repository_operation
          /\ UNCHANGED worker /\ loop'.pc # "finishRepository"
      BY <1>a, <2>1, <2>4, ZenonT(30) DEF ReceiveBackupFinished, RuntimeStates, LoopIdle
    <3> QED
      BY <2>1, <2>2, <3>1, OperationFrame, ZenonT(30) DEF OperationRunning
  <2>5. CASE ReceiveRepositoryOperationRequested
    <3>1. CASE loop' = Finishing(Head(queue).kind, "failed", FALSE) /\ UNCHANGED <<runtime, worker>>
      <4>1. loop'.config = config /\ loop'.result # "ok"
        BY <3>1 DEF Finishing, LoopIdle
      <4>2. Identity(loop'.config) = Identity(config) /\ OperationRunning' = OperationRunning
        BY <3>1, <4>1, ZenonT(30) DEF OperationRunning
      <4> QED
        BY <2>1, <2>2, <3>1, <4>1, <4>2, ZenonT(30) DEF OperationOnConfig
    <3>2. CASE /\ UNCHANGED <<runtime, loop>>
               /\ \E w \in Workers : worker' = [worker EXCEPT ![w] =
                               Spawned("repository", Head(queue).kind, "spawned")]
      <4>1. \A w \in Workers : worker'[w] = worker[w] \/ worker'[w].repository = Absent
        BY <1>a, <3>2 DEF Spawned, NoTask
      <4> QED
        BY <2>1, <2>2, <3>2, <4>1, OperationFrame, ZenonT(30) DEF OperationRunning
    <3> QED
      BY <2>5, <3>1, <3>2, ZenonT(30) DEF ReceiveRepositoryOperationRequested
  <2>6. CASE ReceiveRepositoryOperationFinished
    <3>1. /\ loop'.config = config /\ loop'.result = Head(queue).result
          /\ UNCHANGED <<runtime, worker>>
      BY <2>6 DEF ReceiveRepositoryOperationFinished, Finishing, LoopIdle
    <3>2. Head(queue).type = "RepositoryOperationFinished"
      BY <2>6 DEF ReceiveRepositoryOperationFinished, Receive
    <3>3. Head(queue).result = "ok" => Accepted(queue)
      BY <1>a, <2>1, <3>2, ReceivedType, AcceptedChannel
    <3> QED
      BY <2>1, <2>2, <3>1, <3>3 DEF OperationOnConfig, OperationRunning
  <2>7. CASE ReceiveUpdateInstallRequested \/ ReceiveUpdateInstallFinished
    <3>1. runtime'.repository_operation = runtime.repository_operation
      BY <1>a, <2>7, StatusKept
         DEF ReceiveUpdateInstallRequested, ReceiveUpdateInstallFinished
    <3>2. loop'.pc # "finishRepository"
      BY <2>1, <2>7
         DEF ReceiveUpdateInstallRequested, ReceiveUpdateInstallFinished, LoopIdle
    <3>3. \A w \in Workers : worker'[w] = worker[w] \/ worker'[w].task = "update"
      BY <1>a, <2>7, ZenonT(30)
         DEF ReceiveUpdateInstallRequested, ReceiveUpdateInstallFinished, Spawned, NoTask
    <3> QED
      BY <2>1, <2>2, <3>1, <3>2, <3>3, OperationFrame, ZenonT(30) DEF OperationRunning
  <2> QED
    BY <1>8, <2>3, <2>4, <2>5, <2>6, <2>7 DEF ReceiveEvent
<1>9. CASE FinishRepositoryOperation
  <2>1. OperationRunning
    BY <1>9 DEF FinishRepositoryOperation, ResticExclusion, OperationInOnePlace
  <2>2. UNCHANGED <<config, probed, queue, worker, ipc>> /\ loop'.pc # "finishRepository"
    BY <1>9 DEF FinishRepositoryOperation, LoopIdle
  <2> QED
    BY <2>1, <2>2, OperationFrame, ZenonT(30)
<1>10. CASE \E w \in Workers : WorkerStep(w)
  <2>a. PICK w \in Workers : WorkerStep(w)
    BY <1>10
  <2>b. \A e \in RuntimeEvents : Report(w, e) =>
           /\ Accepted(queue') =>
                Accepted(queue) \/ (e.type = "RepositoryOperationFinished" /\ e.result = "ok")
           /\ worker'[w].task = "none"
           /\ \A v \in Workers : v # w => worker'[v] = worker[v]
    BY <1>a, AcceptedChannel DEF Report, NoTask
  <2>c. \A result \in Results :
           /\ Event("BackupFinished", "none", result) \in RuntimeEvents
           /\ Event("UpdateInstallFinished", "none", result) \in RuntimeEvents
           /\ Event("RepositoryOperationFinished", worker[w].kind, result) \in RuntimeEvents
    BY <1>a, EventType, ZenonT(30) DEF EventTypes, MaybeKind, WorkerStates
  <2>d. worker[w] \in WorkerStates
    BY <1>a
  <2>e. UNCHANGED <<config, loop, ipc>>
    BY <2>a, ZenonT(30)
       DEF WorkerStep, WorkerReadsConfig, BackupEnds, RetentionEnds, SaveRetentionState,
           RepositoryOperationEnds, UpdateInstallEnds
  <2>f. runtime'.repository_operation = runtime.repository_operation
    BY <1>a, <2>a
       DEF WorkerStep, WorkerReadsConfig, BackupEnds, RetentionEnds, SaveRetentionState,
           RepositoryOperationEnds, UpdateInstallEnds, RuntimeStates
  <2>1. CASE WorkerReadsConfig(w)
    <3>1. /\ UNCHANGED <<queue, probed>>
          /\ \A v \in Workers : v # w => worker'[v] = worker[v]
          /\ worker'[w] = [worker[w] EXCEPT !.pc = "restic", !.repository = Identity(config)]
      BY <1>a, <2>1 DEF WorkerReadsConfig
    <3>2. worker'[w].repository = Identity(config)
      BY <2>d, <3>1 DEF WorkerStates
    <3> QED
      BY <2>e, <2>f, <3>1, <3>2, OperationFrame, ZenonT(30) DEF OperationRunning
  <2>2. CASE /\ UNCHANGED <<queue, probed>>
             /\ \E pc, s : worker' = [worker EXCEPT ![w] = [@ EXCEPT !.pc = pc, !.snapshot = s]]
    <3>1. \A v \in Workers : /\ worker'[v].task = worker[v].task
                             /\ worker'[v].repository = worker[v].repository
      BY <1>a, <2>2, <2>d DEF WorkerStates
    <3> QED
      BY <2>e, <2>f, <2>2, <3>1, OperationFrame, ZenonT(30) DEF OperationRunning
  <2>3. CASE /\ UNCHANGED probed
             /\ \E e \in RuntimeEvents :
                  /\ Report(w, e)
                  /\ ~(e.type = "RepositoryOperationFinished" /\ e.result = "ok")
    <3>1. /\ Accepted(queue') => Accepted(queue)
          /\ worker'[w].task = "none"
          /\ \A v \in Workers : v # w => worker'[v] = worker[v]
      BY <2>b, <2>3, ZenonT(30)
    <3> QED
      BY <2>e, <2>f, <2>3, <3>1, OperationFrame, ZenonT(30) DEF OperationRunning
  <2>4. CASE BackupEnds(w) \/ SaveRetentionState(w) \/ UpdateInstallEnds(w)
    <3>1. CASE \E result \in Results :
                 \/ Report(w, Event("BackupFinished", "none", result))
                 \/ Report(w, Event("UpdateInstallFinished", "none", result))
      <4>1. UNCHANGED probed
        BY <2>4 DEF BackupEnds, SaveRetentionState, UpdateInstallEnds
      <4> QED
        BY <2>c, <2>3, <3>1, <4>1, ZenonT(30) DEF Event
    <3>2. CASE /\ worker' = [worker EXCEPT ![w] = [@ EXCEPT !.pc = "retention"]]
               /\ UNCHANGED <<queue, probed>>
      <4>1. \A v \in Workers : /\ worker'[v].task = worker[v].task
                               /\ worker'[v].repository = worker[v].repository
        BY <1>a, <3>2, <2>d DEF WorkerStates
      <4> QED
        BY <2>e, <2>f, <3>2, <4>1, OperationFrame, ZenonT(30) DEF OperationRunning
    <3> QED
      BY <2>4, <3>1, <3>2
         DEF BackupEnds, SaveRetentionState, UpdateInstallEnds, Results
  <2>5. CASE RetentionEnds(w)
    BY <2>2, <2>5, ZenonT(30) DEF RetentionEnds
  <2>6. CASE RepositoryOperationEnds(w)
    <3>1. CASE /\ Report(w, Event("RepositoryOperationFinished", worker[w].kind, "failed"))
               /\ UNCHANGED probed
      BY <2>c, <2>3, <3>1, ZenonT(30) DEF Event, Results
    <3>2. CASE /\ worker[w].repository # Absent
               /\ Report(w, Event("RepositoryOperationFinished", worker[w].kind, "ok"))
               /\ probed' = probed \cup {worker[w].repository}
      <4>1. /\ worker[w].repository = Identity(config)
            /\ loop.pc # "finishRepository"
        BY <2>6, <3>2
           DEF RepositoryOperationEnds, OperationOnConfig, ResticExclusion,
               OperationInOnePlace, Task
      <4>2. /\ worker'[w].task = "none"
            /\ \A v \in Workers : v # w => worker'[v] = worker[v]
        BY <2>b, <2>c, <3>2, ZenonT(30) DEF Results
      <4> QED
        BY <2>e, <2>f, <3>2, <4>1, <4>2, ZenonT(30) DEF OperationOnConfig, OperationRunning
    <3> QED
      BY <2>6, <3>1, <3>2 DEF RepositoryOperationEnds
  <2> QED
    BY <2>a, <2>1, <2>4, <2>5, <2>6 DEF WorkerStep
<1>11. CASE \/ RunNowChecksConfigured \/ RunNowChecksRepository \/ CancelChecksRunning
            \/ DeferChecksConfigured \/ RepositoryOperationReadsConfig \/ SaveEnrollment
  <2>1. CASE RunNowChecksConfigured
    BY <1>3, <2>1 DEF RunNowChecksConfigured, Continue, Reply, IpcIdle, RestUnchanged
  <2>2. CASE RunNowChecksRepository
    BY <1>3, <2>2 DEF RunNowChecksRepository, Continue, Reply, IpcIdle, RestUnchanged
  <2>3. CASE CancelChecksRunning
    BY <1>3, <2>3 DEF CancelChecksRunning, Continue, Reply, IpcIdle, RestUnchanged
  <2>4. CASE DeferChecksConfigured
    BY <1>3, <2>4 DEF DeferChecksConfigured, Continue, Reply, IpcIdle, RestUnchanged
  <2>5. CASE RepositoryOperationReadsConfig
    BY <1>3, <2>5
       DEF RepositoryOperationReadsConfig, Continue, Reply, IpcIdle, RestUnchanged
  <2>6. CASE SaveEnrollment
    BY <1>3, <2>6 DEF SaveEnrollment, Continue, Reply, IpcIdle, RestUnchanged
  <2> QED
    BY <1>11, <2>1, <2>2, <2>3, <2>4, <2>5, <2>6
<1>12. CASE \/ RunBackupNow \/ DeferBackup \/ PrepareForUpdate \/ EnrollBegins \/ EnrollEnds
            \/ UpdateSchedule \/ UnenrollApplies
  <2>1. CASE RunBackupNow
    BY <1>3, <1>a, <2>1
       DEF RunBackupNow, Continue, Reply, IpcIdle, RestUnchanged, RuntimeStates
  <2>2. CASE DeferBackup
    BY <1>3, <1>a, <2>2
       DEF DeferBackup, Continue, Reply, IpcIdle, RestUnchanged, RuntimeStates
  <2>3. CASE PrepareForUpdate
    BY <1>3, <1>a, <2>3
       DEF PrepareForUpdate, HoldForUpdate, Continue, Reply, IpcIdle, RestUnchanged,
           RuntimeStates
  <2>4. CASE EnrollBegins
    BY <1>3, <1>a, <2>4
       DEF EnrollBegins, Continue, Reply, IpcIdle, RestUnchanged, RuntimeStates
  <2>5. CASE EnrollEnds
    BY <1>3, <1>a, <2>5
       DEF EnrollEnds, Continue, Reply, IpcIdle, RestUnchanged, RuntimeStates
  <2>6. CASE UpdateSchedule
    BY <1>3, <1>a, <2>6, StatusKept, ZenonT(30)
       DEF UpdateSchedule, Continue, Reply, IpcIdle, RestUnchanged, RuntimeStates
  <2>7. CASE UnenrollApplies
    BY <1>3, <1>a, <2>7, StatusKept
       DEF UnenrollApplies, Continue, Reply, IpcIdle, RestUnchanged, RuntimeStates
  <2> QED
    BY <1>12, <2>1, <2>2, <2>3, <2>4, <2>5, <2>6, <2>7
<1>13. CASE UnenrollChecks
  <2>1. UNCHANGED <<runtime, config, probed, queue, worker, loop>> /\ ~OperationRunning
    BY <1>13 DEF UnenrollChecks, NothingActive, RestUnchanged
  <2> QED
    BY <2>1, OperationFrame, ZenonT(30) DEF OperationRunning
<1>14. CASE UpdateBackupSources
  <2>1. runtime'.repository_operation = runtime.repository_operation
    BY <1>14, <1>a, StatusKept DEF UpdateBackupSources
  <2>2. UNCHANGED <<probed, queue, worker, loop, ipc>>
    BY <1>14 DEF UpdateBackupSources, RestUnchanged
  <2>3. Identity(config') = Identity(config)
    BY <1>14, <1>a DEF UpdateBackupSources, Identity, Configs
  <2> QED
    BY <2>1, <2>2, <2>3, OperationFrame, ZenonT(30) DEF OperationRunning
<1>15. CASE UpdateRepository
  <2>1. ~OperationRunning /\ UNCHANGED <<queue, worker, loop>>
    BY <1>15 DEF UpdateRepository, MayChangeConfiguration, RestUnchanged
  <2>2. ~OperationRunning'
    <3>1. ASSUME NEW url, NEW secrets, Reconnect(url, secrets) PROVE ~OperationRunning'
      BY <2>1, <3>1, RevalidatedStatus DEF Reconnect, OperationRunning
    <3>2. ASSUME runtime' = ApplyConfigurationStatus(runtime, config) PROVE ~OperationRunning'
      BY <1>a, <2>1, <3>2, StatusKept, ZenonT(30) DEF OperationRunning
    <3> QED
      BY <1>15, <3>1, <3>2 DEF UpdateRepository
  <2> QED
    BY <2>1, <2>2, OperationAbsent, ZenonT(30)
<1>16. CASE CommitEnrollment \/ ApplyManagedPolicy
  <2>1. ~OperationRunning /\ UNCHANGED <<queue, worker, loop>>
    BY <1>16
       DEF CommitEnrollment, ApplyManagedPolicy, MayChangeConfiguration, At, RestUnchanged,
           ResticExclusion, OperationInOnePlace
  <2>2. ~OperationRunning'
    BY <1>16, <2>1, ActivatedStatus DEF CommitEnrollment, ApplyManagedPolicy
  <2> QED
    BY <2>1, <2>2, OperationAbsent, ZenonT(30)
<1>17. CASE UnenrollWrites
  <2>1. UNCHANGED <<runtime, queue, worker, loop>> /\ ~OperationRunning
    BY <1>17 DEF UnenrollWrites, At, RestUnchanged, OperationOnConfig
  <2> QED
    BY <2>1, OperationAbsent, ZenonT(30) DEF OperationRunning
<1>18. CASE BeginRepositoryOperation
  <2>1. ipc'.pc = "idle" /\ UNCHANGED <<config, probed, worker, loop>>
    BY <1>18 DEF BeginRepositoryOperation, Reply, IpcIdle, RestUnchanged
  <2>2. Event("RepositoryOperationRequested", ipc.kind, "none") \in RuntimeEvents
    BY <1>18, EventType
       DEF EventTypes, MaybeKind, Results, TypeOK, BeginRepositoryOperation, At
  <2>3. Accepted(queue') => Accepted(queue)
    BY <1>18, <1>a, <2>2, AcceptedChannel, ZenonT(30) DEF BeginRepositoryOperation, Event
  <2> QED
    BY <2>1, <2>3, OperationFrame, ZenonT(30)
<1>19. CASE UNCHANGED vars
  BY <1>19, OperationFrame, ZenonT(30) DEF vars, OperationRunning
<1> QED
  BY <1>1, <1>2, <1>4, <1>5, <1>6, <1>7, <1>8, <1>9, <1>10, <1>11, <1>12, <1>13, <1>14,
     <1>15, <1>16, <1>17, <1>18, <1>19, ZenonT(30)
     DEF Next, EventLoopStep, ContinueEvent, AcceptRequest, ContinueRequest

(* The operation that runs is one on the effective repository.             *)
LEMMA OperationOnConfigCorrect == Spec => []OperationOnConfig
BY TypeCorrect, ExclusionCorrect, OperationOnConfigInit, OperationOnConfigStep, PTL
   DEF Spec

-----------------------------------------------------------------------------
(* Only what restic accepted is recorded                                   *)

(* The records of a validation: in memory, in state.json, and the copies   *)
(* that the loop and the retention of a backup save without the mutex.     *)
Recorded ==
    {runtime.service_state, saved_state, loop.snapshot}
        \cup {worker[w].snapshot : w \in Workers}

StatesEarned == \A s \in Recorded : s.verified \in probed \cup {Absent}

Blank == {ValidationRequired, NeverValidated}

(* A step that copies records or blanks them records nothing new.          *)
LEMMA EarnedFrame ==
    ASSUME StatesEarned, probed \subseteq probed',
           runtime'.service_state \in Recorded \cup Blank,
           saved_state' \in Recorded \cup Blank,
           loop'.snapshot \in Recorded \cup Blank,
           \A w \in Workers : worker'[w].snapshot \in Recorded \cup Blank
    PROVE  StatesEarned'
<1>1. \A s \in Recorded \cup Blank : s.verified \in probed' \cup {Absent}
  BY DEF StatesEarned, Blank, ValidationRequired, NeverValidated
<1>2. Recorded' \subseteq Recorded \cup Blank
  BY DEF Recorded
<1> QED
  BY <1>1, <1>2, ZenonT(30) DEF StatesEarned

(* The record is kept by the operators that do not set it.                 *)
LEMMA RecordKept ==
    ASSUME NEW r \in RuntimeStates, NEW c
    PROVE  /\ ApplyConfigurationStatus(r, c).service_state = r.service_state
           /\ HoldReleased(r).service_state = r.service_state
           /\ \A result : UpdateInstallFinished(r, result).service_state = r.service_state
BY DEF ApplyConfigurationStatus, HoldReleased, UpdateInstallFinished, RuntimeStates

(* A connection that is to be validated again has a blank record.          *)
LEMMA RevalidatedRecord ==
    ASSUME TypeOK, NEW c
    PROVE  ApplyConfigurationStatus(
             [runtime EXCEPT !.repository_operation = Settled("ValidationRequired"),
                             !.service_state = ValidationRequired], c)
               .service_state = ValidationRequired
<1> DEFINE r == [runtime EXCEPT !.repository_operation = Settled("ValidationRequired"),
                                !.service_state = ValidationRequired]
<1>1. ValidationRequired \in ServiceStates /\ Settled("ValidationRequired") \in OperationStatuses
  BY DefaultTypes, VerifiedType, StatusTypes
<1>2. r \in RuntimeStates /\ r.service_state = ValidationRequired
  BY <1>1, ZenonT(30) DEF TypeOK, RuntimeStates
<1> HIDE DEF r
<1>3. ApplyConfigurationStatus(r, c).service_state = ValidationRequired
  BY <1>2, RecordKept
<1> QED
  BY <1>3 DEF r

(* A policy keeps the record or requires a new validation.                 *)
LEMMA ActivatedRecord ==
    ASSUME TypeOK, NEW local, NEW p, ActivatePolicy(local, p)
    PROVE  /\ runtime'.service_state \in {runtime.service_state, ValidationRequired}
           /\ saved_state' \in {saved_state, ValidationRequired}
<1>1. runtime \in RuntimeStates
  BY DEF TypeOK
<1>2. CASE RepositoryRequiresValidation(runtime.service_state, Resolve(local, p))
  BY <1>2, RevalidatedRecord, ZenonT(30) DEF ActivatePolicy
<1>3. CASE ~RepositoryRequiresValidation(runtime.service_state, Resolve(local, p))
  BY <1>1, <1>3, RecordKept, ZenonT(30) DEF ActivatePolicy
<1> QED
  BY <1>2, <1>3

LEMMA StatesEarnedInit == Init => StatesEarned
<1> SUFFICES ASSUME Init PROVE StatesEarned
  OBVIOUS
<1>1. \A s \in Recorded : s = NeverValidated
  BY ZenonT(30) DEF Init, Recorded, LoadedRuntime, LoopIdle, NoTask
<1> QED
  BY <1>1 DEF StatesEarned, NeverValidated

(* Every step keeps the records earned.                                    *)
LEMMA StatesEarnedStep ==
    TypeOK /\ OperationOnConfig /\ StatesEarned /\ [Next]_vars => StatesEarned'
<1> SUFFICES ASSUME TypeOK, OperationOnConfig, StatesEarned, [Next]_vars
             PROVE  StatesEarned'
  OBVIOUS
<1> USE DEF configVars, activeVars, loopVars
<1>a. /\ runtime \in RuntimeStates
      /\ config \in Configs
      /\ loop \in LoopStates
      /\ worker \in [Workers -> WorkerStates]
  BY DEF TypeOK
<1>b. /\ {runtime.service_state, saved_state, loop.snapshot} \subseteq Recorded \cup Blank
      /\ \A w \in Workers : worker[w].snapshot \in Recorded \cup Blank
      /\ {ValidationRequired, NeverValidated} \subseteq Recorded \cup Blank
  BY DEF Recorded, Blank
<1>c. CASE /\ runtime'.service_state \in {runtime.service_state, ValidationRequired}
           /\ saved_state' \in {saved_state, ValidationRequired}
           /\ probed \subseteq probed'
           /\ loop'.snapshot \in {loop.snapshot, NeverValidated}
           /\ \A w \in Workers : worker'[w].snapshot \in {worker[w].snapshot, NeverValidated}
  BY <1>b, <1>c, EarnedFrame, ZenonT(30)
<1>1. CASE Start
  <2>1. runtime'.service_state \in {saved_state, ValidationRequired, NeverValidated}
    BY <1>1 DEF Start, LoadedRuntime, UnreadableState
  <2>2. loop'.snapshot = NeverValidated /\ UNCHANGED <<saved_state, worker, probed>>
    BY <1>1 DEF Start, LoopIdle
  <2> QED
    BY <1>b, <2>1, <2>2, EarnedFrame, ZenonT(30)
<1>2. CASE Crash \/ Exit
  <2>1. /\ runtime'.service_state = NeverValidated /\ loop'.snapshot = NeverValidated
        /\ \A w \in Workers : worker'[w].snapshot = NeverValidated
        /\ UNCHANGED <<saved_state, probed>>
    BY <1>2 DEF Crash, Exit, Terminate, LoadedRuntime, LoopIdle, NoTask
  <2> QED
    BY <1>b, <2>1, EarnedFrame, ZenonT(30)
<1>3. CASE HoldExpires \/ ControlStop
  BY <1>3, <1>a, <1>c DEF HoldExpires, ControlStop, RuntimeStates
<1>4. CASE Wake
  BY <1>4, <1>c DEF Wake, LoopIdle
<1>5. CASE EvaluateWhileUpdating
  BY <1>5, <1>a, <1>c DEF EvaluateWhileUpdating, Evaluating, LoopIdle, RuntimeStates
<1>6. CASE EvaluateWithoutStart
  <2>1. runtime'.service_state = runtime.service_state
    BY <1>6, <1>a, HoldReleasedType, RecordKept DEF EvaluateWithoutStart, RuntimeStates
  <2> QED
    BY <1>6, <1>c, <2>1 DEF EvaluateWithoutStart, Evaluating, LoopIdle
<1>7. CASE EvaluateToStart
  <2>1. runtime'.service_state = runtime.service_state
    BY <1>7, <1>a, HoldReleasedType, RecordKept DEF EvaluateToStart, RuntimeStates
  <2>2. \A w \in Workers : worker'[w].snapshot \in {worker[w].snapshot, NeverValidated}
    BY <1>7, <1>a, ZenonT(30) DEF EvaluateToStart, Spawned, NoTask
  <2>3. loop'.snapshot = NeverValidated /\ UNCHANGED <<saved_state, probed>>
    BY <1>7 DEF EvaluateToStart, Evaluating, LoopIdle
  <2> QED
    BY <1>c, <2>1, <2>2, <2>3, ZenonT(30)
<1>8. CASE FinishFailedStart
  BY <1>8, <1>a, <1>c DEF FinishFailedStart, LoopIdle, RuntimeStates
<1>9. CASE ReceiveStop \/ ReceiveCancel
  <2>1. \A w \in Workers : worker'[w].snapshot = worker[w].snapshot
    BY <1>9, <1>a DEF ReceiveStop, ReceiveCancel, Cancelled, WorkerStates
  <2>2. UNCHANGED <<runtime, saved_state, loop, probed>>
    BY <1>9 DEF ReceiveStop, ReceiveCancel, Receive
  <2> QED
    BY <1>c, <2>1, <2>2, ZenonT(30)
<1>10. CASE ReceiveBackupFinished
  <2>1. /\ runtime'.service_state = runtime.service_state
        /\ loop'.snapshot \in {loop.snapshot, runtime.service_state}
        /\ UNCHANGED <<saved_state, worker, probed>>
    BY <1>10, <1>a, ZenonT(30) DEF ReceiveBackupFinished, Receive, RuntimeStates, LoopIdle
  <2> QED
    BY <1>b, <2>1, EarnedFrame, ZenonT(30)
<1>11. CASE SaveBackupState
  <2>1. /\ saved_state' \in {loop.snapshot, saved_state}
        /\ loop'.snapshot = NeverValidated
        /\ UNCHANGED <<runtime, worker, probed>>
    BY <1>11 DEF SaveBackupState, LoopIdle
  <2> QED
    BY <1>b, <2>1, EarnedFrame, ZenonT(30)
<1>12. CASE ReceiveRepositoryOperationRequested
  <2>1. \A w \in Workers : worker'[w].snapshot \in {worker[w].snapshot, NeverValidated}
    BY <1>12, <1>a, ZenonT(30) DEF ReceiveRepositoryOperationRequested, Spawned, NoTask
  <2>2. /\ loop'.snapshot \in {loop.snapshot, NeverValidated}
        /\ UNCHANGED <<runtime, saved_state, probed>>
    BY <1>12, ZenonT(30)
       DEF ReceiveRepositoryOperationRequested, Receive, Finishing, LoopIdle
  <2> QED
    BY <1>c, <2>1, <2>2, ZenonT(30)
<1>13. CASE ReceiveRepositoryOperationFinished
  BY <1>13, <1>c DEF ReceiveRepositoryOperationFinished, Receive, Finishing, LoopIdle
<1>14. CASE FinishRepositoryOperation
  <2>1. loop'.snapshot = NeverValidated /\ UNCHANGED <<worker, probed>>
    BY <1>14 DEF FinishRepositoryOperation, LoopIdle
  <2>2. CASE UNCHANGED <<runtime, saved_state>>
    BY <1>c, <2>1, <2>2
  <2>3. /\ loop.config \in Configs /\ runtime.service_state \in ServiceStates
        /\ RepositoryVerified(loop.config) \in ServiceStates
        /\ {Settled("Succeeded"), Settled("Failed")} \subseteq OperationStatuses
    BY <1>a, VerifiedType, StatusTypes DEF LoopStates, RuntimeStates
  <2>4. CASE /\ loop.result = "ok"
             /\ runtime'.service_state = RepositoryVerified(loop.config)
             /\ saved_state' \in {RepositoryVerified(loop.config), saved_state}
    <3>1. RepositoryVerified(loop.config).verified \in probed
      BY <1>14, <2>4 DEF FinishRepositoryOperation, OperationOnConfig, RepositoryVerified
    <3>2. \A s \in Recorded' : s = RepositoryVerified(loop.config) \/ s \in Recorded \cup Blank
      BY <1>b, <2>1, <2>4, ZenonT(30) DEF Recorded
    <3>3. \A s \in Recorded \cup Blank : s.verified \in probed \cup {Absent}
      BY DEF StatesEarned, Blank, ValidationRequired, NeverValidated
    <3> QED
      BY <2>1, <3>1, <3>2, <3>3, ZenonT(30) DEF StatesEarned
  <2>5. CASE /\ runtime'.service_state = runtime.service_state
             /\ UNCHANGED saved_state
    BY <1>c, <2>1, <2>5
  <2>6. ASSUME NEW s \in {RepositoryVerified(loop.config), runtime.service_state},
               NEW status \in {"Succeeded", "Failed"}
        PROVE  ApplyConfigurationStatus([runtime EXCEPT !.service_state = s,
                                           !.repository_operation = Settled(status)], loop.config)
                 .service_state = s
    <3> DEFINE r == [runtime EXCEPT !.service_state = s, !.repository_operation = Settled(status)]
    <3>1. r \in RuntimeStates /\ r.service_state = s
      BY <1>a, <2>3, ZenonT(30) DEF RuntimeStates
    <3> HIDE DEF r
    <3>2. ApplyConfigurationStatus(r, loop.config).service_state = s
      BY <3>1, RecordKept
    <3> QED
      BY <3>2 DEF r
  <2> QED
    BY <1>14, <2>2, <2>4, <2>5, <2>6 DEF FinishRepositoryOperation
<1>15. CASE ReceiveUpdateInstallRequested
  <2>1. \A w \in Workers : worker'[w].snapshot \in {worker[w].snapshot, NeverValidated}
    BY <1>15, <1>a, ZenonT(30) DEF ReceiveUpdateInstallRequested, Spawned, NoTask
  <2>2. runtime'.service_state = runtime.service_state /\ UNCHANGED <<loop, saved_state, probed>>
    BY <1>15, <1>a, RecordKept DEF ReceiveUpdateInstallRequested, Receive
  <2> QED
    BY <1>c, <2>1, <2>2, ZenonT(30)
<1>16. CASE ReceiveUpdateInstallFinished
  BY <1>16, <1>a, <1>c, RecordKept, ZenonT(30)
     DEF ReceiveUpdateInstallFinished, Receive, LoopIdle
<1>17. CASE DiscardWhileDraining
  BY <1>17, <1>c DEF DiscardWhileDraining, Receive
<1>18. CASE \E w \in Workers : WorkerStep(w)
  <2>a. PICK w \in Workers : WorkerStep(w)
    BY <1>18
  <2>b. worker[w] \in WorkerStates
    BY <1>a
  <2>c. ASSUME NEW e, Report(w, e)
        PROVE  \A v \in Workers : worker'[v].snapshot \in {worker[v].snapshot, NeverValidated}
    BY <1>a, <2>c DEF Report, NoTask
  <2>1. CASE WorkerReadsConfig(w)
    BY <1>a, <1>c, <2>b, <2>1 DEF WorkerReadsConfig, WorkerStates
  <2>2. CASE BackupEnds(w)
    <3>1. runtime'.service_state = runtime.service_state /\ UNCHANGED <<saved_state, loop, probed>>
      BY <1>a, <2>2 DEF BackupEnds, RuntimeStates
    <3>2. \A v \in Workers : worker'[v].snapshot \in {worker[v].snapshot, NeverValidated}
      <4>1. CASE \E e : Report(w, e)
        BY <2>c, <4>1
      <4>2. CASE worker' = [worker EXCEPT ![w] = [@ EXCEPT !.pc = "retention"]]
        BY <1>a, <2>b, <4>2 DEF WorkerStates
      <4> QED
        BY <2>2, <4>1, <4>2 DEF BackupEnds
    <3> QED
      BY <1>c, <3>1, <3>2, ZenonT(30)
  <2>3. CASE RetentionEnds(w)
    <3>1. \A v \in Workers : worker'[v].snapshot \in {worker[v].snapshot, runtime.service_state}
      BY <1>a, <2>b, <2>3 DEF RetentionEnds, WorkerStates
    <3>2. UNCHANGED <<runtime, saved_state, loop, probed>>
      BY <2>3 DEF RetentionEnds
    <3> QED
      BY <1>b, <3>1, <3>2, EarnedFrame, ZenonT(30)
  <2>4. CASE SaveRetentionState(w)
    <3>1. saved_state' \in {worker[w].snapshot, saved_state} /\ UNCHANGED <<runtime, loop, probed>>
      BY <2>4 DEF SaveRetentionState
    <3>2. \A v \in Workers : worker'[v].snapshot \in {worker[v].snapshot, NeverValidated}
      BY <2>c, <2>4 DEF SaveRetentionState
    <3> QED
      BY <1>b, <3>1, <3>2, EarnedFrame, ZenonT(30)
  <2>5. CASE RepositoryOperationEnds(w)
    <3>1. probed \subseteq probed' /\ UNCHANGED <<runtime, saved_state, loop>>
      BY <2>5, ZenonT(30) DEF RepositoryOperationEnds
    <3>2. \A v \in Workers : worker'[v].snapshot \in {worker[v].snapshot, NeverValidated}
      BY <2>c, <2>5 DEF RepositoryOperationEnds
    <3> QED
      BY <1>c, <3>1, <3>2, ZenonT(30)
  <2>6. CASE UpdateInstallEnds(w)
    <3>1. \A v \in Workers : worker'[v].snapshot \in {worker[v].snapshot, NeverValidated}
      BY <2>c, <2>6 DEF UpdateInstallEnds
    <3>2. UNCHANGED <<runtime, saved_state, loop, probed>>
      BY <2>6 DEF UpdateInstallEnds
    <3> QED
      BY <1>c, <3>1, <3>2, ZenonT(30)
  <2> QED
    BY <2>a, <2>1, <2>2, <2>3, <2>4, <2>5, <2>6 DEF WorkerStep
<1>19. CASE RunNowChecksConfigured
  BY <1>19, <1>c DEF RunNowChecksConfigured, RestUnchanged
<1>20. CASE RunNowChecksRepository
  BY <1>20, <1>c DEF RunNowChecksRepository, RestUnchanged
<1>21. CASE CancelChecksRunning
  BY <1>21, <1>c DEF CancelChecksRunning, RestUnchanged
<1>22. CASE DeferChecksConfigured
  BY <1>22, <1>c DEF DeferChecksConfigured, RestUnchanged
<1>23. CASE RepositoryOperationReadsConfig
  BY <1>23, <1>c DEF RepositoryOperationReadsConfig, RestUnchanged
<1>24. CASE SaveEnrollment
  BY <1>24, <1>c DEF SaveEnrollment, RestUnchanged
<1>25. CASE UnenrollChecks
  BY <1>25, <1>c DEF UnenrollChecks, RestUnchanged
<1>26. CASE UnenrollWrites
  BY <1>26, <1>c DEF UnenrollWrites, RestUnchanged
<1>27. CASE CancelBackup
  BY <1>27, <1>c DEF CancelBackup, RestUnchanged
<1>28. CASE RunBackupNow
  BY <1>28, <1>a, <1>c DEF RunBackupNow, RestUnchanged, RuntimeStates
<1>29. CASE DeferBackup
  BY <1>29, <1>a, <1>c DEF DeferBackup, RestUnchanged, RuntimeStates
<1>30. CASE PrepareForUpdate
  BY <1>30, <1>a, <1>c DEF PrepareForUpdate, HoldForUpdate, RestUnchanged, RuntimeStates
<1>31. CASE BeginUpdateInstall
  BY <1>31, <1>a, <1>c DEF BeginUpdateInstall, HoldForUpdate, RestUnchanged, RuntimeStates
<1>32. CASE EnrollBegins
  BY <1>32, <1>a, <1>c DEF EnrollBegins, RestUnchanged, RuntimeStates
<1>33. CASE EnrollEnds
  BY <1>33, <1>a, <1>c, ZenonT(30) DEF EnrollEnds, RestUnchanged, RuntimeStates
<1>34. CASE UpdateSchedule
  BY <1>34, <1>a, <1>c, RecordKept, ZenonT(30) DEF UpdateSchedule, RestUnchanged
<1>35. CASE UnenrollApplies
  BY <1>35, <1>a, <1>c, RecordKept DEF UnenrollApplies, RestUnchanged
<1>36. CASE UpdateBackupSources
  BY <1>36, <1>a, <1>c, RecordKept, ZenonT(30) DEF UpdateBackupSources, RestUnchanged
<1>37. CASE UpdateRepository
  <2>1. ASSUME NEW url, NEW secrets, Reconnect(url, secrets)
        PROVE  /\ runtime'.service_state \in {runtime.service_state, ValidationRequired}
               /\ saved_state' = ValidationRequired
    BY <2>1, RevalidatedRecord, ZenonT(30) DEF Reconnect
  <2>2. /\ runtime'.service_state \in {runtime.service_state, ValidationRequired}
        /\ saved_state' \in {saved_state, ValidationRequired}
    BY <1>37, <1>a, <2>1, RecordKept, ZenonT(30) DEF UpdateRepository
  <2> QED
    BY <1>37, <1>c, <2>2 DEF UpdateRepository, RestUnchanged
<1>38. CASE CommitEnrollment
  BY <1>38, <1>c, ActivatedRecord, ZenonT(30) DEF CommitEnrollment, RestUnchanged
<1>39. CASE ApplyManagedPolicy
  BY <1>39, <1>c, ActivatedRecord, ZenonT(30) DEF ApplyManagedPolicy, RestUnchanged
<1>40. CASE BeginRepositoryOperation
  <2>1. \A operation : OperationBegun(operation).service_state = ValidationRequired
    BY <1>a, ZenonT(30) DEF OperationBegun, RuntimeStates
  <2> QED
    BY <1>40, <1>c, <2>1 DEF BeginRepositoryOperation, RestUnchanged
<1>41. CASE UNCHANGED vars
  BY <1>41, <1>c DEF vars
<1> QED
  BY <1>1, <1>2, <1>3, <1>4, <1>5, <1>6, <1>7, <1>8, <1>9, <1>10, <1>11, <1>12, <1>13,
     <1>14, <1>15, <1>16, <1>17, <1>18, <1>19, <1>20, <1>21, <1>22, <1>23, <1>24, <1>25,
     <1>26, <1>27, <1>28, <1>29, <1>30, <1>31, <1>32, <1>33, <1>34, <1>35, <1>36, <1>37,
     <1>38, <1>39, <1>40, <1>41, ZenonT(30)
     DEF Next, EventLoopStep, ReceiveEvent, ContinueEvent, AcceptRequest, ContinueRequest

(* A validation is recorded only for a repository that restic accepted,    *)
(* whatever is requested and whenever the process crashes; unenrollments,  *)
(* which move the repository outside the mutex, included.                  *)
THEOREM ProbedCorrect == Spec => []VerificationWasProbed
<1>1. StatesEarned => VerificationWasProbed
  BY DEF StatesEarned, Recorded, VerificationWasProbed
<1> QED
  BY <1>1, TypeCorrect, OperationOnConfigCorrect, StatesEarnedInit, StatesEarnedStep,
     PTL
     DEF Spec

-----------------------------------------------------------------------------
(* An update in one place                                                  *)

(* An installation is in one place, its request, its worker or its report, *)
(* and as long as it is anywhere update_install_active is set.             *)
UpdateInOnePlace ==
    /\ \A v, w \in Task("update") : v = w
    /\ Task("update") # {} => runtime.update_install_active
    /\ \A type \in {"UpdateInstallRequested", "UpdateInstallFinished"} :
         /\ Once(queue, type)
         /\ Holds(queue, type) => runtime.update_install_active /\ Task("update") = {}
    /\ ~(Holds(queue, "UpdateInstallRequested") /\ Holds(queue, "UpdateInstallFinished"))

(* What the steps of other work must leave alone.                          *)
LEMMA UpdateFrame ==
    ASSUME UpdateInOnePlace,
           runtime'.update_install_active = runtime.update_install_active,
           \A w \in Workers : worker'[w].task = "update" <=> worker[w].task = "update",
           \A t \in {"UpdateInstallRequested", "UpdateInstallFinished"} :
               /\ Holds(queue', t) => Holds(queue, t)
               /\ Once(queue, t) => Once(queue', t)
    PROVE  UpdateInOnePlace'
<1>1. Task("update")' = Task("update")
  BY DEF Task
<1> QED
  BY <1>1, ZenonT(30) DEF UpdateInOnePlace

(* No installation is anywhere.                                            *)
LEMMA UpdateNowhere ==
    ASSUME \A w \in Workers : worker'[w].task # "update",
           \A t \in {"UpdateInstallRequested", "UpdateInstallFinished"} :
               ~Holds(queue', t) /\ Once(queue', t)
    PROVE  UpdateInOnePlace'
BY DEF UpdateInOnePlace, Task

(* Reading the runtime back from the operators that recompute it.          *)
LEMMA ProgressKept ==
    ASSUME NEW r \in RuntimeStates, NEW c
    PROVE  /\ ApplyConfigurationStatus(r, c).update_install_active = r.update_install_active
           /\ ApplyConfigurationStatus(r, c).update_hold_until = r.update_hold_until
           /\ ApplyConfigurationStatus(r, c).update_hold_previous = r.update_hold_previous
           /\ ApplyConfigurationStatus(r, c).management_operation_active
                = r.management_operation_active
           /\ r.state # "Running" => ApplyConfigurationStatus(r, c).state # "Running"
           /\ HoldReleased(r).update_install_active = r.update_install_active
           /\ HoldReleased(r).update_hold_until = "none"
           /\ HoldReleased(r).management_operation_active = r.management_operation_active
           /\ \A result :
                /\ UpdateInstallFinished(r, result).update_hold_until
                     \in {r.update_hold_until, "none"}
                /\ UpdateInstallFinished(r, result).management_operation_active
                     = r.management_operation_active
BY DEF ApplyConfigurationStatus, HoldReleased, UpdateInstallFinished, RuntimeStates

(* A change of the record and of the operation's status leaves the rest.   *)
LEMMA ProgressSettled ==
    ASSUME TypeOK, NEW s \in ServiceStates, NEW operation \in OperationStatuses, NEW c,
           runtime' = ApplyConfigurationStatus(
                        [runtime EXCEPT !.repository_operation = operation,
                                        !.service_state = s], c)
    PROVE  /\ runtime'.update_install_active = runtime.update_install_active
           /\ runtime'.update_hold_until = runtime.update_hold_until
           /\ runtime'.update_hold_previous = runtime.update_hold_previous
           /\ runtime.state # "Running" => runtime'.state # "Running"
           /\ runtime'.management_operation_active = runtime.management_operation_active
           /\ runtime'.repository_operation = operation
           /\ runtime'.service_state = s
<1> DEFINE r == [runtime EXCEPT !.repository_operation = operation, !.service_state = s]
<1>1. /\ r \in RuntimeStates
      /\ r.repository_operation = operation /\ r.service_state = s
      /\ r.update_install_active = runtime.update_install_active
      /\ r.update_hold_until = runtime.update_hold_until
      /\ r.update_hold_previous = runtime.update_hold_previous
      /\ r.state = runtime.state
      /\ r.management_operation_active = runtime.management_operation_active
  BY ZenonT(30) DEF TypeOK, RuntimeStates
<1>2. runtime' = ApplyConfigurationStatus(r, c)
  OBVIOUS
<1> HIDE DEF r
<1> QED
  BY <1>1, <1>2, ProgressKept, StatusKept, RecordKept

(* So does a change of the repository that a client asks for.              *)
LEMMA ProgressReconnected ==
    ASSUME TypeOK, UpdateRepository
    PROVE  /\ runtime'.update_install_active = runtime.update_install_active
           /\ runtime'.update_hold_until = runtime.update_hold_until
           /\ runtime'.update_hold_previous = runtime.update_hold_previous
           /\ runtime'.management_operation_active = runtime.management_operation_active
           /\ runtime.state # "Running" => runtime'.state # "Running"
<1>1. ValidationRequired \in ServiceStates /\ Settled("ValidationRequired") \in OperationStatuses
  BY DefaultTypes, VerifiedType, StatusTypes
<1>2. \/ \E url, secrets : Reconnect(url, secrets)
      \/ runtime' = ApplyConfigurationStatus(runtime, config)
  BY ZenonT(30) DEF UpdateRepository
<1>3. CASE \E url, secrets : Reconnect(url, secrets)
  <2>1. PICK url, secrets : Reconnect(url, secrets)
    BY <1>3
  <2> QED
    BY <1>1, <2>1, ProgressSettled, ZenonT(30) DEF Reconnect
<1>4. CASE runtime' = ApplyConfigurationStatus(runtime, config)
  BY <1>4, ProgressKept, ZenonT(30) DEF TypeOK
<1> QED
  BY <1>2, <1>3, <1>4

(* A policy leaves updates and enrollments alone.                          *)
LEMMA ProgressActivated ==
    ASSUME TypeOK, NEW local, NEW p, ActivatePolicy(local, p)
    PROVE  /\ runtime'.update_install_active = runtime.update_install_active
           /\ runtime'.update_hold_until = runtime.update_hold_until
           /\ runtime'.update_hold_previous = runtime.update_hold_previous
           /\ runtime.state # "Running" => runtime'.state # "Running"
           /\ runtime'.management_operation_active = runtime.management_operation_active
<1>1. runtime \in RuntimeStates
  BY DEF TypeOK
<1>2. ValidationRequired \in ServiceStates /\ Settled("ValidationRequired") \in OperationStatuses
  BY DefaultTypes, VerifiedType, StatusTypes
<1>3. CASE runtime' = ApplyConfigurationStatus(
                        [runtime EXCEPT !.repository_operation = Settled("ValidationRequired"),
                                        !.service_state = ValidationRequired], Resolve(local, p))
  BY <1>2, <1>3, ProgressSettled, ZenonT(30)
<1>4. CASE runtime' = ApplyConfigurationStatus(runtime, Resolve(local, p))
  BY <1>1, <1>4, ProgressKept
<1>5. \/ runtime' = ApplyConfigurationStatus(
                      [runtime EXCEPT !.repository_operation = Settled("ValidationRequired"),
                                      !.service_state = ValidationRequired], Resolve(local, p))
      \/ runtime' = ApplyConfigurationStatus(runtime, Resolve(local, p))
  BY ZenonT(30) DEF ActivatePolicy
<1> QED
  BY <1>3, <1>4, <1>5

(* Finishing an operation leaves updates and enrollments alone.            *)
LEMMA ProgressFinished ==
    ASSUME TypeOK, FinishRepositoryOperation
    PROVE  /\ runtime'.update_install_active = runtime.update_install_active
           /\ runtime'.update_hold_until = runtime.update_hold_until
           /\ runtime'.update_hold_previous = runtime.update_hold_previous
           /\ runtime.state # "Running" => runtime'.state # "Running"
           /\ runtime'.management_operation_active = runtime.management_operation_active
           /\ \/ UNCHANGED runtime
              \/ /\ loop.result = "ok"
                 /\ runtime'.service_state = RepositoryVerified(loop.config)
                 /\ runtime'.repository_operation = Settled("Succeeded")
              \/ runtime'.repository_operation = Settled("Failed")
<1>1. /\ runtime \in RuntimeStates
      /\ loop.config \in Configs /\ runtime.service_state \in ServiceStates
      /\ RepositoryVerified(loop.config) \in ServiceStates
      /\ {Settled("Succeeded"), Settled("Failed")} \subseteq OperationStatuses
  BY VerifiedType, StatusTypes DEF TypeOK, LoopStates, RuntimeStates
<1>2. ASSUME NEW s \in {RepositoryVerified(loop.config), runtime.service_state},
             NEW status \in {"Succeeded", "Failed"},
             runtime' = ApplyConfigurationStatus(
                          [runtime EXCEPT !.service_state = s,
                                          !.repository_operation = Settled(status)], loop.config)
      PROVE  /\ runtime'.update_install_active = runtime.update_install_active
             /\ runtime'.update_hold_until = runtime.update_hold_until
             /\ runtime'.update_hold_previous = runtime.update_hold_previous
             /\ runtime.state # "Running" => runtime'.state # "Running"
             /\ runtime'.management_operation_active = runtime.management_operation_active
             /\ runtime'.repository_operation = Settled(status)
             /\ runtime'.service_state = s
  <2>1. [runtime EXCEPT !.service_state = s, !.repository_operation = Settled(status)]
          = [runtime EXCEPT !.repository_operation = Settled(status), !.service_state = s]
    BY <1>1, ZenonT(30) DEF RuntimeStates
  <2>2. s \in ServiceStates /\ Settled(status) \in OperationStatuses
    BY <1>1
  <2>3. runtime' = ApplyConfigurationStatus(
                     [runtime EXCEPT !.repository_operation = Settled(status),
                                     !.service_state = s], loop.config)
    BY <1>2, <2>1, ZenonT(30)
  <2> QED
    BY <2>2, <2>3, ProgressSettled, ZenonT(30)
<1>3. \/ UNCHANGED runtime
      \/ \E s \in {RepositoryVerified(loop.config), runtime.service_state},
            status \in {"Succeeded", "Failed"} :
           /\ runtime' = ApplyConfigurationStatus(
                           [runtime EXCEPT !.service_state = s,
                                           !.repository_operation = Settled(status)], loop.config)
           /\ status = "Succeeded" => loop.result = "ok" /\ s = RepositoryVerified(loop.config)
  BY ZenonT(30) DEF FinishRepositoryOperation
<1> QED
  BY <1>2, <1>3, ZenonT(30)

LEMMA UpdateInOnePlaceInit == Init => UpdateInOnePlace
<1> SUFFICES ASSUME Init PROVE UpdateInOnePlace
  OBVIOUS
<1>1. queue = <<>> /\ worker = [w \in Workers |-> NoTask]
  BY DEF Init
<1>2. Task("update") = {}
  BY <1>1 DEF Task, NoTask
<1> QED
  BY <1>1, <1>2, HoldsEmpty DEF UpdateInOnePlace

(* Every step keeps an installation in one place.                          *)
LEMMA UpdateInOnePlaceStep ==
    TypeOK /\ ResticExclusion /\ UpdateInOnePlace /\ [Next]_vars => UpdateInOnePlace'
<1> SUFFICES ASSUME TypeOK, ResticExclusion, UpdateInOnePlace, [Next]_vars
             PROVE  UpdateInOnePlace'
  OBVIOUS
<1> USE DEF configVars, activeVars, loopVars
<1>a. /\ runtime \in RuntimeStates
      /\ queue \in Seq(RuntimeEvents)
      /\ worker \in [Workers -> WorkerStates]
  BY DEF TypeOK
<1>b. CASE /\ runtime'.update_install_active = runtime.update_install_active
           /\ UNCHANGED <<queue, worker>>
  BY <1>b, UpdateFrame, ZenonT(30)
<1>c. CASE /\ runtime'.update_install_active = runtime.update_install_active
           /\ \E type \in EventTypes, kind \in MaybeKind, result \in Results :
                /\ queue' = Append(queue, Event(type, kind, result))
                /\ type \notin {"UpdateInstallRequested", "UpdateInstallFinished"}
           /\ \A w \in Workers : worker'[w].task = "update" <=> worker[w].task = "update"
  <2>1. PICK type \in EventTypes, kind \in MaybeKind, result \in Results :
                /\ queue' = Append(queue, Event(type, kind, result))
                /\ type \notin {"UpdateInstallRequested", "UpdateInstallFinished"}
    BY <1>c
  <2>2. Event(type, kind, result) \in RuntimeEvents /\ Event(type, kind, result).type = type
    BY EventType DEF Event
  <2>3. \A t \in {"UpdateInstallRequested", "UpdateInstallFinished"} :
               /\ Holds(queue', t) => Holds(queue, t)
               /\ Once(queue, t) => Once(queue', t)
    BY <1>a, <2>1, <2>2, HoldsAppend
  <2> QED
    BY <1>c, <2>3, UpdateFrame, ZenonT(30)
<1>d. CASE /\ runtime'.update_install_active = runtime.update_install_active
           /\ \E type : Receive(type)
           /\ \A w \in Workers : worker'[w].task = "update" <=> worker[w].task = "update"
  <2>1. queue # <<>> /\ queue' = Tail(queue)
    BY <1>d, ZenonT(30) DEF Receive
  <2>2. \A t : /\ Holds(queue', t) => Holds(queue, t)
               /\ Once(queue, t) => Once(queue', t)
    BY <1>a, <2>1, HoldsTail
  <2> QED
    BY <1>d, <2>2, UpdateFrame, ZenonT(30)
<1>1. CASE Start
  <2>1. queue = <<>> /\ \A w \in Workers : worker[w].task = "none"
    BY <1>1 DEF Start, ResticExclusion, Task
  <2>2. UNCHANGED <<queue, worker>>
    BY <1>1 DEF Start
  <2> QED
    BY <2>1, <2>2, UpdateNowhere, HoldsEmpty, ZenonT(30)
<1>2. CASE Crash \/ Exit
  <2>1. queue' = <<>> /\ \A w \in Workers : worker'[w].task = "none"
    BY <1>2 DEF Crash, Exit, Terminate, NoTask
  <2> QED
    BY <2>1, UpdateNowhere, HoldsEmpty, ZenonT(30)
<1>3. CASE HoldExpires
  BY <1>3, <1>a, <1>b, ZenonT(30) DEF HoldExpires, RuntimeStates
<1>4. CASE ControlStop
  BY <1>4, <1>c DEF ControlStop, EventTypes, MaybeKind, Results
<1>5. CASE Wake
  BY <1>5, <1>b DEF Wake
<1>6. CASE EvaluateWhileUpdating
  BY <1>6, <1>a, <1>b DEF EvaluateWhileUpdating, Evaluating, RuntimeStates
<1>7. CASE EvaluateWithoutStart
  <2>1. runtime'.update_install_active = runtime.update_install_active
    BY <1>7, <1>a, HoldReleasedType, ProgressKept DEF EvaluateWithoutStart, RuntimeStates
  <2> QED
    BY <1>7, <1>b, <2>1 DEF EvaluateWithoutStart, Evaluating
<1>8. CASE EvaluateToStart
  <2>1. runtime'.update_install_active = runtime.update_install_active
    BY <1>8, <1>a, HoldReleasedType, ProgressKept DEF EvaluateToStart, RuntimeStates
  <2>2. \A w \in Workers : worker'[w].task = "update" <=> worker[w].task = "update"
    BY <1>8, <1>a, ZenonT(30) DEF EvaluateToStart, Free, Spawned, NoTask
  <2>3. UNCHANGED queue
    BY <1>8 DEF EvaluateToStart, Evaluating
  <2> QED
    BY <2>1, <2>2, <2>3, UpdateFrame, ZenonT(30)
<1>9. CASE FinishFailedStart
  BY <1>9, <1>a, <1>b DEF FinishFailedStart, RuntimeStates
<1>10. CASE ReceiveStop
  <2>1. \A w \in Workers : worker'[w].task = worker[w].task
    BY <1>10, <1>a DEF ReceiveStop, Cancelled, WorkerStates
  <2> QED
    BY <1>10, <1>d, <2>1, ZenonT(30) DEF ReceiveStop
<1>11. CASE ReceiveCancel
  <2>1. \A w \in Workers : worker'[w].task = worker[w].task
    BY <1>11, <1>a DEF ReceiveCancel, Cancelled, WorkerStates
  <2> QED
    BY <1>11, <1>d, <2>1, ZenonT(30) DEF ReceiveCancel
<1>12. CASE ReceiveBackupFinished
  <2>1. runtime'.update_install_active = runtime.update_install_active
    BY <1>12, <1>a DEF ReceiveBackupFinished, RuntimeStates
  <2> QED
    BY <1>12, <1>d, <2>1, ZenonT(30) DEF ReceiveBackupFinished
<1>13. CASE SaveBackupState
  BY <1>13, <1>b DEF SaveBackupState
<1>14. CASE ReceiveRepositoryOperationRequested
  <2>1. \A w \in Workers : worker'[w].task = "update" <=> worker[w].task = "update"
    BY <1>14, <1>a, ZenonT(30)
       DEF ReceiveRepositoryOperationRequested, Free, Spawned, NoTask
  <2> QED
    BY <1>14, <1>d, <2>1, ZenonT(30) DEF ReceiveRepositoryOperationRequested
<1>15. CASE ReceiveRepositoryOperationFinished
  BY <1>15, <1>d, ZenonT(30) DEF ReceiveRepositoryOperationFinished
<1>16. CASE FinishRepositoryOperation
  BY <1>16, <1>b, ProgressFinished DEF FinishRepositoryOperation
<1>17. CASE ReceiveUpdateInstallRequested
  <2>1. queue # <<>> /\ Head(queue).type = "UpdateInstallRequested" /\ queue' = Tail(queue)
    BY <1>17 DEF ReceiveUpdateInstallRequested, Receive
  <2>2. /\ Task("update") = {} /\ runtime.update_install_active
        /\ ~Holds(queue, "UpdateInstallFinished")
    BY <1>a, <2>1, HoldsTail, ZenonT(30) DEF UpdateInOnePlace
  <2>3. \A t \in {"UpdateInstallRequested", "UpdateInstallFinished"} :
          ~Holds(queue', t) /\ Once(queue', t)
    BY <1>a, <2>1, <2>2, HoldsTail DEF UpdateInOnePlace
  <2>4. CASE UNCHANGED worker
    BY <2>2, <2>3, <2>4, UpdateNowhere, ZenonT(30) DEF Task
  <2>5. CASE /\ UNCHANGED runtime
             /\ \E w \in Workers :
                  worker' = [worker EXCEPT ![w] = Spawned("update", "none", "installing")]
    <3>1. PICK w \in Workers :
                  worker' = [worker EXCEPT ![w] = Spawned("update", "none", "installing")]
      BY <2>5, ZenonT(30)
    <3>2. Task("update")' \subseteq {w}
      BY <1>a, <2>2, <3>1 DEF Task
    <3> QED
      BY <2>2, <2>3, <2>5, <3>2, ZenonT(30) DEF UpdateInOnePlace
  <2> QED
    BY <1>17, <2>4, <2>5, ZenonT(30) DEF ReceiveUpdateInstallRequested
<1>18. CASE ReceiveUpdateInstallFinished
  <2>1. queue # <<>> /\ Head(queue).type = "UpdateInstallFinished" /\ queue' = Tail(queue)
    BY <1>18 DEF ReceiveUpdateInstallFinished, Receive
  <2>2. Task("update") = {} /\ ~Holds(queue, "UpdateInstallRequested")
    BY <1>a, <2>1, HoldsTail, ZenonT(30) DEF UpdateInOnePlace
  <2>3. \A t \in {"UpdateInstallRequested", "UpdateInstallFinished"} :
          ~Holds(queue', t) /\ Once(queue', t)
    BY <1>a, <2>1, <2>2, HoldsTail, ZenonT(30) DEF UpdateInOnePlace
  <2>4. UNCHANGED worker
    BY <1>18 DEF ReceiveUpdateInstallFinished
  <2> QED
    BY <2>2, <2>3, <2>4, UpdateNowhere, ZenonT(30) DEF Task
<1>19. CASE DiscardWhileDraining
  BY <1>19, <1>d, ZenonT(30) DEF DiscardWhileDraining
<1>20. CASE \E w \in Workers : WorkerStep(w)
  <2>a. PICK w \in Workers : WorkerStep(w)
    BY <1>20
  <2>b. worker[w] \in WorkerStates
    BY <1>a, ZenonT(30)
  <2>c. ASSUME NEW e, Report(w, e)
        PROVE  /\ queue' = Append(queue, e)
               /\ worker'[w].task = "none"
               /\ \A v \in Workers : v # w => worker'[v] = worker[v]
    BY <1>a, <2>c DEF Report, NoTask
  <2>1. CASE WorkerReadsConfig(w)
    <3>1. \A v \in Workers : worker'[v].task = worker[v].task
      BY <1>a, <2>b, <2>1 DEF WorkerReadsConfig, WorkerStates
    <3> QED
      BY <2>1, <3>1, UpdateFrame, ZenonT(30) DEF WorkerReadsConfig
  <2>2. CASE RetentionEnds(w)
    <3>1. \A v \in Workers : worker'[v].task = worker[v].task
      BY <1>a, <2>b, <2>2 DEF RetentionEnds, WorkerStates
    <3> QED
      BY <2>2, <3>1, UpdateFrame, ZenonT(30) DEF RetentionEnds
  <2>3. CASE /\ worker[w].task \in {"backup", "repository"} /\ UNCHANGED runtime
             /\ \E type \in {"BackupFinished", "RepositoryOperationFinished"},
                   kind \in MaybeKind, result \in Results : Report(w, Event(type, kind, result))
    <3>1. PICK type \in {"BackupFinished", "RepositoryOperationFinished"},
               kind \in MaybeKind, result \in Results : Report(w, Event(type, kind, result))
      BY <2>3
    <3>2. \A v \in Workers : worker'[v].task = "update" <=> worker[v].task = "update"
      BY <2>c, <2>3, <3>1, ZenonT(30)
    <3>3. /\ queue' = Append(queue, Event(type, kind, result))
          /\ type \in EventTypes \ {"UpdateInstallRequested", "UpdateInstallFinished"}
      BY <2>c, <3>1 DEF EventTypes
    <3> QED
      BY <1>c, <2>3, <3>1, <3>2, <3>3, ZenonT(30)
  <2>4. CASE BackupEnds(w)
    <3>1. CASE /\ runtime' = [runtime EXCEPT !.state = "Running"]
               /\ worker' = [worker EXCEPT ![w] = [@ EXCEPT !.pc = "retention"]]
               /\ UNCHANGED queue
      <4>1. runtime'.update_install_active = runtime.update_install_active
        BY <1>a, <3>1 DEF RuntimeStates
      <4>2. \A v \in Workers : worker'[v].task = worker[v].task
        BY <1>a, <2>b, <3>1 DEF WorkerStates
      <4> QED
        BY <3>1, <4>1, <4>2, UpdateFrame, ZenonT(30)
    <3> QED
      BY <2>3, <2>4, <3>1, ZenonT(30) DEF BackupEnds, MaybeKind, Results
  <2>5. CASE SaveRetentionState(w)
    <3>1. worker[w].task = "backup"
      BY <2>5, Zenon DEF SaveRetentionState, ResticExclusion
    <3> QED
      BY <2>3, <2>5, <3>1, ZenonT(30) DEF SaveRetentionState, MaybeKind, Results
  <2>6. CASE RepositoryOperationEnds(w)
    <3>1. worker[w].kind \in MaybeKind
      BY <2>b DEF WorkerStates
    <3> QED
      BY <2>3, <2>6, <3>1, ZenonT(30) DEF RepositoryOperationEnds, Results
  <2>7. CASE UpdateInstallEnds(w)
    <3>1. PICK result \in Results : Report(w, Event("UpdateInstallFinished", "none", result))
      BY <2>7, ZenonT(30) DEF UpdateInstallEnds, Results
    <3>2. worker[w].task = "update" /\ UNCHANGED runtime
      BY <2>7 DEF UpdateInstallEnds, ResticExclusion
    <3>3. /\ Task("update") = {w} /\ runtime.update_install_active
          /\ ~Holds(queue, "UpdateInstallRequested") /\ ~Holds(queue, "UpdateInstallFinished")
          /\ Once(queue, "UpdateInstallRequested") /\ Once(queue, "UpdateInstallFinished")
      BY <3>2, ZenonT(30) DEF UpdateInOnePlace, Task
    <3>4. Task("update")' = {}
      BY <2>c, <3>1, <3>3, ZenonT(30) DEF Task
    <3>5. /\ Event("UpdateInstallFinished", "none", result) \in RuntimeEvents
          /\ Event("UpdateInstallFinished", "none", result).type = "UpdateInstallFinished"
          /\ queue' = Append(queue, Event("UpdateInstallFinished", "none", result))
      BY <2>c, <3>1, EventType, ZenonT(30) DEF EventTypes, MaybeKind, Event
    <3>6. /\ ~Holds(queue', "UpdateInstallRequested")
          /\ Once(queue', "UpdateInstallRequested") /\ Once(queue', "UpdateInstallFinished")
      BY <1>a, <3>3, <3>5, HoldsAppend, ZenonT(30)
    <3> QED
      BY <3>2, <3>3, <3>4, <3>6, ZenonT(30) DEF UpdateInOnePlace
  <2> QED
    BY <2>a, <2>1, <2>2, <2>4, <2>5, <2>6, <2>7 DEF WorkerStep
<1>21. CASE RunNowChecksConfigured
  BY <1>21, <1>b DEF RunNowChecksConfigured, RestUnchanged
<1>22. CASE RunNowChecksRepository
  BY <1>22, <1>b, ZenonT(30) DEF RunNowChecksRepository, RestUnchanged
<1>23. CASE CancelChecksRunning
  BY <1>23, <1>b DEF CancelChecksRunning, RestUnchanged
<1>24. CASE DeferChecksConfigured
  BY <1>24, <1>b DEF DeferChecksConfigured, RestUnchanged
<1>25. CASE RepositoryOperationReadsConfig
  BY <1>25, <1>b DEF RepositoryOperationReadsConfig, RestUnchanged
<1>26. CASE SaveEnrollment
  BY <1>26, <1>b DEF SaveEnrollment, RestUnchanged
<1>27. CASE UnenrollChecks
  BY <1>27, <1>b DEF UnenrollChecks, RestUnchanged
<1>28. CASE UnenrollWrites
  BY <1>28, <1>b DEF UnenrollWrites, RestUnchanged
<1>29. CASE RunBackupNow
  BY <1>29, <1>a, <1>b DEF RunBackupNow, RestUnchanged, RuntimeStates
<1>30. CASE DeferBackup
  BY <1>30, <1>a, <1>b DEF DeferBackup, RestUnchanged, RuntimeStates
<1>31. CASE EnrollBegins
  BY <1>31, <1>a, <1>b DEF EnrollBegins, RestUnchanged, RuntimeStates
<1>32. CASE EnrollEnds
  BY <1>32, <1>a, <1>b, ZenonT(30) DEF EnrollEnds, RestUnchanged, RuntimeStates
<1>33. CASE UpdateSchedule
  BY <1>33, <1>a, <1>b, ProgressKept, ZenonT(30) DEF UpdateSchedule, RestUnchanged
<1>34. CASE UnenrollApplies
  BY <1>34, <1>a, <1>b, ProgressKept DEF UnenrollApplies, RestUnchanged
<1>35. CASE UpdateBackupSources
  BY <1>35, <1>a, <1>b, ProgressKept, ZenonT(30) DEF UpdateBackupSources, RestUnchanged
<1>36. CASE CommitEnrollment
  BY <1>36, <1>b, ProgressActivated, ZenonT(30) DEF CommitEnrollment, RestUnchanged
<1>37. CASE ApplyManagedPolicy
  BY <1>37, <1>b, ProgressActivated, ZenonT(30) DEF ApplyManagedPolicy, RestUnchanged
<1>38. CASE CancelBackup
  BY <1>38, <1>c DEF CancelBackup, RestUnchanged, EventTypes, MaybeKind, Results
<1>39. CASE PrepareForUpdate
  <2>1. ~runtime.update_install_active
    BY <1>39 DEF PrepareForUpdate, HoldForUpdate, NothingActive, UpdatePending
  <2>2. runtime'.update_install_active = FALSE /\ UNCHANGED <<queue, worker>>
    BY <1>39, <1>a DEF PrepareForUpdate, HoldForUpdate, RestUnchanged, RuntimeStates
  <2>3. runtime'.update_install_active = runtime.update_install_active
    BY <1>a, <2>1, <2>2, ZenonT(30) DEF RuntimeStates
  <2> QED
    BY <1>b, <2>2, <2>3
<1>40. CASE BeginUpdateInstall
  <2>1. ~runtime.update_install_active
    BY <1>40 DEF BeginUpdateInstall, HoldForUpdate, NothingActive, UpdatePending
  <2>2. /\ Task("update") = {}
        /\ ~Holds(queue, "UpdateInstallRequested") /\ ~Holds(queue, "UpdateInstallFinished")
        /\ Once(queue, "UpdateInstallRequested") /\ Once(queue, "UpdateInstallFinished")
    BY <2>1, ZenonT(30) DEF UpdateInOnePlace
  <2>3. /\ Event("UpdateInstallRequested", "none", "none") \in RuntimeEvents
        /\ Event("UpdateInstallRequested", "none", "none").type = "UpdateInstallRequested"
        /\ queue' = Append(queue, Event("UpdateInstallRequested", "none", "none"))
    BY <1>40, EventType, ZenonT(30)
       DEF BeginUpdateInstall, EventTypes, MaybeKind, Results, Event
  <2>4. /\ ~Holds(queue', "UpdateInstallFinished")
        /\ Once(queue', "UpdateInstallRequested") /\ Once(queue', "UpdateInstallFinished")
    BY <1>a, <2>2, <2>3, HoldsAppend
  <2>5. runtime'.update_install_active = TRUE /\ UNCHANGED worker
    BY <1>40, <1>a, ZenonT(30)
       DEF BeginUpdateInstall, HoldForUpdate, RestUnchanged, RuntimeStates
  <2> QED
    BY <2>2, <2>4, <2>5, ZenonT(30) DEF UpdateInOnePlace, Task
<1>41. CASE UpdateRepository
  <2>1. runtime'.update_install_active = runtime.update_install_active
    BY <1>41, ProgressReconnected
  <2> QED
    BY <1>41, <1>b, <2>1, ZenonT(30) DEF UpdateRepository, RestUnchanged
<1>42. CASE BeginRepositoryOperation
  <2>1. \A operation : OperationBegun(operation).update_install_active
                         = runtime.update_install_active
    BY <1>a, ZenonT(30) DEF OperationBegun, RuntimeStates
  <2>2. ipc.kind \in MaybeKind /\ UNCHANGED worker
    BY <1>42 DEF BeginRepositoryOperation, RestUnchanged, TypeOK, IpcStates
  <2>3. \/ UNCHANGED queue
        \/ queue' = Append(queue, Event("RepositoryOperationRequested", ipc.kind, "none"))
    BY <1>42 DEF BeginRepositoryOperation
  <2>4. runtime'.update_install_active = runtime.update_install_active
    BY <1>42, <2>1, ZenonT(30) DEF BeginRepositoryOperation
  <2> QED
    BY <1>b, <1>c, <2>2, <2>3, <2>4, ZenonT(30) DEF EventTypes, Results
<1>43. CASE UNCHANGED vars
  BY <1>43, <1>b DEF vars
<1> QED
  BY <1>1, <1>2, <1>3, <1>4, <1>5, <1>6, <1>7, <1>8, <1>9, <1>10, <1>11, <1>12, <1>13,
     <1>14, <1>15, <1>16, <1>17, <1>18, <1>19, <1>20, <1>21, <1>22, <1>23, <1>24, <1>25,
     <1>26, <1>27, <1>28, <1>29, <1>30, <1>31, <1>32, <1>33, <1>34, <1>35, <1>36, <1>37,
     <1>38, <1>39, <1>40, <1>41, <1>42, <1>43, ZenonT(30)
     DEF Next, EventLoopStep, ReceiveEvent, ContinueEvent, AcceptRequest, ContinueRequest

(* An installation that is under way is in one place.                      *)
LEMMA UpdateInOnePlaceCorrect == Spec => []UpdateInOnePlace
BY TypeCorrect, ExclusionCorrect, UpdateInOnePlaceInit, UpdateInOnePlaceStep, PTL DEF Spec

-----------------------------------------------------------------------------
(* A backup that runs is settled                                           *)

Enrolling == {"enroll", "enrolling", "enrolled"}

(* As long as a backup worker exists the status is Running, the repository *)
(* is ready and stays the configured one, and no update is pending; nor is *)
(* one during a repository operation.  An enrollment, which may move the   *)
(* repository, keeps backups from starting.  This holds where no client    *)
(* asks to unenroll, which moves it without such a hold.                   *)
BackupSettled ==
    /\ ipc.pc \notin {"unenroll", "unenrolled"}
    /\ ipc.pc \in Enrolling => runtime.management_operation_active /\ Task("backup") = {}
    /\ OperationRunning => ~UpdatePending
    /\ \A w \in Workers : worker[w].task = "backup" =>
         /\ IsRunning
         /\ AllowsBackup(runtime.repository_operation)
         /\ ~UpdatePending
         /\ worker[w].repository \in {Absent, Identity(config)}

(* What a step that starts no backup must leave alone.                     *)
LEMMA BackupFrame ==
    ASSUME BackupSettled,
           ipc'.pc \notin {"unenroll", "unenrolled"},
           ipc'.pc \in Enrolling =>
               runtime'.management_operation_active /\ Task("backup") = {},
           OperationRunning' /\ UpdatePending' => OperationRunning /\ UpdatePending,
           \A w \in Workers : worker'[w].task = "backup" =>
               /\ worker[w].task = "backup"
               /\ worker'[w].repository \in {Absent, worker[w].repository, Identity(config)}
               /\ IsRunning'
               /\ AllowsBackup(runtime'.repository_operation)
               /\ UpdatePending' => UpdatePending
               /\ Identity(config') = Identity(config)
    PROVE  BackupSettled'
<1>1. ipc'.pc \in Enrolling => Task("backup")' = {}
  BY ZenonT(30) DEF Task
<1>2. OperationRunning' => ~UpdatePending'
  BY ZenonT(30) DEF BackupSettled
<1>3. ASSUME NEW w \in Workers, worker'[w].task = "backup"
      PROVE  /\ IsRunning'
             /\ AllowsBackup(runtime'.repository_operation)
             /\ ~UpdatePending'
             /\ worker'[w].repository \in {Absent, Identity(config')}
  BY <1>3, ZenonT(30) DEF BackupSettled
<1> QED
  BY <1>1, <1>2, <1>3, ZenonT(30) DEF BackupSettled

LEMMA BackupSettledInit == Init => BackupSettled
<1> SUFFICES ASSUME Init PROVE BackupSettled
  OBVIOUS
<1>1. /\ worker = [w \in Workers |-> NoTask] /\ ipc = IpcIdle
      /\ runtime = LoadedRuntime(NeverValidated, NoConfig)
  BY ZenonT(30) DEF Init
<1>2. ipc.pc = "idle" /\ \A w \in Workers : worker[w].task = "none"
  BY <1>1, ZenonT(30) DEF IpcIdle, NoTask
<1>3. ~OperationRunning
  BY <1>1 DEF LoadedRuntime, Settled, OperationRunning
<1> QED
  BY <1>2, <1>3 DEF BackupSettled, Enrolling

(* Every step keeps a running backup settled.                              *)
LEMMA BackupSettledStep ==
    ASSUME "Unenroll" \notin Requests
    PROVE  TypeOK /\ ResticExclusion /\ UpdateInOnePlace /\ BackupSettled /\ [Next]_vars
             => BackupSettled'
<1> SUFFICES ASSUME TypeOK, ResticExclusion, UpdateInOnePlace, BackupSettled, [Next]_vars
             PROVE  BackupSettled'
  OBVIOUS
<1> USE DEF configVars, activeVars, loopVars
<1>a. /\ runtime \in RuntimeStates
      /\ config \in Configs
      /\ queue \in Seq(RuntimeEvents)
      /\ worker \in [Workers -> WorkerStates]
      /\ NoWorker \notin Workers
  BY ConstantsAssumption DEF TypeOK
<1>b. /\ ipc.pc \notin {"unenroll", "unenrolled"}
      /\ ipc.pc \in Enrolling => runtime.management_operation_active /\ Task("backup") = {}
      /\ ~IsRunning => Task("backup") = {}
      /\ OperationRunning => Task("backup") = {}
      /\ UpdatePending => Task("backup") = {}
  <2>1. OperationRunning => ~AllowsBackup(runtime.repository_operation)
    BY DEF OperationRunning, AllowsBackup, Settled
  <2> QED
    BY <2>1, ZenonT(30) DEF BackupSettled, Task
<1>c. CASE /\ UNCHANGED <<config, ipc>>
           /\ runtime'.state = runtime.state
           /\ runtime'.repository_operation = runtime.repository_operation
           /\ runtime'.management_operation_active = runtime.management_operation_active
           /\ UpdatePending' => UpdatePending
           /\ \A w \in Workers : worker'[w].task = "backup" =>
                /\ worker[w].task = "backup"
                /\ worker'[w].repository \in {Absent, worker[w].repository, Identity(config)}
  <2>1. (IsRunning' <=> IsRunning) /\ (OperationRunning' <=> OperationRunning)
    BY <1>c DEF IsRunning, OperationRunning
  <2>2. \A w \in Workers : worker'[w].task = "backup" =>
               /\ worker[w].task = "backup"
               /\ worker'[w].repository \in {Absent, worker[w].repository, Identity(config)}
               /\ IsRunning'
               /\ AllowsBackup(runtime'.repository_operation)
               /\ UpdatePending' => UpdatePending
               /\ Identity(config') = Identity(config)
    BY <1>c, <2>1, ZenonT(30) DEF BackupSettled
  <2> QED
    BY <1>b, <1>c, <2>1, <2>2, BackupFrame, ZenonT(30)
<1>d. CASE /\ Task("backup") = {}
           /\ ipc' = ipc \/ ipc'.pc \notin {"unenroll", "unenrolled"} \cup Enrolling
           /\ runtime'.management_operation_active = runtime.management_operation_active
           /\ OperationRunning' /\ UpdatePending' => OperationRunning /\ UpdatePending
           /\ \A w \in Workers : worker'[w].task = "backup" => worker[w].task = "backup"
  BY <1>b, <1>d, BackupFrame, ZenonT(30) DEF Task
<1>e. CASE /\ UNCHANGED <<runtime, config, worker>>
           /\ ipc'.pc \notin {"unenroll", "unenrolled"} \cup Enrolling
  <2>1. /\ IsRunning' <=> IsRunning
        /\ OperationRunning' <=> OperationRunning
        /\ UpdatePending' <=> UpdatePending
    BY <1>e DEF IsRunning, OperationRunning, UpdatePending
  <2> QED
    BY <1>e, <2>1, BackupFrame, ZenonT(30) DEF BackupSettled
<1>1. CASE Start
  <2>1. ipc' = ipc /\ ipc.pc = "idle" /\ \A w \in Workers : worker'[w].task = "none"
    BY <1>1 DEF Start, ResticExclusion, Task
  <2>2. ~OperationRunning'
    BY <1>1 DEF Start, LoadedRuntime, Settled, OperationRunning
  <2> QED
    BY <2>1, <2>2, BackupFrame, ZenonT(30) DEF Enrolling
<1>2. CASE Crash \/ Exit
  <2>1. ipc'.pc = "idle" /\ \A w \in Workers : worker'[w].task = "none"
    <3>1. ipc' = IpcIdle /\ worker' = [w \in Workers |-> NoTask]
      BY <1>2, ZenonT(30) DEF Crash, Exit, Terminate
    <3> QED
      BY <3>1 DEF IpcIdle, NoTask
  <2>2. ~OperationRunning'
    BY <1>2 DEF Crash, Exit, Terminate, LoadedRuntime, Settled, OperationRunning
  <2> QED
    BY <2>1, <2>2, BackupFrame, ZenonT(30) DEF Enrolling
<1>3. CASE HoldExpires
  BY <1>3, <1>a, <1>c, ZenonT(30) DEF HoldExpires, UpdatePending, RuntimeStates
<1>4. CASE ControlStop
  BY <1>4, <1>c DEF ControlStop, UpdatePending
<1>5. CASE Wake
  BY <1>5, <1>c, ZenonT(30) DEF Wake, UpdatePending
<1>6. CASE SaveBackupState
  BY <1>6, <1>c DEF SaveBackupState, UpdatePending
<1>7. CASE EvaluateWhileUpdating
  <2>1. Task("backup") = {}
    BY <1>7, <1>a
       DEF EvaluateWhileUpdating, Evaluating, ResticExclusion, BackupInOnePlace, Task
  <2>2. /\ runtime'.management_operation_active = runtime.management_operation_active
        /\ runtime'.repository_operation = runtime.repository_operation
        /\ UpdatePending' <=> UpdatePending
        /\ UNCHANGED <<ipc, worker>>
    BY <1>7, <1>a DEF EvaluateWhileUpdating, Evaluating, UpdatePending, RuntimeStates
  <2> QED
    BY <1>d, <2>1, <2>2, ZenonT(30) DEF OperationRunning
<1>8. CASE EvaluateWithoutStart
  <2>1. Task("backup") = {}
    BY <1>8, <1>a
       DEF EvaluateWithoutStart, Evaluating, ResticExclusion, BackupInOnePlace, Task
  <2>2. /\ runtime'.management_operation_active = runtime.management_operation_active
        /\ runtime'.repository_operation = runtime.repository_operation
        /\ runtime'.update_install_active = runtime.update_install_active
        /\ runtime'.update_hold_until = "none"
    <3> DEFINE r == HoldReleased(runtime)
    <3>1. /\ r \in RuntimeStates
          /\ r.management_operation_active = runtime.management_operation_active
          /\ r.repository_operation = runtime.repository_operation
          /\ r.update_install_active = runtime.update_install_active
          /\ r.update_hold_until = "none"
      BY <1>a, HoldReleasedType, StatusKept, ProgressKept
    <3>2. \E state : runtime' \in {r, [r EXCEPT !.state = state]}
      BY <1>8, ZenonT(30) DEF EvaluateWithoutStart
    <3> QED
      BY <3>1, <3>2, ZenonT(30) DEF RuntimeStates
  <2>3. UpdatePending' => UpdatePending
    BY <2>2 DEF UpdatePending
  <2>4. UNCHANGED <<ipc, worker>>
    BY <1>8 DEF EvaluateWithoutStart, Evaluating
  <2> QED
    BY <1>d, <2>1, <2>2, <2>3, <2>4, ZenonT(30) DEF OperationRunning
<1>9. CASE EvaluateToStart
  <2>1. Task("backup") = {}
    BY <1>9, <1>a DEF EvaluateToStart, Evaluating, ResticExclusion, BackupInOnePlace, Task
  <2>2. /\ runtime'.state = "Running"
        /\ runtime'.management_operation_active = runtime.management_operation_active
        /\ runtime'.repository_operation = runtime.repository_operation
        /\ runtime'.update_install_active = runtime.update_install_active
        /\ runtime'.update_hold_until = "none"
    BY <1>9, <1>a, HoldReleasedType, StatusKept, ProgressKept
       DEF EvaluateToStart, RuntimeStates
  <2>3. ~UpdatePending'
    BY <1>9, <2>2 DEF EvaluateToStart, UpdatePending
  <2>4. ~runtime.management_operation_active /\ AllowsBackup(runtime.repository_operation)
    BY <1>9, <1>a, StatusKept, ProgressKept DEF EvaluateToStart, MayDecide
  <2>5. UNCHANGED <<ipc, config>>
    BY <1>9 DEF EvaluateToStart, Evaluating
  <2>6. \A w \in Workers : worker'[w].task = "backup" => worker'[w].repository = Absent
    BY <1>9, <1>a, <2>1, ZenonT(30) DEF EvaluateToStart, Spawned, NoTask, Task
  <2> QED
    BY <1>b, <2>2, <2>3, <2>4, <2>5, <2>6, ZenonT(30) DEF BackupSettled, IsRunning
<1>10. CASE FinishFailedStart
  <2>1. Task("backup") = {}
    BY <1>10, <1>a DEF FinishFailedStart, ResticExclusion, BackupInOnePlace, Task
  <2>2. /\ runtime'.management_operation_active = runtime.management_operation_active
        /\ runtime'.repository_operation = runtime.repository_operation
        /\ UpdatePending' <=> UpdatePending
        /\ UNCHANGED <<ipc, worker>>
    BY <1>10, <1>a DEF FinishFailedStart, UpdatePending, RuntimeStates
  <2> QED
    BY <1>d, <2>1, <2>2, ZenonT(30) DEF OperationRunning
<1>11. CASE ReceiveStop
  <2>1. \A w \in Workers : /\ worker'[w].task = worker[w].task
                           /\ worker'[w].repository = worker[w].repository
    BY <1>11, <1>a, ZenonT(30) DEF ReceiveStop, Cancelled, WorkerStates
  <2>2. UNCHANGED <<runtime, config, ipc>>
    BY <1>11, ZenonT(30) DEF ReceiveStop, Receive
  <2> QED
    BY <1>c, <2>1, <2>2, ZenonT(30) DEF UpdatePending
<1>12. CASE ReceiveCancel
  <2>1. \A w \in Workers : /\ worker'[w].task = worker[w].task
                           /\ worker'[w].repository = worker[w].repository
    BY <1>12, <1>a DEF ReceiveCancel, Cancelled, WorkerStates
  <2>2. UNCHANGED <<runtime, config, ipc>>
    BY <1>12 DEF ReceiveCancel, Receive
  <2> QED
    BY <1>c, <2>1, <2>2, ZenonT(30) DEF UpdatePending
<1>13. CASE ReceiveBackupFinished
  <2>1. Holds(queue, "BackupFinished")
    BY <1>13, <1>a, HoldsTail, ZenonT(30) DEF ReceiveBackupFinished, Receive
  <2>2. Task("backup") = {}
    BY <2>1 DEF ResticExclusion, BackupInOnePlace
  <2>3. /\ runtime'.management_operation_active = runtime.management_operation_active
        /\ runtime'.repository_operation = runtime.repository_operation
        /\ UpdatePending' <=> UpdatePending
        /\ UNCHANGED <<ipc, worker>>
    BY <1>13, <1>a DEF ReceiveBackupFinished, Receive, UpdatePending, RuntimeStates
  <2> QED
    BY <1>d, <2>2, <2>3, ZenonT(30) DEF OperationRunning
<1>14. CASE ReceiveRepositoryOperationRequested
  <2>1. \A w \in Workers : worker'[w] = worker[w] \/ worker'[w].task = "repository"
    BY <1>14, <1>a, ZenonT(30) DEF ReceiveRepositoryOperationRequested, Spawned, NoTask
  <2>2. UNCHANGED <<runtime, config, ipc>>
    BY <1>14, ZenonT(30) DEF ReceiveRepositoryOperationRequested, Receive
  <2> QED
    BY <1>c, <2>1, <2>2, ZenonT(30) DEF UpdatePending
<1>15. CASE ReceiveRepositoryOperationFinished
  BY <1>15, <1>c, ZenonT(30) DEF ReceiveRepositoryOperationFinished, Receive, UpdatePending
<1>16. CASE DiscardWhileDraining
  BY <1>16, <1>c DEF DiscardWhileDraining, Receive, UpdatePending
<1>17. CASE FinishRepositoryOperation
  <2>1. OperationRunning
    BY <1>17, ZenonT(30) DEF FinishRepositoryOperation, ResticExclusion, OperationInOnePlace
  <2>2. UpdatePending' <=> UpdatePending
    BY <1>17, ProgressFinished DEF UpdatePending
  <2>3. UNCHANGED <<ipc, worker>>
    BY <1>17 DEF FinishRepositoryOperation
  <2> QED
    BY <1>17, <1>b, <1>d, <2>1, <2>2, <2>3, ProgressFinished, ZenonT(30)
<1>18. CASE ReceiveUpdateInstallRequested
  <2>1. Holds(queue, "UpdateInstallRequested")
    BY <1>18, <1>a, HoldsTail, ZenonT(30) DEF ReceiveUpdateInstallRequested, Receive
  <2>2. UpdatePending
    BY <2>1 DEF UpdateInOnePlace, UpdatePending
  <2>3. \A w \in Workers : worker'[w].task = "backup" => worker[w].task = "backup"
    BY <1>18, <1>a, ZenonT(30) DEF ReceiveUpdateInstallRequested, Spawned, NoTask
  <2>4. /\ runtime'.management_operation_active = runtime.management_operation_active
        /\ runtime'.repository_operation = runtime.repository_operation
        /\ UNCHANGED ipc
    <3>1. runtime' \in {runtime, UpdateInstallFinished(runtime, "failed")} /\ UNCHANGED ipc
      BY <1>18, ZenonT(30) DEF ReceiveUpdateInstallRequested, Receive
    <3>2. LET r == UpdateInstallFinished(runtime, "failed") IN
          /\ r.management_operation_active = runtime.management_operation_active
          /\ r.repository_operation = runtime.repository_operation
      BY <1>a, StatusKept, ProgressKept
    <3> QED
      BY <3>1, <3>2
  <2> QED
    BY <1>b, <1>d, <2>2, <2>3, <2>4, ZenonT(30) DEF OperationRunning
<1>19. CASE ReceiveUpdateInstallFinished
  <2>1. Holds(queue, "UpdateInstallFinished")
    BY <1>19, <1>a, HoldsTail, ZenonT(30) DEF ReceiveUpdateInstallFinished, Receive
  <2>2. UpdatePending
    BY <2>1 DEF UpdateInOnePlace, UpdatePending
  <2>3. /\ runtime'.management_operation_active = runtime.management_operation_active
        /\ runtime'.repository_operation = runtime.repository_operation
        /\ UNCHANGED <<ipc, worker>>
    BY <1>19, <1>a, StatusKept, ProgressKept, ZenonT(30)
       DEF ReceiveUpdateInstallFinished, Receive
  <2> QED
    BY <1>b, <1>d, <2>2, <2>3, ZenonT(30) DEF OperationRunning
<1>20. CASE \E w \in Workers : WorkerStep(w)
  <2>a. PICK w \in Workers : WorkerStep(w)
    BY <1>20
  <2>b. worker[w] \in WorkerStates
    BY <1>a, ZenonT(30)
  <2>c. ASSUME NEW e, Report(w, e)
        PROVE  \A v \in Workers : worker'[v] = worker[v] \/ worker'[v].task = "none"
    BY <1>a, <2>c DEF Report, NoTask
  <2>1. CASE WorkerReadsConfig(w)
    <3>1. \A v \in Workers :
             /\ worker'[v].task = worker[v].task
             /\ worker'[v].repository \in {worker[v].repository, Identity(config)}
      BY <1>a, <2>b, <2>1 DEF WorkerReadsConfig, WorkerStates
    <3> QED
      BY <1>c, <2>1, <3>1, ZenonT(30) DEF WorkerReadsConfig, UpdatePending
  <2>2. CASE RetentionEnds(w)
    <3>1. \A v \in Workers : /\ worker'[v].task = worker[v].task
                             /\ worker'[v].repository = worker[v].repository
      BY <1>a, <2>b, <2>2 DEF RetentionEnds, WorkerStates
    <3> QED
      BY <1>c, <2>2, <3>1, ZenonT(30) DEF RetentionEnds, UpdatePending
  <2>3. CASE UNCHANGED <<runtime, config, ipc>> /\ \E e : Report(w, e)
    BY <1>c, <2>3, <2>c, ZenonT(30) DEF UpdatePending
  <2>4. CASE BackupEnds(w)
    <3>1. CASE /\ runtime' = [runtime EXCEPT !.state = "Running"]
               /\ worker' = [worker EXCEPT ![w] = [@ EXCEPT !.pc = "retention"]]
      <4>1. /\ runtime.state = "Running" /\ UNCHANGED <<config, ipc>>
        BY <2>4 DEF BackupEnds, BackupSettled, IsRunning
      <4>2. /\ runtime'.state = runtime.state
            /\ runtime'.management_operation_active = runtime.management_operation_active
            /\ runtime'.repository_operation = runtime.repository_operation
            /\ UpdatePending' <=> UpdatePending
        BY <1>a, <3>1, <4>1 DEF RuntimeStates, UpdatePending
      <4>3. \A v \in Workers : /\ worker'[v].task = worker[v].task
                               /\ worker'[v].repository = worker[v].repository
        BY <1>a, <2>b, <3>1 DEF WorkerStates
      <4> QED
        BY <1>c, <4>1, <4>2, <4>3, ZenonT(30)
    <3> QED
      BY <2>3, <2>4, <3>1, ZenonT(30) DEF BackupEnds
  <2>5. CASE SaveRetentionState(w)
    BY <2>3, <2>5, ZenonT(30) DEF SaveRetentionState
  <2>6. CASE RepositoryOperationEnds(w)
    BY <2>3, <2>6, ZenonT(30) DEF RepositoryOperationEnds
  <2>7. CASE UpdateInstallEnds(w)
    BY <2>3, <2>7, ZenonT(30) DEF UpdateInstallEnds
  <2> QED
    BY <2>a, <2>1, <2>2, <2>4, <2>5, <2>6, <2>7, ZenonT(30) DEF WorkerStep
<1>21. CASE RunNowChecksConfigured
  BY <1>21, <1>e
     DEF RunNowChecksConfigured, Continue, Reply, IpcIdle, RestUnchanged, Enrolling
<1>22. CASE RunNowChecksRepository
  BY <1>22, <1>e
     DEF RunNowChecksRepository, Continue, Reply, IpcIdle, RestUnchanged, Enrolling
<1>23. CASE CancelChecksRunning
  BY <1>23, <1>e, ZenonT(30)
     DEF CancelChecksRunning, Continue, Reply, IpcIdle, RestUnchanged, Enrolling
<1>24. CASE CancelBackup
  BY <1>24, <1>e
     DEF CancelBackup, Continue, Reply, IpcIdle, RestUnchanged, Enrolling
<1>25. CASE DeferChecksConfigured
  BY <1>25, <1>e
     DEF DeferChecksConfigured, Continue, Reply, IpcIdle, RestUnchanged, Enrolling
<1>26. CASE RepositoryOperationReadsConfig
  BY <1>26, <1>e
     DEF RepositoryOperationReadsConfig, Continue, Reply, IpcIdle, RestUnchanged, Enrolling
<1>27. CASE SaveEnrollment
  <2>1. ipc.pc = "enroll" /\ ipc'.pc = "enrolling" /\ UNCHANGED <<runtime, config, worker>>
    BY <1>27, ZenonT(30) DEF SaveEnrollment, At, IpcIdle, RestUnchanged
  <2>2. /\ Task("backup") = {} /\ runtime'.management_operation_active
        /\ OperationRunning' <=> OperationRunning
        /\ UpdatePending' <=> UpdatePending
    BY <1>b, <2>1 DEF Enrolling, OperationRunning, UpdatePending
  <2> QED
    BY <2>1, <2>2, BackupFrame, ZenonT(30) DEF Task
<1>28. CASE RunBackupNow
  <2>1. /\ runtime'.state = runtime.state
        /\ runtime'.repository_operation = runtime.repository_operation
        /\ UpdatePending' <=> UpdatePending
    BY <1>28, <1>a DEF RunBackupNow, UpdatePending, RuntimeStates
  <2>2. ipc'.pc = "idle" /\ UNCHANGED <<config, worker>>
    BY <1>28, ZenonT(30) DEF RunBackupNow, Reply, IpcIdle, RestUnchanged
  <2>3. (IsRunning' <=> IsRunning) /\ (OperationRunning' <=> OperationRunning)
    BY <2>1, ZenonT(30) DEF IsRunning, OperationRunning
  <2> QED
    BY <2>1, <2>2, <2>3, BackupFrame, ZenonT(30) DEF BackupSettled, Enrolling
<1>29. CASE DeferBackup
  <2>1. /\ runtime'.state = runtime.state
        /\ runtime'.repository_operation = runtime.repository_operation
        /\ UpdatePending' <=> UpdatePending
    BY <1>29, <1>a DEF DeferBackup, UpdatePending, RuntimeStates
  <2>2. ipc'.pc = "idle" /\ UNCHANGED <<config, worker>>
    BY <1>29 DEF DeferBackup, Reply, IpcIdle, RestUnchanged
  <2>3. (IsRunning' <=> IsRunning) /\ (OperationRunning' <=> OperationRunning)
    BY <2>1 DEF IsRunning, OperationRunning
  <2> QED
    BY <2>1, <2>2, <2>3, BackupFrame, ZenonT(30) DEF BackupSettled, Enrolling
<1>30. CASE PrepareForUpdate
  <2>1. ~IsRunning /\ ~OperationRunning
    BY <1>30 DEF PrepareForUpdate, HoldForUpdate, NothingActive
  <2>2. /\ runtime'.management_operation_active = runtime.management_operation_active
        /\ runtime'.repository_operation = runtime.repository_operation
        /\ UNCHANGED <<ipc, worker>>
    BY <1>30, <1>a, ZenonT(30)
       DEF PrepareForUpdate, HoldForUpdate, RestUnchanged, RuntimeStates
  <2> QED
    BY <1>b, <1>d, <2>1, <2>2, ZenonT(30) DEF OperationRunning
<1>31. CASE BeginUpdateInstall
  <2>1. ~IsRunning /\ ~OperationRunning
    BY <1>31 DEF BeginUpdateInstall, HoldForUpdate, NothingActive
  <2>2. /\ runtime'.management_operation_active = runtime.management_operation_active
        /\ runtime'.repository_operation = runtime.repository_operation
        /\ UNCHANGED <<ipc, worker>>
    BY <1>31, <1>a DEF BeginUpdateInstall, HoldForUpdate, RestUnchanged, RuntimeStates
  <2> QED
    BY <1>b, <1>d, <2>1, <2>2, ZenonT(30) DEF OperationRunning
<1>32. CASE EnrollBegins
  <2>1. ~IsRunning /\ ~OperationRunning
    BY <1>32 DEF EnrollBegins, NothingActive
  <2>2. /\ runtime'.management_operation_active = TRUE
        /\ runtime'.repository_operation = runtime.repository_operation
        /\ ipc'.pc = "enroll" /\ UNCHANGED worker
    BY <1>32, <1>a DEF EnrollBegins, Continue, IpcIdle, RestUnchanged, RuntimeStates
  <2> QED
    BY <1>b, <2>1, <2>2, BackupFrame, ZenonT(30) DEF OperationRunning, Task
<1>33. CASE EnrollEnds
  <2>1. Task("backup") = {}
    BY <1>33, <1>b DEF EnrollEnds, At, Enrolling
  <2>2. /\ runtime'.repository_operation = runtime.repository_operation
        /\ UpdatePending' <=> UpdatePending
        /\ ipc'.pc = "idle" /\ UNCHANGED worker
    BY <1>33, <1>a
       DEF EnrollEnds, Reply, IpcIdle, RestUnchanged, UpdatePending, RuntimeStates
  <2> QED
    BY <2>1, <2>2, BackupFrame, ZenonT(30) DEF OperationRunning, Task, Enrolling
<1>34. CASE UpdateSchedule
  <2>1. ~IsRunning
    BY <1>34, ZenonT(30) DEF UpdateSchedule, MayChangeConfiguration
  <2>2. /\ runtime'.management_operation_active = runtime.management_operation_active
        /\ runtime'.repository_operation = runtime.repository_operation
        /\ UpdatePending' <=> UpdatePending
    <3>1. runtime' = ApplyConfigurationStatus(runtime, config)
      BY <1>34, ZenonT(30) DEF UpdateSchedule
    <3> QED
      BY <1>a, <3>1, StatusKept, ProgressKept DEF UpdatePending
  <2>3. UNCHANGED <<ipc, worker>>
    BY <1>34, ZenonT(30) DEF UpdateSchedule, RestUnchanged
  <2> QED
    BY <1>b, <1>d, <2>1, <2>2, <2>3, ZenonT(30) DEF OperationRunning
<1>35. CASE UpdateBackupSources
  <2>1. ~IsRunning
    BY <1>35 DEF UpdateBackupSources
  <2>2. /\ runtime'.management_operation_active = runtime.management_operation_active
        /\ runtime'.repository_operation = runtime.repository_operation
        /\ UpdatePending' <=> UpdatePending
    BY <1>35, <1>a, StatusKept, ProgressKept DEF UpdateBackupSources, UpdatePending
  <2>3. UNCHANGED <<ipc, worker>>
    BY <1>35 DEF UpdateBackupSources, RestUnchanged
  <2> QED
    BY <1>b, <1>d, <2>1, <2>2, <2>3, ZenonT(30) DEF OperationRunning
<1>36. CASE UpdateRepository
  <2>1. ~IsRunning /\ ~UpdatePending /\ UNCHANGED <<ipc, worker>>
    BY <1>36, ZenonT(30) DEF UpdateRepository, MayChangeConfiguration, RestUnchanged
  <2>2. /\ runtime'.update_install_active = runtime.update_install_active
        /\ runtime'.update_hold_until = runtime.update_hold_until
        /\ runtime'.management_operation_active = runtime.management_operation_active
    BY <1>36, ProgressReconnected
  <2> QED
    BY <1>b, <1>d, <2>1, <2>2, ZenonT(30) DEF UpdatePending
<1>37. CASE CommitEnrollment
  <2>1. /\ ipc.pc = "enrolling" /\ ipc'.pc = "enrolled" /\ UNCHANGED worker
        /\ \E local, p : ActivatePolicy(local, p)
    BY <1>37 DEF CommitEnrollment, At, Continue, IpcIdle, RestUnchanged
  <2>2. /\ Task("backup") = {} /\ runtime.management_operation_active
        /\ ~OperationRunning
    BY <1>b, <2>1, ZenonT(30) DEF Enrolling, ResticExclusion, OperationInOnePlace
  <2>3. /\ runtime'.management_operation_active = runtime.management_operation_active
        /\ ~OperationRunning'
    BY <2>1, <2>2, ProgressActivated, ActivatedStatus, ZenonT(30)
  <2> QED
    BY <2>1, <2>2, <2>3, BackupFrame, ZenonT(30) DEF Task
<1>38. CASE ApplyManagedPolicy
  <2>1. /\ ~IsRunning /\ ~OperationRunning /\ UNCHANGED <<ipc, worker>>
        /\ \E local, p : ActivatePolicy(local, p)
    BY <1>38 DEF ApplyManagedPolicy, MayChangeConfiguration, RestUnchanged
  <2>2. /\ runtime'.management_operation_active = runtime.management_operation_active
        /\ ~OperationRunning'
    BY <2>1, ProgressActivated, ActivatedStatus, ZenonT(30)
  <2> QED
    BY <1>b, <1>d, <2>1, <2>2, ZenonT(30)
<1>39. CASE BeginRepositoryOperation
  <2>1. ipc'.pc = "idle" /\ UNCHANGED <<config, worker>>
    BY <1>39 DEF BeginRepositoryOperation, Reply, IpcIdle, RestUnchanged
  <2>2. CASE UNCHANGED runtime
    BY <1>e, <2>1, <2>2 DEF Enrolling
  <2>3. CASE /\ ~UpdatePending /\ ~IsRunning
             /\ \E operation : runtime' = OperationBegun(operation)
    <3>1. UpdatePending' <=> UpdatePending
      BY <1>a, <2>3 DEF OperationBegun, UpdatePending, RuntimeStates
    <3> QED
      BY <1>b, <2>1, <2>3, <3>1, BackupFrame, ZenonT(30) DEF Task, Enrolling
  <2> QED
    BY <1>39, <2>2, <2>3, ZenonT(30) DEF BeginRepositoryOperation
<1>40. CASE UnenrollChecks \/ UnenrollWrites \/ UnenrollApplies
  BY <1>40, <1>b, ZenonT(30)
     DEF UnenrollChecks, UnenrollWrites, UnenrollApplies, Accepts, At
<1>41. CASE UNCHANGED vars
  BY <1>41, <1>c DEF vars, UpdatePending
<1> QED
  BY <1>1, <1>2, <1>3, <1>4, <1>5, <1>6, <1>7, <1>8, <1>9, <1>10, <1>11, <1>12, <1>13,
     <1>14, <1>15, <1>16, <1>17, <1>18, <1>19, <1>20, <1>21, <1>22, <1>23, <1>24, <1>25,
     <1>26, <1>27, <1>28, <1>29, <1>30, <1>31, <1>32, <1>33, <1>34, <1>35, <1>36, <1>37,
     <1>38, <1>39, <1>40, <1>41, ZenonT(30)
     DEF Next, EventLoopStep, ReceiveEvent, ContinueEvent, AcceptRequest, ContinueRequest

-----------------------------------------------------------------------------
(* The repository that is ready is the one that was verified               *)

(* A step that makes nothing ready and keeps what was verified.            *)
LEMMA ReadyFrame ==
    ASSUME ReadyMeansVerified,
           AllowsBackup(runtime'.repository_operation) =>
               /\ AllowsBackup(runtime.repository_operation)
               /\ runtime'.service_state = runtime.service_state
               /\ config'.url = config.url
               /\ Identity(config') = Identity(config)
    PROVE  ReadyMeansVerified'
BY ZenonT(30) DEF ReadyMeansVerified, RepositoryRequiresValidation

LEMMA NotReady ==
    \A s \in {"NotRun", "ValidationRequired", "Failed"} : ~AllowsBackup(Settled(s))
BY ZenonT(30) DEF AllowsBackup, Settled

LEMMA ReadyInit == Init => ReadyMeansVerified
BY DEF Init, ReadyMeansVerified, NoConfig

(* A policy that moves the repository makes it wait for a validation.      *)
LEMMA ReadyActivated ==
    ASSUME TypeOK, NEW local, NEW p, ActivatePolicy(local, p)
    PROVE  ReadyMeansVerified'
<1>1. runtime \in RuntimeStates /\ config' = Resolve(local, p)
  BY DEF TypeOK, ActivatePolicy
<1>2. CASE RepositoryRequiresValidation(runtime.service_state, Resolve(local, p))
  <2>1. ValidationRequired \in ServiceStates /\ Settled("ValidationRequired") \in OperationStatuses
    BY DefaultTypes, VerifiedType, StatusTypes
  <2>2. runtime'.repository_operation = Settled("ValidationRequired")
    BY <1>2, <2>1, ProgressSettled, ZenonT(30) DEF ActivatePolicy
  <2> QED
    BY <2>2, NotReady DEF ReadyMeansVerified
<1>3. CASE ~RepositoryRequiresValidation(runtime.service_state, Resolve(local, p))
  <2>1. runtime'.service_state = runtime.service_state
    BY <1>1, <1>3, RecordKept, ZenonT(30) DEF ActivatePolicy
  <2> QED
    BY <1>1, <1>3, <2>1, ZenonT(30) DEF ReadyMeansVerified
<1> QED
  BY <1>2, <1>3

(* Every step keeps a ready repository verified.                           *)
LEMMA ReadyStep ==
    TypeOK /\ OperationOnConfig /\ BackupSettled /\ ReadyMeansVerified /\ [Next]_vars
      => ReadyMeansVerified'
<1> SUFFICES ASSUME TypeOK, OperationOnConfig, BackupSettled, ReadyMeansVerified, [Next]_vars
             PROVE  ReadyMeansVerified'
  OBVIOUS
<1> USE DEF configVars, activeVars, loopVars
<1>a. runtime \in RuntimeStates /\ config \in Configs
  BY DEF TypeOK
<1>b. CASE /\ UNCHANGED config
           /\ runtime'.repository_operation = runtime.repository_operation
           /\ runtime'.service_state = runtime.service_state
  BY <1>b, ReadyFrame, ZenonT(30)
<1>1. CASE Start
  <2>1. ASSUME NEW s, runtime' = LoadedRuntime(s, config') PROVE ReadyMeansVerified'
    BY <2>1, ZenonT(30) DEF LoadedRuntime, AllowsBackup, Settled, ReadyMeansVerified
  <2>2. ASSUME config' = NoConfig PROVE ReadyMeansVerified'
    BY <2>2, ZenonT(30) DEF NoConfig, ReadyMeansVerified
  <2> QED
    BY <1>1, <2>1, <2>2, ZenonT(30) DEF Start
<1>2. CASE Crash \/ Exit
  BY <1>2 DEF Crash, Exit, Terminate, NoConfig, ReadyMeansVerified
<1>3. CASE HoldExpires
  BY <1>3, <1>a, <1>b, ZenonT(30) DEF HoldExpires, RuntimeStates
<1>4. CASE ControlStop
  BY <1>4, <1>b DEF ControlStop
<1>5. CASE Wake
  BY <1>5, <1>b, ZenonT(30) DEF Wake
<1>6. CASE SaveBackupState
  BY <1>6, <1>b DEF SaveBackupState
<1>7. CASE EvaluateWhileUpdating
  BY <1>7, <1>a, <1>b DEF EvaluateWhileUpdating, Evaluating, RuntimeStates
<1>8. CASE EvaluateWithoutStart
  <2>1. /\ runtime'.repository_operation = runtime.repository_operation
        /\ runtime'.service_state = runtime.service_state
    BY <1>8, <1>a, HoldReleasedType, StatusKept, RecordKept, ZenonT(30)
       DEF EvaluateWithoutStart, RuntimeStates
  <2> QED
    BY <1>8, <1>b, <2>1 DEF EvaluateWithoutStart, Evaluating
<1>9. CASE EvaluateToStart
  <2>1. /\ runtime'.repository_operation = runtime.repository_operation
        /\ runtime'.service_state = runtime.service_state
    BY <1>9, <1>a, HoldReleasedType, StatusKept, RecordKept
       DEF EvaluateToStart, RuntimeStates
  <2> QED
    BY <1>9, <1>b, <2>1 DEF EvaluateToStart, Evaluating
<1>10. CASE FinishFailedStart
  BY <1>10, <1>a, <1>b, ZenonT(30) DEF FinishFailedStart, RuntimeStates
<1>11. CASE ReceiveStop
  BY <1>11, <1>b DEF ReceiveStop, Receive
<1>12. CASE ReceiveCancel
  BY <1>12, <1>b, ZenonT(30) DEF ReceiveCancel, Receive
<1>13. CASE ReceiveRepositoryOperationRequested
  BY <1>13, <1>b, ZenonT(30) DEF ReceiveRepositoryOperationRequested, Receive
<1>14. CASE ReceiveRepositoryOperationFinished
  BY <1>14, <1>b, ZenonT(30) DEF ReceiveRepositoryOperationFinished, Receive
<1>15. CASE DiscardWhileDraining
  BY <1>15, <1>b DEF DiscardWhileDraining, Receive
<1>16. CASE ReceiveBackupFinished
  BY <1>16, <1>a, <1>b, ZenonT(30) DEF ReceiveBackupFinished, Receive, RuntimeStates
<1>17. CASE ReceiveUpdateInstallRequested
  BY <1>17, <1>a, <1>b, StatusKept, RecordKept DEF ReceiveUpdateInstallRequested, Receive
<1>18. CASE ReceiveUpdateInstallFinished
  BY <1>18, <1>a, <1>b, StatusKept, RecordKept, ZenonT(30)
     DEF ReceiveUpdateInstallFinished, Receive
<1>19. CASE FinishRepositoryOperation
  <2>1. UNCHANGED config /\ Identity(loop.config) = Identity(config)
    BY <1>19 DEF FinishRepositoryOperation, OperationOnConfig
  <2>2. CASE UNCHANGED runtime
    BY <1>b, <2>1, <2>2, ZenonT(30)
  <2>3. CASE runtime'.service_state = RepositoryVerified(loop.config)
    <3>1. ~RepositoryRequiresValidation(RepositoryVerified(loop.config), config)
      BY <2>1 DEF RepositoryVerified, RepositoryRequiresValidation
    <3> QED
      BY <2>1, <2>3, <3>1 DEF ReadyMeansVerified
  <2>4. CASE runtime'.repository_operation = Settled("Failed")
    BY <2>4, NotReady DEF ReadyMeansVerified
  <2> QED
    BY <1>19, <2>2, <2>3, <2>4, ProgressFinished, ZenonT(30)
<1>20. CASE \E w \in Workers : WorkerStep(w)
  <2>1. PICK w \in Workers : WorkerStep(w)
    BY <1>20
  <2>2. CASE BackupEnds(w)
    BY <1>a, <1>b, <2>2, ZenonT(30) DEF BackupEnds, RuntimeStates
  <2>3. CASE WorkerReadsConfig(w) \/ RetentionEnds(w) \/ SaveRetentionState(w)
             \/ RepositoryOperationEnds(w) \/ UpdateInstallEnds(w)
    <3>1. UNCHANGED <<runtime, config>>
      BY <2>3, ZenonT(30)
         DEF WorkerReadsConfig, RetentionEnds, SaveRetentionState, RepositoryOperationEnds,
             UpdateInstallEnds
    <3> QED
      BY <1>b, <3>1
  <2> QED
    BY <2>1, <2>2, <2>3 DEF WorkerStep
<1>21. CASE RunNowChecksConfigured
  BY <1>21, <1>b DEF RunNowChecksConfigured
<1>22. CASE RunNowChecksRepository
  BY <1>22, <1>b, ZenonT(30) DEF RunNowChecksRepository
<1>23. CASE CancelChecksRunning
  BY <1>23, <1>b, ZenonT(30) DEF CancelChecksRunning
<1>24. CASE CancelBackup
  BY <1>24, <1>b DEF CancelBackup
<1>25. CASE DeferChecksConfigured
  BY <1>25, <1>b DEF DeferChecksConfigured
<1>26. CASE RepositoryOperationReadsConfig
  BY <1>26, <1>b DEF RepositoryOperationReadsConfig
<1>27. CASE SaveEnrollment
  BY <1>27, <1>b DEF SaveEnrollment
<1>28. CASE RunBackupNow
  BY <1>28, <1>a, <1>b DEF RunBackupNow, RuntimeStates
<1>29. CASE DeferBackup
  BY <1>29, <1>a, <1>b DEF DeferBackup, RuntimeStates
<1>30. CASE PrepareForUpdate
  BY <1>30, <1>a, <1>b DEF PrepareForUpdate, HoldForUpdate, RuntimeStates
<1>31. CASE BeginUpdateInstall
  BY <1>31, <1>a, <1>b DEF BeginUpdateInstall, HoldForUpdate, RuntimeStates
<1>32. CASE EnrollBegins
  BY <1>32, <1>a, <1>b DEF EnrollBegins, RuntimeStates
<1>33. CASE EnrollEnds
  BY <1>33, <1>a, <1>b, ZenonT(30) DEF EnrollEnds, RuntimeStates
<1>34. CASE UpdateSchedule
  BY <1>34, <1>a, <1>b, StatusKept, RecordKept DEF UpdateSchedule
<1>35. CASE UpdateBackupSources
  <2>1. /\ runtime'.repository_operation = runtime.repository_operation
        /\ runtime'.service_state = runtime.service_state
    BY <1>35, <1>a, StatusKept, RecordKept DEF UpdateBackupSources
  <2>2. config'.url = config.url /\ Identity(config') = Identity(config)
    BY <1>35, <1>a DEF UpdateBackupSources, Identity, Configs
  <2> QED
    BY <2>1, <2>2, ReadyFrame, ZenonT(30)
<1>36. CASE UpdateRepository
  <2>1. ValidationRequired \in ServiceStates /\ Settled("ValidationRequired") \in OperationStatuses
    BY DefaultTypes, VerifiedType, StatusTypes
  <2>2. ASSUME NEW url, NEW secrets, Reconnect(url, secrets) PROVE ReadyMeansVerified'
    <3>1. CASE runtime' = ApplyConfigurationStatus(
                          [runtime EXCEPT
                             !.repository_operation = Settled("ValidationRequired"),
                             !.service_state = ValidationRequired], config')
      <4>1. runtime'.repository_operation = Settled("ValidationRequired")
        BY <2>1, <3>1, ProgressSettled, ZenonT(30)
      <4> QED
        BY <4>1, NotReady DEF ReadyMeansVerified
    <3> QED
      BY <1>b, <2>2, <3>1, ZenonT(30) DEF Reconnect
  <2>3. ASSUME runtime' = ApplyConfigurationStatus(runtime, config), UNCHANGED config
        PROVE  ReadyMeansVerified'
    BY <1>a, <1>b, <2>3, StatusKept, RecordKept, ZenonT(30)
  <2> QED
    BY <1>36, <2>2, <2>3, ZenonT(30) DEF UpdateRepository
<1>37. CASE CommitEnrollment
  BY <1>37, ReadyActivated DEF CommitEnrollment
<1>38. CASE ApplyManagedPolicy
  BY <1>38, ReadyActivated, ZenonT(30) DEF ApplyManagedPolicy
<1>39. CASE BeginRepositoryOperation
  <2>1. \A operation : OperationBegun(operation).repository_operation = operation
    BY <1>a DEF OperationBegun, RuntimeStates
  <2>2. ~AllowsBackup(Running(ipc.kind)) /\ ~AllowsBackup(Settled("Failed"))
    BY ZenonT(30) DEF AllowsBackup, Running, Settled
  <2> QED
    BY <1>39, <1>b, <2>1, <2>2, ZenonT(30) DEF BeginRepositoryOperation, ReadyMeansVerified
<1>40. CASE UnenrollApplies
  BY <1>40, <1>a, <1>b, StatusKept, RecordKept, ZenonT(30) DEF UnenrollApplies
<1>41. CASE UnenrollChecks
  BY <1>41, <1>b DEF UnenrollChecks
<1>42. CASE UnenrollWrites
  BY <1>42 DEF UnenrollWrites, At, BackupSettled
<1>43. CASE UNCHANGED vars
  BY <1>43, <1>b, ZenonT(30) DEF vars
<1> QED
  BY <1>1, <1>2, <1>3, <1>4, <1>5, <1>6, <1>7, <1>8, <1>9, <1>10, <1>11, <1>12, <1>13,
     <1>14, <1>15, <1>16, <1>17, <1>18, <1>19, <1>20, <1>21, <1>22, <1>23, <1>24, <1>25,
     <1>26, <1>27, <1>28, <1>29, <1>30, <1>31, <1>32, <1>33, <1>34, <1>35, <1>36, <1>37,
     <1>38, <1>39, <1>40, <1>41, <1>42, <1>43, ZenonT(30)
     DEF Next, EventLoopStep, ReceiveEvent, ContinueEvent, AcceptRequest, ContinueRequest

-----------------------------------------------------------------------------
(* The Running status and the token of the loop                            *)

(* The loop has a backup that has not been finished.                       *)
Busy == loop.pc = "startFailed" \/ (active_backup # NoWorker /\ loop.pc # "saveState")

(* The status is Running exactly as long as the loop is busy.  Whatever    *)
(* would overwrite it, an operation, an update or an enrollment, finds it  *)
(* and is rejected, and no hold restores it.                               *)
RunningSettled ==
    /\ ~up => active_backup = NoWorker
    /\ runtime.update_hold_previous # "Running"
    /\ IsRunning <=> Busy
    /\ IsRunning =>
         /\ AllowsBackup(runtime.repository_operation)
         /\ ~UpdatePending
         /\ ipc.pc \notin Enrolling
         /\ loop.pc # "saveState"

LEMMA RunningSettledInit == Init => RunningSettled
<1> SUFFICES ASSUME Init PROVE RunningSettled
  OBVIOUS
<1>1. active_backup = NoWorker /\ loop = LoopIdle /\ runtime = LoadedRuntime(NeverValidated, NoConfig)
  BY ZenonT(30) DEF Init
<1>2. loop.pc = "idle" /\ ~IsRunning /\ runtime.update_hold_previous = "none"
  BY <1>1 DEF LoopIdle, LoadedRuntime, IsRunning
<1> QED
  BY <1>1, <1>2 DEF RunningSettled, Busy

(* Every step keeps the status and the token together.                     *)
LEMMA RunningSettledStep ==
    TypeOK /\ ResticExclusion /\ UpdateInOnePlace /\ BackupSettled /\ RunningSettled
      /\ [Next]_vars => RunningSettled'
<1> SUFFICES ASSUME TypeOK, ResticExclusion, UpdateInOnePlace, BackupSettled, RunningSettled,
                    [Next]_vars
             PROVE  RunningSettled'
  OBVIOUS
<1> USE DEF configVars, activeVars, loopVars
<1>a. /\ runtime \in RuntimeStates
      /\ queue \in Seq(RuntimeEvents)
      /\ NoWorker \notin Workers
  BY ConstantsAssumption DEF TypeOK
<1>b. /\ OperationRunning => ~IsRunning
      /\ UpdatePending => ~IsRunning
      /\ loop.pc = "evaluate" => ~IsRunning /\ active_backup = NoWorker
  <2>1. OperationRunning => ~AllowsBackup(runtime.repository_operation)
    BY DEF OperationRunning, AllowsBackup, Settled
  <2>2. loop.pc = "evaluate" => active_backup = NoWorker
    BY ZenonT(30) DEF ResticExclusion, BackupInOnePlace
  <2> QED
    BY <2>1, <2>2, ZenonT(30) DEF RunningSettled, Busy
<1>c. CASE /\ UNCHANGED <<up, active_backup>>
           /\ ~IsRunning /\ runtime'.state # "Running"
           /\ runtime'.update_hold_previous # "Running"
           /\ loop'.pc = loop.pc \/ (active_backup = NoWorker /\ loop'.pc # "startFailed")
  <2>1. ~IsRunning' /\ ~Busy'
    BY <1>c DEF RunningSettled, Busy, IsRunning
  <2>2. ~up' => active_backup' = NoWorker
    BY <1>c, ZenonT(30) DEF RunningSettled
  <2> QED
    BY <1>c, <2>1, <2>2, ZenonT(30) DEF RunningSettled
<1>d. CASE /\ UNCHANGED <<up, active_backup>>
           /\ runtime'.state = runtime.state
           /\ runtime'.update_hold_previous = runtime.update_hold_previous
           /\ runtime'.repository_operation = runtime.repository_operation
           /\ UpdatePending' => UpdatePending
           /\ ipc'.pc \in Enrolling => ipc.pc \in Enrolling
           /\ \/ loop'.pc = loop.pc
              \/ {loop.pc, loop'.pc} \cap {"startFailed", "saveState"} = {}
  <2>1. (IsRunning' <=> IsRunning) /\ (Busy' <=> Busy)
    BY <1>d, ZenonT(30) DEF IsRunning, Busy
  <2>2. IsRunning => loop'.pc # "saveState"
    BY <1>d, ZenonT(30) DEF RunningSettled
  <2> QED
    BY <1>d, <2>1, <2>2 DEF RunningSettled
<1>1. CASE Start
  <2>1. runtime'.state # "Running" /\ runtime'.update_hold_previous = "none"
    BY <1>1 DEF Start, LoadedRuntime
  <2>2. up' /\ active_backup' = NoWorker /\ loop'.pc = "wake"
    BY <1>1, ZenonT(30) DEF Start, RunningSettled, LoopIdle
  <2> QED
    BY <2>1, <2>2 DEF RunningSettled, Busy, IsRunning
<1>2. CASE Crash \/ Exit
  <2>1. runtime'.state # "Running" /\ runtime'.update_hold_previous = "none"
    <3>1. runtime' = LoadedRuntime(NeverValidated, NoConfig)
      BY <1>2, ZenonT(30) DEF Crash, Exit, Terminate
    <3> QED
      BY <3>1 DEF LoadedRuntime
  <2>2. active_backup' = NoWorker /\ loop'.pc = "idle"
    BY <1>2 DEF Crash, Exit, Terminate, LoopIdle
  <2> QED
    BY <2>1, <2>2, ZenonT(30) DEF RunningSettled, Busy, IsRunning
<1>3. CASE HoldExpires
  BY <1>3, <1>a, <1>d, ZenonT(30) DEF HoldExpires, UpdatePending, RuntimeStates
<1>4. CASE ControlStop
  BY <1>4, <1>d DEF ControlStop, UpdatePending
<1>5. CASE Wake
  BY <1>5, <1>d, ZenonT(30) DEF Wake, UpdatePending, LoopIdle
<1>6. CASE EvaluateWhileUpdating
  <2>1. /\ runtime'.state # "Running"
        /\ runtime'.update_hold_previous = runtime.update_hold_previous
    BY <1>6, <1>a DEF EvaluateWhileUpdating, RuntimeStates
  <2>2. UNCHANGED <<up, active_backup>> /\ loop.pc = "evaluate" /\ loop'.pc = "idle"
    BY <1>6 DEF EvaluateWhileUpdating, Evaluating, LoopIdle
  <2> QED
    BY <1>b, <1>c, <2>1, <2>2, ZenonT(30) DEF RunningSettled
<1>7. CASE EvaluateWithoutStart
  <2>1. UNCHANGED <<up, active_backup>> /\ loop.pc = "evaluate" /\ loop'.pc = "idle"
    BY <1>7 DEF EvaluateWithoutStart, Evaluating, LoopIdle
  <2>2. runtime.state # "Running" /\ runtime.update_hold_previous # "Running"
    BY <1>b, <2>1 DEF RunningSettled, IsRunning
  <2>3. /\ HoldReleased(runtime).state # "Running"
        /\ HoldReleased(runtime).update_hold_previous = "none"
    BY <1>a, <2>2 DEF HoldReleased, RuntimeStates
  <2>4. runtime'.state # "Running" /\ runtime'.update_hold_previous = "none"
    BY <1>7, <1>a, <2>3, HoldReleasedType DEF EvaluateWithoutStart, RuntimeStates
  <2> QED
    BY <1>b, <1>c, <2>1, <2>4
<1>8. CASE EvaluateToStart
  <2>1. /\ runtime'.state = "Running" /\ runtime'.update_hold_previous = "none"
        /\ runtime'.repository_operation = runtime.repository_operation
        /\ runtime'.update_install_active = runtime.update_install_active
        /\ runtime'.update_hold_until = "none"
    <3>1. /\ HoldReleased(runtime) \in RuntimeStates
          /\ HoldReleased(runtime).update_hold_previous = "none"
      BY <1>a, HoldReleasedType, ZenonT(30) DEF HoldReleased, RuntimeStates
    <3> QED
      BY <1>8, <1>a, <3>1, StatusKept, ProgressKept, ZenonT(30)
         DEF EvaluateToStart, RuntimeStates
  <2>2. ~UpdatePending'
    BY <1>8, <2>1 DEF EvaluateToStart, UpdatePending
  <2>3. ~runtime.management_operation_active /\ AllowsBackup(runtime.repository_operation)
    BY <1>8, <1>a, StatusKept, ProgressKept DEF EvaluateToStart, MayDecide
  <2>4. up' /\ UNCHANGED ipc /\ loop'.pc # "saveState"
    BY <1>8 DEF EvaluateToStart, Evaluating, LoopIdle
  <2>5. active_backup' # NoWorker \/ loop'.pc = "startFailed"
    BY <1>8, <1>a, ZenonT(30) DEF EvaluateToStart, LoopIdle
  <2> QED
    BY <2>1, <2>2, <2>3, <2>4, <2>5, ZenonT(30)
       DEF RunningSettled, BackupSettled, Busy, IsRunning
<1>9. CASE FinishFailedStart
  <2>1. active_backup = NoWorker
    BY <1>9 DEF FinishFailedStart, ResticExclusion, BackupInOnePlace
  <2>2. /\ runtime'.state # "Running"
        /\ runtime'.update_hold_previous = runtime.update_hold_previous
    BY <1>9, <1>a DEF FinishFailedStart, RuntimeStates
  <2>3. UNCHANGED <<up, active_backup>> /\ loop'.pc = "idle"
    BY <1>9, ZenonT(30) DEF FinishFailedStart, LoopIdle
  <2> QED
    BY <2>1, <2>2, <2>3 DEF RunningSettled, Busy, IsRunning
<1>10. CASE ReceiveStop
  BY <1>10, <1>d, ZenonT(30) DEF ReceiveStop, Receive, UpdatePending
<1>11. CASE ReceiveCancel
  BY <1>11, <1>d, ZenonT(30) DEF ReceiveCancel, Receive, UpdatePending
<1>12. CASE ReceiveBackupFinished
  <2>1. /\ runtime'.state # "Running"
        /\ runtime'.update_hold_previous = runtime.update_hold_previous
    BY <1>12, <1>a DEF ReceiveBackupFinished, RuntimeStates
  <2>2. up' /\ (loop'.pc = "saveState" \/ (active_backup' = NoWorker /\ loop'.pc = "idle"))
    BY <1>12, ZenonT(30) DEF ReceiveBackupFinished, Receive, LoopIdle
  <2> QED
    BY <2>1, <2>2 DEF RunningSettled, Busy, IsRunning
<1>13. CASE SaveBackupState
  <2>1. ~IsRunning
    BY <1>13, ZenonT(30) DEF SaveBackupState, RunningSettled
  <2>2. UNCHANGED <<up, runtime>> /\ active_backup' = NoWorker /\ loop'.pc = "idle"
    BY <1>13 DEF SaveBackupState, LoopIdle
  <2> QED
    BY <2>1, <2>2, ZenonT(30) DEF RunningSettled, Busy, IsRunning
<1>14. CASE ReceiveRepositoryOperationRequested
  BY <1>14, <1>d
     DEF ReceiveRepositoryOperationRequested, Receive, Finishing, LoopIdle,
         UpdatePending
<1>15. CASE ReceiveRepositoryOperationFinished
  BY <1>15, <1>d, ZenonT(30)
     DEF ReceiveRepositoryOperationFinished, Receive, Finishing, LoopIdle, UpdatePending
<1>16. CASE DiscardWhileDraining
  BY <1>16, <1>d, ZenonT(30) DEF DiscardWhileDraining, Receive, UpdatePending
<1>17. CASE FinishRepositoryOperation
  <2>1. ~IsRunning /\ loop.pc = "finishRepository"
    BY <1>17, <1>b, ZenonT(30)
       DEF FinishRepositoryOperation, ResticExclusion, OperationInOnePlace
  <2>2. active_backup = NoWorker
    BY <2>1 DEF RunningSettled, Busy
  <2>3. UNCHANGED <<up, active_backup>> /\ loop'.pc # "startFailed"
    BY <1>17, ZenonT(30) DEF FinishRepositoryOperation, LoopIdle
  <2>4. /\ runtime'.state # "Running"
        /\ runtime'.update_hold_previous = runtime.update_hold_previous
    BY <1>17, <2>1, ProgressFinished DEF IsRunning
  <2> QED
    BY <1>c, <2>1, <2>2, <2>3, <2>4, ZenonT(30) DEF RunningSettled
<1>18. CASE ReceiveUpdateInstallRequested
  <2>1. Holds(queue, "UpdateInstallRequested")
    BY <1>18, <1>a, HoldsTail, ZenonT(30) DEF ReceiveUpdateInstallRequested, Receive
  <2>2. ~IsRunning
    BY <1>b, <2>1 DEF UpdateInOnePlace, UpdatePending
  <2>3. runtime.state # "Running" /\ runtime.update_hold_previous # "Running"
    BY <2>2 DEF RunningSettled, IsRunning
  <2>4. \A result : /\ UpdateInstallFinished(runtime, result).state # "Running"
                     /\ UpdateInstallFinished(runtime, result).update_hold_previous # "Running"
    BY <1>a, <2>3 DEF UpdateInstallFinished, RuntimeStates
  <2>5. runtime'.state # "Running" /\ runtime'.update_hold_previous # "Running"
    BY <1>18, <2>3, <2>4, ZenonT(30) DEF ReceiveUpdateInstallRequested
  <2>6. UNCHANGED <<up, active_backup>> /\ loop.pc = "idle" /\ loop'.pc # "startFailed"
    BY <1>18 DEF ReceiveUpdateInstallRequested, Receive, LoopIdle
  <2>7. active_backup = NoWorker
    BY <2>2, <2>6, ZenonT(30) DEF RunningSettled, Busy
  <2> QED
    BY <1>c, <2>2, <2>5, <2>6, <2>7, ZenonT(30)
<1>19. CASE ReceiveUpdateInstallFinished
  <2>1. Holds(queue, "UpdateInstallFinished")
    BY <1>19, <1>a, HoldsTail, ZenonT(30) DEF ReceiveUpdateInstallFinished, Receive
  <2>2. ~IsRunning
    BY <1>b, <2>1, ZenonT(30) DEF UpdateInOnePlace, UpdatePending
  <2>3. runtime.state # "Running" /\ runtime.update_hold_previous # "Running"
    BY <2>2 DEF RunningSettled, IsRunning
  <2>4. \A result : /\ UpdateInstallFinished(runtime, result).state # "Running"
                     /\ UpdateInstallFinished(runtime, result).update_hold_previous # "Running"
    BY <1>a, <2>3 DEF UpdateInstallFinished, RuntimeStates
  <2>5. runtime'.state # "Running" /\ runtime'.update_hold_previous # "Running"
    BY <1>19, <2>3, <2>4 DEF ReceiveUpdateInstallFinished
  <2>6. UNCHANGED <<up, active_backup>> /\ loop.pc = "idle" /\ loop'.pc # "startFailed"
    BY <1>19, ZenonT(30) DEF ReceiveUpdateInstallFinished, Receive, LoopIdle
  <2>7. active_backup = NoWorker
    BY <2>2, <2>6 DEF RunningSettled, Busy
  <2> QED
    BY <1>c, <2>2, <2>5, <2>6, <2>7, ZenonT(30)
<1>20. CASE \E w \in Workers : WorkerStep(w)
  <2>1. PICK w \in Workers : WorkerStep(w)
    BY <1>20
  <2>2. CASE BackupEnds(w)
    <3>1. runtime.state = "Running"
      BY <2>2 DEF BackupEnds, BackupSettled, IsRunning
    <3>2. /\ runtime'.state = runtime.state
          /\ runtime'.update_hold_previous = runtime.update_hold_previous
          /\ runtime'.repository_operation = runtime.repository_operation
          /\ UpdatePending' <=> UpdatePending
      BY <1>a, <2>2, <3>1, ZenonT(30) DEF BackupEnds, UpdatePending, RuntimeStates
    <3> QED
      BY <1>d, <2>2, <3>2 DEF BackupEnds
  <2>3. CASE WorkerReadsConfig(w) \/ RetentionEnds(w) \/ SaveRetentionState(w)
             \/ RepositoryOperationEnds(w) \/ UpdateInstallEnds(w)
    <3>1. UNCHANGED <<up, runtime, active_backup, loop, ipc>>
      BY <2>3, ZenonT(30)
         DEF WorkerReadsConfig, RetentionEnds, SaveRetentionState, RepositoryOperationEnds,
             UpdateInstallEnds
    <3> QED
      BY <1>d, <3>1 DEF UpdatePending
  <2> QED
    BY <2>1, <2>2, <2>3, ZenonT(30) DEF WorkerStep
<1>21. CASE RunNowChecksConfigured
  BY <1>21, <1>d
     DEF RunNowChecksConfigured, Continue, Reply, IpcIdle, RestUnchanged,
         Enrolling, UpdatePending
<1>22. CASE RunNowChecksRepository
  BY <1>22, <1>d
     DEF RunNowChecksRepository, Continue, Reply, IpcIdle, RestUnchanged,
         Enrolling, UpdatePending
<1>23. CASE CancelChecksRunning
  BY <1>23, <1>d, ZenonT(30)
     DEF CancelChecksRunning, Continue, Reply, IpcIdle, RestUnchanged,
         Enrolling, UpdatePending
<1>24. CASE CancelBackup
  BY <1>24, <1>d
     DEF CancelBackup, Continue, Reply, IpcIdle, RestUnchanged,
         Enrolling, UpdatePending
<1>25. CASE DeferChecksConfigured
  BY <1>25, <1>d
     DEF DeferChecksConfigured, Continue, Reply, IpcIdle, RestUnchanged,
         Enrolling, UpdatePending
<1>26. CASE RepositoryOperationReadsConfig
  BY <1>26, <1>d
     DEF RepositoryOperationReadsConfig, Continue, Reply, IpcIdle, RestUnchanged,
         Enrolling, UpdatePending
<1>27. CASE SaveEnrollment
  BY <1>27, <1>d
     DEF SaveEnrollment, At, Continue, Reply, IpcIdle, RestUnchanged,
         Enrolling, UpdatePending
<1>28. CASE RunBackupNow
  <2>1. /\ runtime'.state = runtime.state
        /\ runtime'.update_hold_previous = runtime.update_hold_previous
        /\ runtime'.repository_operation = runtime.repository_operation
        /\ UpdatePending' <=> UpdatePending
    BY <1>28, <1>a DEF RunBackupNow, UpdatePending, RuntimeStates
  <2> QED
    BY <1>28, <1>d, <2>1 DEF RunBackupNow, Reply, IpcIdle, RestUnchanged, Enrolling
<1>29. CASE DeferBackup
  <2>1. /\ runtime'.state = runtime.state
        /\ runtime'.update_hold_previous = runtime.update_hold_previous
        /\ runtime'.repository_operation = runtime.repository_operation
        /\ UpdatePending' <=> UpdatePending
    BY <1>29, <1>a DEF DeferBackup, UpdatePending, RuntimeStates
  <2> QED
    BY <1>29, <1>d, <2>1 DEF DeferBackup, Reply, IpcIdle, RestUnchanged, Enrolling
<1>30. CASE EnrollEnds
  <2>1. /\ runtime'.state = runtime.state
        /\ runtime'.update_hold_previous = runtime.update_hold_previous
        /\ runtime'.repository_operation = runtime.repository_operation
        /\ UpdatePending' <=> UpdatePending
    BY <1>30, <1>a, ZenonT(30) DEF EnrollEnds, UpdatePending, RuntimeStates
  <2> QED
    BY <1>30, <1>d, <2>1 DEF EnrollEnds, Reply, IpcIdle, RestUnchanged, Enrolling
<1>31. CASE PrepareForUpdate
  <2>1. ~IsRunning
    BY <1>31 DEF PrepareForUpdate, HoldForUpdate, NothingActive
  <2>2. runtime'.state # "Running" /\ runtime'.update_hold_previous # "Running"
    BY <1>31, <1>a, <2>1, ZenonT(30)
       DEF PrepareForUpdate, HoldForUpdate, RuntimeStates, RunningSettled, IsRunning
  <2> QED
    BY <1>31, <1>c, <2>1, <2>2 DEF PrepareForUpdate, RestUnchanged
<1>32. CASE BeginUpdateInstall
  <2>1. ~IsRunning
    BY <1>32 DEF BeginUpdateInstall, HoldForUpdate, NothingActive
  <2>2. runtime'.state # "Running" /\ runtime'.update_hold_previous # "Running"
    BY <1>32, <1>a, <2>1
       DEF BeginUpdateInstall, HoldForUpdate, RuntimeStates, RunningSettled, IsRunning
  <2> QED
    BY <1>32, <1>c, <2>1, <2>2 DEF BeginUpdateInstall, RestUnchanged
<1>33. CASE EnrollBegins
  <2>1. ~IsRunning
    BY <1>33 DEF EnrollBegins, NothingActive
  <2>2. /\ runtime'.state = runtime.state
        /\ runtime'.update_hold_previous = runtime.update_hold_previous
    BY <1>33, <1>a, ZenonT(30) DEF EnrollBegins, RuntimeStates
  <2> QED
    BY <1>33, <1>c, <2>1, <2>2, ZenonT(30)
       DEF EnrollBegins, RestUnchanged, RunningSettled, IsRunning
<1>34. CASE UpdateSchedule
  <2>1. ~IsRunning
    BY <1>34 DEF UpdateSchedule, MayChangeConfiguration
  <2>2. /\ runtime'.state # "Running"
        /\ runtime'.update_hold_previous = runtime.update_hold_previous
    BY <1>34, <1>a, <2>1, ProgressKept, ZenonT(30) DEF UpdateSchedule, IsRunning
  <2> QED
    BY <1>34, <1>c, <2>1, <2>2, ZenonT(30) DEF UpdateSchedule, RestUnchanged, RunningSettled
<1>35. CASE UpdateBackupSources
  <2>1. ~IsRunning
    BY <1>35 DEF UpdateBackupSources
  <2>2. /\ runtime'.state # "Running"
        /\ runtime'.update_hold_previous = runtime.update_hold_previous
    BY <1>35, <1>a, <2>1, ProgressKept, ZenonT(30) DEF UpdateBackupSources, IsRunning
  <2> QED
    BY <1>35, <1>c, <2>1, <2>2 DEF UpdateBackupSources, RestUnchanged, RunningSettled
<1>36. CASE UpdateRepository
  <2>1. ~IsRunning
    BY <1>36, ZenonT(30) DEF UpdateRepository, MayChangeConfiguration
  <2>2. /\ runtime'.state # "Running"
        /\ runtime'.update_hold_previous = runtime.update_hold_previous
    BY <1>36, <2>1, ProgressReconnected, ZenonT(30) DEF IsRunning
  <2> QED
    BY <1>36, <1>c, <2>1, <2>2, ZenonT(30)
       DEF UpdateRepository, RestUnchanged, RunningSettled
<1>37. CASE CommitEnrollment
  <2>1. ~IsRunning /\ \E local, p : ActivatePolicy(local, p)
    BY <1>37 DEF CommitEnrollment, At, Enrolling, RunningSettled
  <2>2. /\ runtime'.state # "Running"
        /\ runtime'.update_hold_previous = runtime.update_hold_previous
    BY <2>1, ProgressActivated, ZenonT(30) DEF IsRunning
  <2> QED
    BY <1>37, <1>c, <2>1, <2>2, ZenonT(30)
       DEF CommitEnrollment, RestUnchanged, RunningSettled
<1>38. CASE ApplyManagedPolicy
  <2>1. ~IsRunning /\ \E local, p : ActivatePolicy(local, p)
    BY <1>38, ZenonT(30) DEF ApplyManagedPolicy, MayChangeConfiguration
  <2>2. /\ runtime'.state # "Running"
        /\ runtime'.update_hold_previous = runtime.update_hold_previous
    BY <2>1, ProgressActivated DEF IsRunning
  <2> QED
    BY <1>38, <1>c, <2>1, <2>2, ZenonT(30)
       DEF ApplyManagedPolicy, RestUnchanged, RunningSettled
<1>39. CASE BeginRepositoryOperation
  <2>1. UNCHANGED <<up, active_backup, loop>> /\ ipc'.pc = "idle"
    BY <1>39 DEF BeginRepositoryOperation, Reply, IpcIdle, RestUnchanged
  <2>2. CASE UNCHANGED runtime
    BY <1>d, <2>1, <2>2, ZenonT(30) DEF Enrolling, UpdatePending
  <2>3. CASE ~IsRunning /\ \E operation : runtime' = OperationBegun(operation)
    <3>1. /\ runtime'.state # "Running"
          /\ runtime'.update_hold_previous = runtime.update_hold_previous
      BY <1>a, <2>3 DEF OperationBegun, RuntimeStates, IsRunning
    <3> QED
      BY <1>c, <2>1, <2>3, <3>1, ZenonT(30) DEF RunningSettled
  <2> QED
    BY <1>39, <2>2, <2>3, ZenonT(30) DEF BeginRepositoryOperation
<1>40. CASE UnenrollChecks
  BY <1>40, <1>d
     DEF UnenrollChecks, Continue, IpcIdle, RestUnchanged, Enrolling, UpdatePending
<1>41. CASE UnenrollWrites \/ UnenrollApplies
  BY <1>41, ZenonT(30) DEF UnenrollWrites, UnenrollApplies, At, BackupSettled
<1>42. CASE UNCHANGED vars
  BY <1>42, <1>d, ZenonT(30) DEF vars, UpdatePending
<1> QED
  BY <1>1, <1>2, <1>3, <1>4, <1>5, <1>6, <1>7, <1>8, <1>9, <1>10, <1>11, <1>12, <1>13,
     <1>14, <1>15, <1>16, <1>17, <1>18, <1>19, <1>20, <1>21, <1>22, <1>23, <1>24, <1>25,
     <1>26, <1>27, <1>28, <1>29, <1>30, <1>31, <1>32, <1>33, <1>34, <1>35, <1>36, <1>37,
     <1>38, <1>39, <1>40, <1>41, <1>42, ZenonT(30)
     DEF Next, EventLoopStep, ReceiveEvent, ContinueEvent, AcceptRequest, ContinueRequest

-----------------------------------------------------------------------------
(* The repository under a running restic                                   *)

(* No step changes the repository under a restic worker.                   *)
LEMMA RepositoryFixedStep ==
    ASSUME TypeOK, ResticExclusion, BackupSettled, [Next]_vars,
           NEW w \in Workers, IsRestic(w), up'
    PROVE  Identity(config') = Identity(config)
<1> USE DEF configVars, activeVars, loopVars
<1>1. /\ IsRunning \/ OperationRunning
      /\ up
      /\ ipc.pc # "enrolling"
  <2>1. worker[w].task = "backup" \/ worker[w].task = "repository"
    BY ZenonT(30) DEF IsRestic
  <2>2. CASE worker[w].task = "backup"
    <3>1. w \in Task("backup") /\ w \notin Task("none")
      BY <2>2, ZenonT(30) DEF Task
    <3>2. up
      BY <3>1, ZenonT(30) DEF ResticExclusion
    <3>3. IsRunning
      BY <2>2, ZenonT(30) DEF BackupSettled
    <3>4. ipc.pc # "enrolling"
      BY <3>1, ZenonT(30) DEF BackupSettled, Enrolling
    <3> QED
      BY <3>2, <3>3, <3>4
  <2>3. CASE worker[w].task = "repository"
    <3>1. OperationRunning /\ up
      BY <2>3, Zenon DEF ResticExclusion, OperationInOnePlace, Task
    <3> QED
      BY <3>1, ZenonT(30) DEF ResticExclusion, OperationInOnePlace
  <2> QED
    BY <2>1, <2>2, <2>3, ZenonT(30)
<1>2. CASE Start
  BY <1>1, <1>2, ZenonT(30) DEF Start
<1>3. CASE Crash \/ Exit
  BY <1>3 DEF Crash, Exit, Terminate
<1>4. CASE HoldExpires \/ ControlStop
  BY <1>4, ZenonT(30) DEF HoldExpires, ControlStop
<1>5. CASE Wake \/ ContinueEvent
  BY <1>5, ZenonT(30)
     DEF Wake, ContinueEvent, EvaluateWhileUpdating, EvaluateWithoutStart, EvaluateToStart,
         Evaluating, FinishFailedStart, SaveBackupState, FinishRepositoryOperation
<1>6. CASE ReceiveEvent
  BY <1>6, ZenonT(30)
     DEF ReceiveEvent, ReceiveStop, ReceiveCancel, ReceiveBackupFinished,
         ReceiveRepositoryOperationRequested, ReceiveRepositoryOperationFinished,
         ReceiveUpdateInstallRequested, ReceiveUpdateInstallFinished, DiscardWhileDraining,
         Receive
<1>7. CASE \E v \in Workers : WorkerStep(v)
  BY <1>7, ZenonT(30)
     DEF WorkerStep, WorkerReadsConfig, BackupEnds, RetentionEnds, SaveRetentionState,
         RepositoryOperationEnds, UpdateInstallEnds
<1>8. CASE UpdateBackupSources
  BY <1>8 DEF UpdateBackupSources, Identity, TypeOK, Configs
<1>9. CASE UpdateRepository \/ ApplyManagedPolicy
  BY <1>1, <1>9, ZenonT(30)
     DEF UpdateRepository, ApplyManagedPolicy, MayChangeConfiguration
<1>10. CASE CommitEnrollment
  BY <1>1, <1>10 DEF CommitEnrollment, At
<1>11. CASE UnenrollWrites
  BY <1>11 DEF UnenrollWrites, At, BackupSettled
<1>12. CASE RunNowChecksConfigured \/ CancelChecksRunning \/ DeferChecksConfigured
            \/ RepositoryOperationReadsConfig \/ PrepareForUpdate \/ BeginUpdateInstall
            \/ UpdateSchedule \/ EnrollBegins \/ UnenrollChecks
  BY <1>12, ZenonT(30)
     DEF RunNowChecksConfigured, CancelChecksRunning, DeferChecksConfigured,
         RepositoryOperationReadsConfig, PrepareForUpdate, BeginUpdateInstall,
         UpdateSchedule, EnrollBegins, UnenrollChecks
<1>13. CASE RunNowChecksRepository \/ RunBackupNow \/ CancelBackup \/ DeferBackup
            \/ BeginRepositoryOperation \/ SaveEnrollment \/ EnrollEnds \/ UnenrollApplies
  BY <1>13, ZenonT(30)
     DEF RunNowChecksRepository, RunBackupNow, CancelBackup, DeferBackup,
         BeginRepositoryOperation, SaveEnrollment, EnrollEnds, UnenrollApplies
<1>14. CASE UNCHANGED vars
  BY <1>14 DEF vars
<1> QED
  BY <1>2, <1>3, <1>4, <1>5, <1>6, <1>7, <1>8, <1>9, <1>10, <1>11, <1>12, <1>13, <1>14,
     ZenonT(30)
     DEF Next, EventLoopStep, AcceptRequest, ContinueRequest

(* The invariant of a running backup holds where no client asks to         *)
(* unenroll.                                                               *)
LEMMA BackupSettledCorrect ==
    ASSUME "Unenroll" \notin Requests PROVE Spec => []BackupSettled
<1>1. TypeOK /\ ResticExclusion /\ UpdateInOnePlace /\ BackupSettled /\ [Next]_vars
        => BackupSettled'
  BY BackupSettledStep
<1> QED
  BY <1>1, UpdateInOnePlaceCorrect, TypeCorrect, ExclusionCorrect, BackupSettledInit,
     PTL
     DEF Spec

(* Where no client asks to unenroll, the service considers a repository    *)
(* ready only when it is the one that was verified.                        *)
THEOREM ReadyCorrect ==
    ASSUME "Unenroll" \notin Requests PROVE Spec => []ReadyMeansVerified
<1>1. Spec => []BackupSettled
  BY BackupSettledCorrect
<1> QED
  BY <1>1, TypeCorrect, OperationOnConfigCorrect, ReadyInit, ReadyStep, PTL DEF Spec

(* Where no client asks to unenroll, a backup uses the repository whose    *)
(* validation is recorded, from the moment it reads its configuration      *)
(* until it reports.                                                       *)
THEOREM BackupRepositoryCorrect ==
    ASSUME "Unenroll" \notin Requests PROVE Spec => []BackupUsesVerifiedRepository
<1>1. TypeOK /\ BackupSettled /\ ReadyMeansVerified => BackupUsesVerifiedRepository
  <2> SUFFICES ASSUME TypeOK, BackupSettled, ReadyMeansVerified, NEW w \in Workers,
                      worker[w].task = "backup", worker[w].repository # Absent
               PROVE  runtime.service_state =
                        [required |-> FALSE, verified |-> worker[w].repository]
    BY DEF BackupUsesVerifiedRepository
  <2>1. /\ AllowsBackup(runtime.repository_operation)
        /\ worker[w].repository = Identity(config)
    BY ZenonT(30) DEF BackupSettled
  <2>2. config.url # Absent
    BY <2>1, ZenonT(30) DEF Identity
  <2>3. ~runtime.service_state.required /\ runtime.service_state.verified = Identity(config)
    BY <2>1, <2>2, ZenonT(30) DEF ReadyMeansVerified, RepositoryRequiresValidation
  <2>4. runtime.service_state \in [required : BOOLEAN, verified : MaybeIdentity]
    BY DEF TypeOK, RuntimeStates, ServiceStates
  <2> QED
    BY <2>1, <2>3, <2>4, ZenonT(30)
<1>2. Spec => []BackupSettled
  BY BackupSettledCorrect
<1>3. Spec => []ReadyMeansVerified
  BY ReadyCorrect
<1> QED
  BY <1>1, <1>2, <1>3, TypeCorrect, PTL

(* Where no client asks to unenroll, no restic runs while an update is     *)
(* held or installed.                                                      *)
THEOREM UpdateExcludesCorrect ==
    ASSUME "Unenroll" \notin Requests PROVE Spec => []UpdateExcludesRestic
<1>1. ResticExclusion /\ BackupSettled => UpdateExcludesRestic
  BY DEF ResticExclusion, OperationInOnePlace, BackupSettled, UpdateExcludesRestic,
     IsRestic, Task
<1>2. Spec => []BackupSettled
  BY BackupSettledCorrect
<1> QED
  BY <1>1, <1>2, ExclusionCorrect, PTL

(* Where no client asks to unenroll, no step changes the effective         *)
(* repository under a restic worker.                                       *)
THEOREM RepositoryFixedCorrect ==
    ASSUME "Unenroll" \notin Requests PROVE Spec => RepositoryFixedWhileResticRuns
<1>1. TypeOK /\ ResticExclusion /\ BackupSettled /\ [Next]_vars =>
        [(\E w \in Workers : IsRestic(w)) /\ up' => Identity(config') = Identity(config)]_vars
  BY RepositoryFixedStep, ZenonT(30)
<1>2. Spec => []BackupSettled
  BY BackupSettledCorrect
<1> QED
  BY <1>1, <1>2, TypeCorrect, ExclusionCorrect, PTL
     DEF Spec, RepositoryFixedWhileResticRuns

(* Where no client asks to unenroll, the Running status and the token of   *)
(* the loop agree whenever the loop waits.                                 *)
THEOREM RunningCorrect ==
    ASSUME "Unenroll" \notin Requests PROVE Spec => []RunningIffActive
<1>1. RunningSettled => RunningIffActive
  BY DEF RunningSettled, Busy, RunningIffActive
<1>2. Spec => []UpdateInOnePlace
  BY UpdateInOnePlaceCorrect
<1>3. Spec => []BackupSettled
  BY BackupSettledCorrect
<1> QED
  BY <1>1, <1>2, <1>3, TypeCorrect, ExclusionCorrect, RunningSettledInit,
     RunningSettledStep, PTL
     DEF Spec

=============================================================================
