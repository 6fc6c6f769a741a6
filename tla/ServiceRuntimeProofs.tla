------------------------ MODULE ServiceRuntimeProofs ------------------------
(***************************************************************************)
(* Type correctness of ServiceRuntime and one restic at a time, for every  *)
(* set of repositories, policies, workers and requests.                    *)
(***************************************************************************)
EXTENDS ServiceRuntime, TLAPS

(* The provers that try a leaf which names none, in this order.            *)
USE SMT, Zenon, Z3T(30)

-----------------------------------------------------------------------------
(* Types                                                                   *)

(* The operators that handlers are built from return values of their type. *)
LEMMA IdentityType ==
    ASSUME NEW c \in Configs
    PROVE  Identity(c) \in MaybeIdentity
BY DEF Configs, Identity, MaybeIdentity, Identities, MaybeUrl

(* The validation records that handlers store are service states.          *)
LEMMA VerifiedType ==
    ASSUME NEW c \in Configs
    PROVE  /\ RepositoryVerified(c) \in ServiceStates
           /\ ValidationRequired \in ServiceStates
           /\ NeverValidated \in ServiceStates
           /\ UnreadableState(c) \in ServiceStates
BY IdentityType
   DEF RepositoryVerified, ValidationRequired, NeverValidated, UnreadableState,
   ServiceStates, MaybeIdentity

(* resolve_config yields a configuration and its locks.                    *)
LEMMA ResolveType ==
    ASSUME NEW local \in LocalConfigs, NEW p \in Policies \cup {NoPolicy}
    PROVE  /\ Resolve(local, p) \in Configs
           /\ Locks(p) \in [url : BOOLEAN, paths : BOOLEAN]
BY ConstantsAssumption
   DEF LocalConfigs, Policy, NoPolicy, Resolve, Choose, Configs, Locks,
   Paths, MaybeUrl

(* The values of an idle thread and of a fresh start have their types.     *)
LEMMA DefaultTypes ==
    /\ NoConfig \in Configs
    /\ DefaultLocal \in LocalConfigs
    /\ LoopIdle \in LoopStates
    /\ IpcIdle \in IpcStates
    /\ NoTask \in WorkerStates
    /\ Locks(NoPolicy) \in [url : BOOLEAN, paths : BOOLEAN]
BY DEF NoConfig, Configs, DefaultLocal, LocalConfigs, LoopIdle, LoopStates, IpcIdle,
   IpcStates, NoTask, WorkerStates, NoPolicy, Locks, MaybeUrl, MaybeSecrets, Paths,
   MaybeKind, Results, ServiceStates, NeverValidated, MaybeIdentity

(* The operation statuses that handlers build are statuses.                *)
LEMMA StatusTypes ==
    /\ \A k \in OperationKinds : Running(k) \in OperationStatuses
    /\ \A s \in {"NotRun", "ValidationRequired", "Succeeded", "Failed"} :
         Settled(s) \in OperationStatuses
BY DEF OperationStatuses

(* from_resolved_with_state yields a runtime state.                        *)
LEMMA LoadedType ==
    ASSUME NEW s \in ServiceStates, NEW c \in Configs
    PROVE  LoadedRuntime(s, c) \in RuntimeStates
BY StatusTypes DEF LoadedRuntime, RuntimeStates, BackupStates, WaitingStates

(* apply_configuration_status yields a runtime state.                      *)
LEMMA AppliedType ==
    ASSUME NEW r \in RuntimeStates, NEW c \in Configs
    PROVE  ApplyConfigurationStatus(r, c) \in RuntimeStates
BY ZenonT(30) DEF ApplyConfigurationStatus, RuntimeStates, BackupStates, WaitingStates, IsConfigured

(* An event built from its parts is a RuntimeEvent.                        *)
LEMMA EventType ==
    ASSUME NEW type \in EventTypes, NEW kind \in MaybeKind, NEW result \in Results
    PROVE  Event(type, kind, result) \in RuntimeEvents
BY DEF Event, RuntimeEvents

(* Taking an event from the channel and putting one into it.               *)
LEMMA ReceivedType ==
    ASSUME queue \in Seq(RuntimeEvents), queue # <<>>
    PROVE  Head(queue) \in RuntimeEvents /\ Tail(queue) \in Seq(RuntimeEvents)
OBVIOUS

(* What a terminated process leaves has its type.                          *)
LEMMA EmptyTypes ==
    /\ <<>> \in Seq(RuntimeEvents)
    /\ [w \in Workers |-> NoTask] \in [Workers -> WorkerStates]
BY DefaultTypes

(* Giving up the update hold yields a runtime state.                       *)
LEMMA HoldReleasedType ==
    ASSUME NEW r \in RuntimeStates
    PROVE  HoldReleased(r) \in RuntimeStates
BY ZenonT(30) DEF HoldReleased, RuntimeStates

(* finish_update_install yields a runtime state.                           *)
LEMMA UpdateInstallFinishedType ==
    ASSUME NEW r \in RuntimeStates, NEW result \in Results
    PROVE  UpdateInstallFinished(r, result) \in RuntimeStates
BY ZenonT(30) DEF UpdateInstallFinished, RuntimeStates

(* A spawned worker is a worker state.                                     *)
LEMMA SpawnedType ==
    ASSUME NEW task \in {"backup", "repository", "update"}, NEW kind \in MaybeKind,
           NEW pc \in {"spawned", "installing"}
    PROVE  Spawned(task, kind, pc) \in WorkerStates
BY DefaultTypes, ZenonT(30) DEF Spawned, WorkerStates

(* Cancelling tokens keeps the workers typed.                              *)
LEMMA CancelledType ==
    ASSUME worker \in [Workers -> WorkerStates], NEW tasks
    PROVE  Cancelled(tasks) \in [Workers -> WorkerStates]
BY ZenonT(30) DEF Cancelled, WorkerStates

(* The loop that finishes an operation is a loop state.                    *)
LEMMA FinishingType ==
    ASSUME config \in Configs, NEW kind \in MaybeKind, NEW result \in Results,
           NEW reported \in BOOLEAN
    PROVE  Finishing(kind, result, reported) \in LoopStates
BY DefaultTypes, ZenonT(30) DEF Finishing, LoopStates

(* The end of the process keeps the types.                                 *)
LEMMA TerminateType ==
    ASSUME TypeOK, Terminate PROVE TypeOK'
<1>1. LoadedRuntime(NeverValidated, NoConfig) \in RuntimeStates
  BY VerifiedType, LoadedType, DefaultTypes
<1> QED
  BY <1>1, EmptyTypes, DefaultTypes, ZenonT(30) DEF TypeOK, Terminate, IpcIdle

(* Activating a policy keeps configuration and runtime typed.              *)
LEMMA ActivateType ==
    ASSUME TypeOK, NEW local \in LocalConfigs, NEW p \in Policies \cup {NoPolicy},
           ActivatePolicy(local, p)
    PROVE  /\ config' \in Configs
           /\ field_locks' \in [url : BOOLEAN, paths : BOOLEAN]
           /\ runtime' \in RuntimeStates
           /\ saved_state' \in ServiceStates
<1>1. Resolve(local, p) \in Configs /\ Locks(p) \in [url : BOOLEAN, paths : BOOLEAN]
  BY ResolveType
<1>2. ValidationRequired \in ServiceStates
  BY DefaultTypes, VerifiedType
<1>3. [runtime EXCEPT !.repository_operation = Settled("ValidationRequired"),
                      !.service_state = ValidationRequired] \in RuntimeStates
  BY <1>2, StatusTypes, ZenonT(30) DEF TypeOK, RuntimeStates
<1> QED
  BY <1>1, <1>2, <1>3, AppliedType DEF ActivatePolicy, TypeOK

(* begin_repository_operation yields a runtime state.                      *)
LEMMA OperationBegunType ==
    ASSUME TypeOK, NEW operation \in OperationStatuses
    PROVE  OperationBegun(operation) \in RuntimeStates
<1>1. ValidationRequired \in ServiceStates
  BY DefaultTypes, VerifiedType
<1>2. CASE IsConfigured(ipc.config)
  BY <1>1, <1>2, ZenonT(30) DEF OperationBegun, TypeOK, RuntimeStates, BackupStates, WaitingStates
<1>3. CASE ~IsConfigured(ipc.config)
  BY <1>1, <1>3, ZenonT(30) DEF OperationBegun, TypeOK, RuntimeStates
<1> QED
  BY <1>2, <1>3

(* Every step keeps the types.                                             *)
LEMMA TypeStep == TypeOK /\ [Next]_vars => TypeOK'
<1> SUFFICES ASSUME TypeOK, [Next]_vars PROVE TypeOK'
  OBVIOUS
<1> USE DEF TypeOK, configVars, activeVars, loopVars
<1>1. CASE Start
  <2>1. [LoopIdle EXCEPT !.pc = "wake"] \in LoopStates
    BY DefaultTypes DEF LoopStates
  <2>2. /\ runtime' \in RuntimeStates
        /\ config' \in Configs
        /\ local_config' \in LocalConfigs
        /\ field_locks' \in [url : BOOLEAN, paths : BOOLEAN]
    <3>1. CASE /\ local_config' = saved_config
               /\ \E p \in {NoPolicy} \cup (IF saved_config.managed THEN Policies ELSE {}) :
                    /\ config' = Resolve(saved_config, p)
                    /\ field_locks' = Locks(p)
               /\ \E s \in {saved_state, UnreadableState(config')} :
                    runtime' = LoadedRuntime(s, config')
      <4>1. config' \in Configs /\ field_locks' \in [url : BOOLEAN, paths : BOOLEAN]
        BY <3>1, ResolveType
      <4>2. runtime' \in RuntimeStates
        BY <3>1, <4>1, VerifiedType, LoadedType
      <4> QED
        BY <3>1, <4>1, <4>2
    <3>2. CASE /\ local_config' = DefaultLocal
               /\ config' = NoConfig
               /\ field_locks' = Locks(NoPolicy)
               /\ runtime' = [LoadedRuntime(NeverValidated, NoConfig) EXCEPT !.state = "Invalid"]
      <4>1. LoadedRuntime(NeverValidated, NoConfig) \in RuntimeStates
        BY VerifiedType, LoadedType, DefaultTypes
      <4>2. runtime' \in RuntimeStates
        BY <3>2, <4>1 DEF RuntimeStates, BackupStates
      <4> QED
        BY <3>2, <4>2, DefaultTypes
    <3> QED
      BY <1>1, <3>1, <3>2 DEF Start
  <2> QED
    BY <1>1, <2>1, <2>2 DEF Start
<1>2. CASE Crash
  BY <1>2, TerminateType DEF Crash
<1>3. CASE Exit
  BY <1>3, TerminateType DEF Exit
<1>4. CASE HoldExpires
  BY <1>4 DEF HoldExpires, RuntimeStates
<1>5. CASE ControlStop
  BY <1>5, EventType DEF ControlStop, EventTypes, MaybeKind, Results
<1>6. CASE Wake
  BY <1>6, DefaultTypes, ZenonT(30) DEF Wake, LoopStates
<1>7. CASE EvaluateWhileUpdating
  BY <1>7, DefaultTypes
     DEF EvaluateWhileUpdating, Evaluating, RuntimeStates, BackupStates, WaitingStates
<1>8. CASE EvaluateWithoutStart
  <2>1. HoldReleased(runtime) \in RuntimeStates
    BY HoldReleasedType
  <2>2. runtime' \in RuntimeStates
    BY <1>8, <2>1 DEF EvaluateWithoutStart, RuntimeStates, BackupStates, WaitingStates
  <2> QED
    BY <1>8, <2>2, DefaultTypes DEF EvaluateWithoutStart, Evaluating
<1>9. CASE EvaluateToStart
  <2>1. HoldReleased(runtime) \in RuntimeStates
    BY HoldReleasedType
  <2>2. runtime' \in RuntimeStates
    BY <1>9, <2>1, ZenonT(30) DEF EvaluateToStart, RuntimeStates, BackupStates
  <2>3. worker' \in [Workers -> WorkerStates] /\ active_backup' \in Workers \cup {NoWorker}
    BY <1>9, SpawnedType DEF EvaluateToStart, MaybeKind
  <2>4. loop' \in LoopStates
    BY <1>9, DefaultTypes DEF EvaluateToStart, LoopStates
  <2> QED
    BY <1>9, <2>2, <2>3, <2>4 DEF EvaluateToStart, Evaluating
<1>10. CASE FinishFailedStart
  BY <1>10, DefaultTypes DEF FinishFailedStart, RuntimeStates, BackupStates
<1>11. CASE ReceiveStop
  BY <1>11, ReceivedType, CancelledType DEF ReceiveStop, Receive
<1>12. CASE ReceiveCancel
  BY <1>12, ReceivedType, CancelledType DEF ReceiveCancel, Receive
<1>13. CASE ReceiveBackupFinished
  <2>1. runtime' \in RuntimeStates
    BY <1>13 DEF ReceiveBackupFinished, RuntimeStates, BackupStates
  <2>2. loop' \in LoopStates
    BY <1>13, DefaultTypes, ZenonT(30) DEF ReceiveBackupFinished, LoopStates, RuntimeStates
  <2> QED
    BY <1>13, <2>1, <2>2, ReceivedType DEF ReceiveBackupFinished, Receive
<1>14. CASE SaveBackupState
  BY <1>14, DefaultTypes DEF SaveBackupState, LoopStates
<1>15. CASE ReceiveRepositoryOperationRequested
  <2>1. Head(queue) \in RuntimeEvents /\ Tail(queue) \in Seq(RuntimeEvents)
    BY <1>15, ReceivedType DEF ReceiveRepositoryOperationRequested, Receive
  <2>2. Spawned("repository", Head(queue).kind, "spawned") \in WorkerStates
    BY <2>1, SpawnedType DEF RuntimeEvents
  <2>3. Finishing(Head(queue).kind, "failed", FALSE) \in LoopStates
    BY <2>1, FinishingType, ZenonT(30) DEF RuntimeEvents, Results
  <2> QED
    BY <1>15, <2>1, <2>2, <2>3, ZenonT(30) DEF ReceiveRepositoryOperationRequested, Receive
<1>16. CASE ReceiveRepositoryOperationFinished
  BY <1>16, ReceivedType, DefaultTypes, ZenonT(30)
     DEF ReceiveRepositoryOperationFinished, Receive, Finishing, LoopStates,
         RuntimeEvents
<1>17. CASE ReceiveUpdateInstallRequested
  <2>1. UpdateInstallFinished(runtime, "failed") \in RuntimeStates
    BY UpdateInstallFinishedType DEF Results
  <2>2. Spawned("update", "none", "installing") \in WorkerStates
    BY SpawnedType DEF MaybeKind
  <2> QED
    BY <1>17, <2>1, <2>2, ReceivedType DEF ReceiveUpdateInstallRequested, Receive
<1>18. CASE ReceiveUpdateInstallFinished
  BY <1>18, ReceivedType, DefaultTypes, ZenonT(30)
     DEF ReceiveUpdateInstallFinished, Receive, UpdateInstallFinished, LoopStates,
         RuntimeStates
<1>19. CASE DiscardWhileDraining
  BY <1>19, ReceivedType DEF DiscardWhileDraining, Receive
<1>20. CASE FinishRepositoryOperation
  <2>1. RepositoryVerified(loop.config) \in ServiceStates /\ loop.config \in Configs
    BY VerifiedType DEF LoopStates
  <2>2. ASSUME NEW s \in ServiceStates, NEW status \in {"Succeeded", "Failed"}
        PROVE  ApplyConfigurationStatus(
                 [runtime EXCEPT !.service_state = s,
                                 !.repository_operation = Settled(status)], loop.config)
                 \in RuntimeStates
    <3>1. [runtime EXCEPT !.service_state = s, !.repository_operation = Settled(status)]
            \in RuntimeStates
      BY StatusTypes, ZenonT(30) DEF RuntimeStates
    <3> QED
      BY <2>1, <3>1, AppliedType
  <2>3. runtime.service_state \in ServiceStates
    BY DEF RuntimeStates
  <2>4. runtime' \in RuntimeStates /\ saved_state' \in ServiceStates
    BY <1>20, <2>1, <2>2, <2>3, ZenonT(30) DEF FinishRepositoryOperation
  <2>5. loop' \in LoopStates
    BY <1>20, DefaultTypes DEF FinishRepositoryOperation, LoopStates
  <2> QED
    BY <1>20, <2>4, <2>5 DEF FinishRepositoryOperation
<1>21. CASE \E w \in Workers : WorkerStep(w)
  <2> PICK w \in Workers : WorkerStep(w)
    BY <1>21
  <2>1. CASE WorkerReadsConfig(w)
    <3>1. [worker[w] EXCEPT !.pc = "restic", !.repository = Identity(config)] \in WorkerStates
      BY IdentityType, ZenonT(30) DEF WorkerStates
    <3> QED
      BY <2>1, <3>1 DEF WorkerReadsConfig
  <2>2. ASSUME NEW event \in RuntimeEvents, Report(w, event)
        PROVE  queue' \in Seq(RuntimeEvents) /\ worker' \in [Workers -> WorkerStates]
    BY <2>2, DefaultTypes DEF Report
  <2>3. CASE BackupEnds(w)
    <3>1. \A result \in Results : Event("BackupFinished", "none", result) \in RuntimeEvents
      BY EventType, ZenonT(30) DEF EventTypes, MaybeKind
    <3>2. [worker[w] EXCEPT !.pc = "retention"] \in WorkerStates
      BY ZenonT(30) DEF WorkerStates
    <3>3. queue' \in Seq(RuntimeEvents) /\ worker' \in [Workers -> WorkerStates]
      BY <2>2, <2>3, <3>1, <3>2 DEF BackupEnds, Results
    <3>4. runtime' \in RuntimeStates
      BY <2>3 DEF BackupEnds, RuntimeStates, BackupStates
    <3> QED
      BY <2>3, <3>3, <3>4 DEF BackupEnds
  <2>4. CASE RetentionEnds(w)
    <3>1. [worker[w] EXCEPT !.pc = "saving", !.snapshot = runtime.service_state]
            \in WorkerStates
      <4>1. runtime.service_state \in ServiceStates
        BY DEF RuntimeStates
      <4> QED
        BY <4>1, ZenonT(30) DEF WorkerStates
    <3> QED
      BY <2>4, <3>1 DEF RetentionEnds
  <2>5. CASE SaveRetentionState(w)
    <3>1. Event("BackupFinished", "none", "ok") \in RuntimeEvents
      BY EventType DEF EventTypes, MaybeKind, Results
    <3> QED
      BY <2>2, <2>5, <3>1 DEF SaveRetentionState, WorkerStates
  <2>6. CASE RepositoryOperationEnds(w)
    <3>1. \A result \in Results :
            Event("RepositoryOperationFinished", worker[w].kind, result) \in RuntimeEvents
      BY EventType DEF EventTypes, WorkerStates
    <3>2. worker[w].repository # Absent => worker[w].repository \in Identities
      BY DEF WorkerStates, MaybeIdentity
    <3>3. queue' \in Seq(RuntimeEvents) /\ worker' \in [Workers -> WorkerStates]
      BY <2>2, <2>6, <3>1 DEF RepositoryOperationEnds, Results
    <3> QED
      BY <2>6, <3>2, <3>3 DEF RepositoryOperationEnds
  <2>7. CASE UpdateInstallEnds(w)
    <3>1. \A result \in Results :
            Event("UpdateInstallFinished", "none", result) \in RuntimeEvents
      BY EventType, ZenonT(30) DEF EventTypes, MaybeKind
    <3> QED
      BY <2>2, <2>7, <3>1 DEF UpdateInstallEnds, Results
  <2> QED
    BY <2>1, <2>3, <2>4, <2>5, <2>6, <2>7 DEF WorkerStep
<1>22. CASE RunNowChecksConfigured
  BY <1>22, DefaultTypes
     DEF RunNowChecksConfigured, IpcStates, RestUnchanged, Accepts, At, Continue, Reply,
         IpcIdle
<1>23. CASE RunNowChecksRepository
  BY <1>23, DefaultTypes
     DEF RunNowChecksRepository, IpcStates, RestUnchanged, Accepts, At, Continue, Reply,
         IpcIdle
<1>24. CASE RunBackupNow
  <2>1. \A b \in BOOLEAN : [runtime EXCEPT !.manual_requested = b] \in RuntimeStates
    BY DEF RuntimeStates
  <2>2. (runtime.manual_requested \/ (~IsRunning /\ ~UpdatePending)) \in BOOLEAN
    BY DEF RuntimeStates
  <2> QED
    BY <1>24, <2>1, <2>2, DefaultTypes, ZenonT(30) DEF RunBackupNow, RestUnchanged, Reply, IpcIdle
<1>25. CASE CancelChecksRunning
  BY <1>25, DefaultTypes
     DEF CancelChecksRunning, IpcStates, RestUnchanged, Accepts, At, Continue, Reply,
         IpcIdle
<1>26. CASE CancelBackup
  BY <1>26, DefaultTypes, EventType
     DEF CancelBackup, EventTypes, MaybeKind, Results, RestUnchanged, Accepts, At,
         Continue, Reply, IpcIdle
<1>27. CASE DeferChecksConfigured
  BY <1>27, DefaultTypes
     DEF DeferChecksConfigured, IpcStates, RestUnchanged, Accepts, At, Continue, Reply,
         IpcIdle
<1>28. CASE DeferBackup
  BY <1>28, DefaultTypes, ZenonT(30)
     DEF DeferBackup, RuntimeStates, IsRunning, AllowsBackup, RestUnchanged, Accepts,
         At, Continue, Reply, IpcIdle
<1>29. CASE RepositoryOperationReadsConfig
  BY <1>29, DefaultTypes, ZenonT(30)
     DEF RepositoryOperationReadsConfig, IpcStates, MaybeKind, RestUnchanged, Accepts,
         At, Continue, Reply, IpcIdle
<1>30. CASE PrepareForUpdate
  <2>1. runtime' \in RuntimeStates
    BY <1>30, ZenonT(30)
       DEF PrepareForUpdate, HoldForUpdate, RuntimeStates, BackupStates, WaitingStates
  <2> QED
    BY <1>30, <2>1 DEF PrepareForUpdate, RestUnchanged
<1>31. CASE BeginUpdateInstall
  <2>1. runtime' \in RuntimeStates
    BY <1>31, ZenonT(30)
       DEF BeginUpdateInstall, HoldForUpdate, RuntimeStates, BackupStates,
           WaitingStates
  <2>2. queue' \in Seq(RuntimeEvents)
    BY <1>31, EventType DEF BeginUpdateInstall, EventTypes, MaybeKind, Results
  <2> QED
    BY <1>31, <2>1, <2>2 DEF BeginUpdateInstall, RestUnchanged
<1>32. CASE UpdateSchedule
  BY <1>32, AppliedType
     DEF UpdateSchedule, RestUnchanged, Accepts, At, Continue, Reply, IpcIdle
<1>33. CASE UpdateBackupSources
  <2>1. config' \in Configs /\ local_config' \in LocalConfigs
    BY <1>33 DEF UpdateBackupSources, Configs, LocalConfigs, Paths
  <2> QED
    BY <1>33, <2>1, AppliedType DEF UpdateBackupSources, RestUnchanged
<1>34. CASE UpdateRepository
  <2>1. ValidationRequired \in ServiceStates
    BY DefaultTypes, VerifiedType
  <2>2. ASSUME NEW url \in [local : MaybeUrl, effective : MaybeUrl],
               NEW secrets \in MaybeSecrets, Reconnect(url, secrets)
        PROVE  /\ config' \in Configs
               /\ {local_config', saved_config'} \subseteq LocalConfigs
               /\ saved_state' \in ServiceStates
               /\ runtime' \in RuntimeStates
    <3>1. [runtime EXCEPT !.repository_operation = Settled("ValidationRequired"),
                          !.service_state = ValidationRequired] \in RuntimeStates
      BY <2>1, StatusTypes, ZenonT(30) DEF RuntimeStates
    <3>2. config' \in Configs /\ {local_config', saved_config'} \subseteq LocalConfigs
      <4>1. [local_config EXCEPT !.url = url.local, !.secrets = secrets] \in LocalConfigs
        BY ZenonT(30) DEF LocalConfigs
      <4>2. [config EXCEPT !.url = url.effective, !.secrets = secrets] \in Configs
        BY ZenonT(30) DEF Configs
      <4> QED
        BY <2>2, <4>1, <4>2 DEF Reconnect
    <3> QED
      BY <2>1, <2>2, <3>1, <3>2, AppliedType DEF Reconnect
  <2>3. /\ config' \in Configs
        /\ {local_config', saved_config'} \subseteq LocalConfigs
        /\ saved_state' \in ServiceStates
        /\ runtime' \in RuntimeStates
    <3>1. CASE runtime' = ApplyConfigurationStatus(runtime, config)
                 /\ UNCHANGED <<config, local_config, saved_config, saved_state>>
      BY <3>1, AppliedType
    <3>2. CASE \E url \in [local : MaybeUrl, effective : MaybeUrl],
                  secrets \in MaybeSecrets : Reconnect(url, secrets)
      BY <2>2, <3>2
    <3> QED
      BY <1>34, <3>1, <3>2 DEF UpdateRepository, Configs, LocalConfigs
  <2> QED
    BY <1>34, <2>3 DEF UpdateRepository, RestUnchanged
<1>35. CASE EnrollBegins
  BY <1>35, DefaultTypes, ZenonT(30)
     DEF EnrollBegins, RuntimeStates, IpcStates, RestUnchanged, Accepts, At, Continue,
         Reply, IpcIdle
<1>36. CASE UnenrollChecks
  BY <1>36, DefaultTypes
     DEF UnenrollChecks, IpcStates, RestUnchanged, Accepts, At, Continue, Reply, IpcIdle
<1>37. CASE BeginRepositoryOperation
  <2>1. ValidationRequired \in ServiceStates
    BY DefaultTypes, VerifiedType
  <2>2. ipc.kind \in MaybeKind /\ ipc.kind \in OperationKinds
    BY <1>37 DEF BeginRepositoryOperation, At, MaybeKind
  <2>3. Event("RepositoryOperationRequested", ipc.kind, "none") \in RuntimeEvents
    BY <2>2, EventType DEF EventTypes, Results
  <2>4. Running(ipc.kind) \in OperationStatuses /\ Settled("Failed") \in OperationStatuses
    BY <2>2, StatusTypes
  <2>5. runtime' \in RuntimeStates /\ saved_state' \in ServiceStates
    BY <1>37, <2>1, <2>4, OperationBegunType DEF BeginRepositoryOperation
  <2>6. queue' \in Seq(RuntimeEvents)
    BY <1>37, <2>3 DEF BeginRepositoryOperation
  <2> QED
    BY <1>37, <2>5, <2>6, DefaultTypes
       DEF BeginRepositoryOperation, RestUnchanged, Reply, IpcIdle
<1>38. CASE SaveEnrollment
  <2>1. ASSUME NEW secrets \in {local_config.secrets} \cup Secrets
        PROVE  [local_config EXCEPT !.secrets = secrets, !.managed = TRUE] \in LocalConfigs
    BY ZenonT(30) DEF LocalConfigs, MaybeSecrets
  <2>2. ASSUME NEW p \in Policies
        PROVE  [IpcIdle EXCEPT !.pc = "enrolling", !.policy = p] \in IpcStates
    BY DefaultTypes, ZenonT(30) DEF IpcStates
  <2>3. ipc'.pc = "enrolling"
    BY <1>38 DEF SaveEnrollment, IpcIdle
  <2> QED
    BY <1>38, <2>1, <2>2, <2>3, ZenonT(30) DEF SaveEnrollment, RestUnchanged
<1>39. CASE CommitEnrollment
  <2>1. ipc.policy \in Policies \cup {NoPolicy}
    BY DEF IpcStates
  <2>2. ActivatePolicy(saved_config, ipc.policy)
    BY <1>39 DEF CommitEnrollment
  <2>3. ipc' \in IpcStates /\ ipc'.pc # "repositoryOperation"
    BY <1>39, DefaultTypes DEF CommitEnrollment, Continue, IpcStates, IpcIdle
  <2> QED
    BY <1>39, <2>1, <2>2, <2>3, ActivateType DEF CommitEnrollment, RestUnchanged
<1>40. CASE EnrollEnds
  BY <1>40, DefaultTypes, ZenonT(30)
     DEF EnrollEnds, RuntimeStates, RestUnchanged, Accepts, At, Continue, Reply, IpcIdle
<1>41. CASE UnenrollWrites
  <2>1. [local_config EXCEPT !.managed = FALSE] \in LocalConfigs
    BY ZenonT(30) DEF LocalConfigs
  <2>2. ipc' \in IpcStates /\ ipc'.pc # "repositoryOperation"
    BY <1>41, DefaultTypes DEF UnenrollWrites, Continue, Reply, IpcStates, IpcIdle
  <2>3. /\ config' \in Configs
        /\ {local_config', saved_config'} \subseteq LocalConfigs
        /\ field_locks' \in [url : BOOLEAN, paths : BOOLEAN]
    <3>1. CASE UNCHANGED configVars
      BY <3>1
    <3>2. CASE /\ local_config' = [local_config EXCEPT !.managed = FALSE]
               /\ saved_config' = local_config'
               /\ config' = Resolve(local_config', NoPolicy)
               /\ field_locks' = Locks(NoPolicy)
      BY <2>1, <3>2, ResolveType
    <3> QED
      BY <1>41, <3>1, <3>2 DEF UnenrollWrites
  <2> QED
    BY <1>41, <2>2, <2>3 DEF UnenrollWrites, RestUnchanged
<1>42. CASE UnenrollApplies
  BY <1>42, DefaultTypes, AppliedType
     DEF UnenrollApplies, RestUnchanged, Accepts, At, Continue, Reply, IpcIdle
<1>43. CASE ApplyManagedPolicy
  BY <1>43, ActivateType DEF ApplyManagedPolicy, RestUnchanged
<1>44. CASE UNCHANGED vars
  BY <1>44 DEF vars
<1> QED
  BY <1>1, <1>2, <1>3, <1>4, <1>5, <1>6, <1>7, <1>8, <1>9, <1>10, <1>11, <1>12, <1>13, ZenonT(30),
     <1>14, <1>15, <1>16, <1>17, <1>18, <1>19, <1>20, <1>21, <1>22, <1>23, <1>24, <1>25,
     <1>26, <1>27, <1>28, <1>29, <1>30, <1>31, <1>32, <1>33, <1>34, <1>35, <1>36, <1>37,
     <1>38, <1>39, <1>40, <1>41, <1>42, <1>43, <1>44
     DEF Next, EventLoopStep, ReceiveEvent, ContinueEvent, AcceptRequest, ContinueRequest

(* The initial state has the types.                                        *)
LEMMA TypeInit == Init => TypeOK
<1> SUFFICES ASSUME Init PROVE TypeOK
  OBVIOUS
<1>1. LoadedRuntime(NeverValidated, NoConfig) \in RuntimeStates
  BY VerifiedType, LoadedType, DefaultTypes
<1>2. NeverValidated \in ServiceStates
  BY VerifiedType, DefaultTypes
<1> QED
  BY <1>1, <1>2, EmptyTypes, DefaultTypes, ZenonT(30) DEF Init, TypeOK, IpcIdle

(* Type correctness of the service: whatever the interleaving of loop,     *)
(* workers, requests and restarts, every variable keeps its type.          *)
THEOREM TypeCorrect == Spec => []TypeOK
BY TypeInit, TypeStep, PTL DEF Spec

-----------------------------------------------------------------------------
(* The channel                                                             *)

(* Sending adds the event's type to the channel and no other.              *)
LEMMA HoldsAppend ==
    ASSUME NEW q \in Seq(RuntimeEvents), NEW e \in RuntimeEvents, NEW t
    PROVE  /\ Holds(Append(q, e), t) <=> Holds(q, t) \/ e.type = t
           /\ Once(q, t) /\ ~Holds(q, t) => Once(Append(q, e), t)
           /\ Once(q, t) /\ e.type # t => Once(Append(q, e), t)
<1>1. /\ Len(Append(q, e)) = Len(q) + 1 /\ Len(q) \in Nat
      /\ \A i \in 1..Len(q) : Append(q, e)[i] = q[i]
      /\ Append(q, e)[Len(q) + 1] = e
  OBVIOUS
<1> QED
  BY <1>1 DEF Holds, Once

(* Receiving removes the head, the only event of a type held once.         *)
LEMMA HoldsTail ==
    ASSUME NEW q \in Seq(RuntimeEvents), q # <<>>, NEW t
    PROVE  /\ Holds(Tail(q), t) => Holds(q, t)
           /\ Once(q, t) => Once(Tail(q), t)
           /\ Head(q).type = t => Holds(q, t)
           /\ Once(q, t) /\ Head(q).type = t => ~Holds(Tail(q), t)
<1>1. /\ Len(Tail(q)) = Len(q) - 1 /\ Len(q) \in Nat \ {0}
      /\ \A i \in 1..Len(q) - 1 : Tail(q)[i] = q[i + 1]
      /\ Head(q) = q[1]
  OBVIOUS
<1> QED
  BY <1>1 DEF Holds, Once

(* An empty channel holds nothing.                                         *)
LEMMA HoldsEmpty == \A t : ~Holds(<<>>, t) /\ Once(<<>>, t)
BY DEF Holds, Once

-----------------------------------------------------------------------------
(* One restic at a time                                                    *)

(* What the steps of other threads must leave alone.                       *)
LEMMA ExclusionFrame ==
    ASSUME ResticExclusion,
           UNCHANGED <<up, queue, worker, active_backup, loop>>,
           OperationRunning' <=> OperationRunning,
           ~up => UNCHANGED ipc,
           ipc'.pc \in {"enroll", "enrolling"} =>
               ipc.pc \in {"enroll", "enrolling"} \/ ~OperationRunning
    PROVE  ResticExclusion'
BY DEF ResticExclusion, BackupInOnePlace, OperationInOnePlace, Task

(* What a step that sends or receives an event of no restic process must   *)
(* leave alone.                                                            *)
LEMMA ChannelFrame ==
    ASSUME ResticExclusion, up, up',
           active_backup' = active_backup, loop'.pc = loop.pc,
           OperationRunning' <=> OperationRunning,
           ipc'.pc \in {"enroll", "enrolling"} => ipc.pc \in {"enroll", "enrolling"},
           \A w \in Workers : worker'[w].task = worker[w].task /\ worker'[w].pc = worker[w].pc,
           \A t \in {"BackupFinished", "RepositoryOperationRequested",
                     "RepositoryOperationFinished"} :
               /\ Holds(queue', t) => Holds(queue, t)
               /\ Once(queue, t) => Once(queue', t)
    PROVE  ResticExclusion'
<1>1. Task("backup")' = Task("backup") /\ Task("repository")' = Task("repository")
  BY DEF Task
<1>2. BackupInOnePlace'
  BY <1>1 DEF ResticExclusion, BackupInOnePlace
<1>3. OperationInOnePlace'
  BY <1>1 DEF ResticExclusion, OperationInOnePlace
<1> QED
  BY <1>2, <1>3 DEF ResticExclusion

(* The status of the operation is kept by the operators that do not set it.*)
LEMMA StatusKept ==
    ASSUME NEW r \in RuntimeStates, NEW c
    PROVE  /\ ApplyConfigurationStatus(r, c).repository_operation = r.repository_operation
           /\ HoldReleased(r).repository_operation = r.repository_operation
           /\ \A result : UpdateInstallFinished(r, result).repository_operation
                            = r.repository_operation
BY DEF ApplyConfigurationStatus, HoldReleased, UpdateInstallFinished, RuntimeStates

(* A connection that is to be validated again runs no operation, and an    *)
(* idle service that activates a policy runs none afterwards.              *)
LEMMA RevalidatedStatus ==
    ASSUME TypeOK, NEW c
    PROVE  ApplyConfigurationStatus(
             [runtime EXCEPT !.repository_operation = Settled("ValidationRequired"),
                             !.service_state = ValidationRequired], c)
               .repository_operation.status # "Running"
<1>1. [runtime EXCEPT !.repository_operation = Settled("ValidationRequired"),
                      !.service_state = ValidationRequired] \in RuntimeStates
  BY StatusTypes, VerifiedType, DefaultTypes, ZenonT(30) DEF TypeOK, RuntimeStates
<1>2. [runtime EXCEPT !.repository_operation = Settled("ValidationRequired"),
                      !.service_state = ValidationRequired].repository_operation
        = Settled("ValidationRequired")
  BY DEF TypeOK, RuntimeStates
<1>3. Settled("ValidationRequired").status # "Running"
  BY DEF Settled
<1> QED
  BY <1>1, <1>2, <1>3, StatusKept, ZenonT(30)

(* A policy activated on an idle service leaves no operation running.      *)
LEMMA ActivatedStatus ==
    ASSUME TypeOK, ~OperationRunning, NEW local, NEW p, ActivatePolicy(local, p)
    PROVE  ~OperationRunning'
BY RevalidatedStatus, StatusKept DEF ActivatePolicy, OperationRunning, TypeOK

(* The initial state has nothing anywhere.                                 *)
LEMMA ExclusionInit == Init => ResticExclusion
BY HoldsEmpty
   DEF Init, ResticExclusion, BackupInOnePlace, OperationInOnePlace, Task, NoTask,
   IpcIdle, LoopIdle

(* The end of the process leaves nothing anywhere.                         *)
LEMMA TerminateExclusion ==
    ASSUME Terminate PROVE ResticExclusion'
BY HoldsEmpty DEF Terminate, ResticExclusion, BackupInOnePlace, OperationInOnePlace, Task,
   NoTask, IpcIdle, LoopIdle

(* Every step keeps the invariant.                                         *)
LEMMA ExclusionStep == TypeOK /\ ResticExclusion /\ [Next]_vars => ResticExclusion'
<1> SUFFICES ASSUME TypeOK, ResticExclusion, [Next]_vars PROVE ResticExclusion'
  OBVIOUS
<1> USE DEF configVars, activeVars, loopVars
<1>a. /\ runtime \in RuntimeStates
      /\ queue \in Seq(RuntimeEvents)
      /\ worker \in [Workers -> WorkerStates]
      /\ NoWorker \notin Workers
  BY ConstantsAssumption DEF TypeOK
<1>1. CASE Start
  BY <1>1, <1>a, HoldsEmpty, StatusKept
     DEF Start, ResticExclusion, BackupInOnePlace, OperationInOnePlace, Task,
         LoadedRuntime, Settled, OperationRunning, LoopIdle
<1>2. CASE Crash
  BY <1>2, TerminateExclusion DEF Crash
<1>3. CASE Exit
  BY <1>3, TerminateExclusion DEF Exit
<1>4. CASE HoldExpires
  BY <1>4, <1>a, ExclusionFrame DEF HoldExpires, OperationRunning, RuntimeStates
<1>5. CASE ControlStop
  <2>1. Event("Stop", "none", "none") \in RuntimeEvents
    BY EventType DEF EventTypes, MaybeKind, Results
  <2>2. queue' = Append(queue, Event("Stop", "none", "none"))
    BY <1>5 DEF ControlStop
  <2>3. /\ \A t : Holds(queue', t) <=> Holds(queue, t) \/ "Stop" = t
        /\ \A t : t # "Stop" /\ Once(queue, t) => Once(queue', t)
    BY <1>a, <2>1, <2>2, HoldsAppend DEF Event
  <2>4. /\ up /\ up' /\ UNCHANGED <<active_backup, loop, worker, ipc>>
        /\ OperationRunning' <=> OperationRunning
    BY <1>5 DEF ControlStop, OperationRunning
  <2> QED
    BY <2>3, <2>4, ChannelFrame
<1>6. CASE Wake
  BY <1>6, <1>a
     DEF Wake, LoopIdle, OperationRunning, ResticExclusion, BackupInOnePlace,
         OperationInOnePlace, Task
<1>7. CASE EvaluateWhileUpdating
  BY <1>7, <1>a
     DEF EvaluateWhileUpdating, Evaluating, LoopIdle, OperationRunning, RuntimeStates,
         ResticExclusion, BackupInOnePlace, OperationInOnePlace, Task
<1>8. CASE EvaluateWithoutStart
  <2>1. runtime'.repository_operation = runtime.repository_operation
    BY <1>8, <1>a, HoldReleasedType, StatusKept DEF EvaluateWithoutStart, RuntimeStates
  <2> QED
    BY <1>8, <1>a, <2>1
       DEF EvaluateWithoutStart, Evaluating, LoopIdle, OperationRunning,
           ResticExclusion, BackupInOnePlace, OperationInOnePlace, Task
<1>9. CASE EvaluateToStart
  <2>1. runtime'.repository_operation = runtime.repository_operation
    BY <1>9, <1>a, HoldReleasedType, StatusKept DEF EvaluateToStart, RuntimeStates
  <2>2. ~OperationRunning
    BY <1>9, <1>a, StatusKept DEF EvaluateToStart, MayDecide, AllowsBackup, Settled,
       OperationRunning
  <2>3. active_backup = NoWorker /\ Task("backup") = {} /\ Task("repository") = {}
    BY <1>9, <1>a, <2>2
       DEF EvaluateToStart, Evaluating, ResticExclusion, BackupInOnePlace,
           OperationInOnePlace, Task
  <2>4. ~Holds(queue, "BackupFinished")
    BY <2>3 DEF ResticExclusion, BackupInOnePlace
  <2>5. CASE UNCHANGED <<active_backup, worker>> /\ loop'.pc = "startFailed"
    BY <1>9, <1>a, <2>1, <2>2, <2>3, <2>4, <2>5
       DEF EvaluateToStart, Evaluating, OperationRunning, ResticExclusion,
           BackupInOnePlace, OperationInOnePlace, Task
  <2>6. CASE \E w \in Workers :
               /\ active_backup' = w
               /\ worker' = [worker EXCEPT ![w] = Spawned("backup", "none", "spawned")]
               /\ loop' = LoopIdle
    <3>1. PICK w \in Workers :
               /\ active_backup' = w
               /\ worker' = [worker EXCEPT ![w] = Spawned("backup", "none", "spawned")]
               /\ loop' = LoopIdle
      BY <2>6, ZenonT(30)
    <3>2. worker'[w].task = "backup" /\ worker'[w].pc = "spawned"
      BY <1>a, <3>1 DEF Spawned, NoTask
    <3>3. \A v \in Workers : v # w => worker'[v] = worker[v]
      BY <1>a, <3>1
    <3>4. up /\ up' /\ queue' = queue /\ ipc' = ipc /\ loop'.pc = "idle"
      BY <1>9, <3>1 DEF EvaluateToStart, Evaluating, LoopIdle
    <3> QED
      BY <1>a, <2>1, <2>2, <2>3, <2>4, <3>1, <3>2, <3>3, <3>4, ZenonT(30)
         DEF OperationRunning, ResticExclusion, BackupInOnePlace, OperationInOnePlace,
             Task
  <2> QED
    BY <1>9, <2>5, <2>6 DEF EvaluateToStart, LoopIdle
<1>10. CASE FinishFailedStart
  BY <1>10, <1>a
     DEF FinishFailedStart, LoopIdle, OperationRunning, RuntimeStates, ResticExclusion,
         BackupInOnePlace, OperationInOnePlace, Task
<1>11. CASE ReceiveStop
  <2>1. /\ up /\ up' /\ ipc' = ipc /\ loop.pc = "idle"
        /\ queue # <<>> /\ Head(queue).type = "Stop" /\ queue' = Tail(queue)
    BY <1>11 DEF ReceiveStop, Receive
  <2>2. \A t : /\ Holds(queue', t) => Holds(queue, t)
               /\ Once(queue, t) => Once(queue', t)
    BY <1>a, <2>1, HoldsTail
  <2>3. \A w \in Workers : worker'[w].task = worker[w].task /\ worker'[w].pc = worker[w].pc
    BY <1>11, <1>a DEF ReceiveStop, Cancelled, WorkerStates
  <2>4. /\ active_backup' = active_backup /\ loop'.pc = loop.pc
        /\ OperationRunning' <=> OperationRunning
    BY <1>11 DEF ReceiveStop, OperationRunning
  <2> QED
    BY <2>1, <2>2, <2>3, <2>4, ChannelFrame
<1>12. CASE ReceiveCancel
  <2>1. /\ up /\ up' /\ ipc' = ipc /\ loop.pc = "idle"
        /\ queue # <<>> /\ Head(queue).type = "Cancel" /\ queue' = Tail(queue)
    BY <1>12 DEF ReceiveCancel, Receive
  <2>2. \A t : /\ Holds(queue', t) => Holds(queue, t)
               /\ Once(queue, t) => Once(queue', t)
    BY <1>a, <2>1, HoldsTail
  <2>3. \A w \in Workers : worker'[w].task = worker[w].task /\ worker'[w].pc = worker[w].pc
    BY <1>12, <1>a DEF ReceiveCancel, Cancelled, WorkerStates
  <2>4. /\ active_backup' = active_backup /\ loop'.pc = loop.pc
        /\ OperationRunning' <=> OperationRunning
    BY <1>12 DEF ReceiveCancel, OperationRunning
  <2> QED
    BY <2>1, <2>2, <2>3, <2>4, ChannelFrame
<1>13. CASE ReceiveBackupFinished
  <2>1. /\ up /\ up' /\ ipc' = ipc /\ loop.pc = "idle"
        /\ queue # <<>> /\ Head(queue).type = "BackupFinished" /\ queue' = Tail(queue)
    BY <1>13 DEF ReceiveBackupFinished, Receive
  <2>2. \A t : /\ Holds(queue', t) => Holds(queue, t)
               /\ Once(queue, t) => Once(queue', t)
    BY <1>a, <2>1, HoldsTail
  <2>3. Holds(queue, "BackupFinished") /\ ~Holds(queue', "BackupFinished")
    BY <1>a, <2>1, HoldsTail DEF ResticExclusion, BackupInOnePlace
  <2>4. OperationRunning' = OperationRunning
    BY <1>13, <1>a DEF ReceiveBackupFinished, OperationRunning, RuntimeStates
  <2>5. loop'.pc \in {"idle", "saveState"} /\ worker' = worker
    BY <1>13, <2>1, ZenonT(30) DEF ReceiveBackupFinished, LoopIdle
  <2> QED
    BY <1>a, <2>1, <2>2, <2>3, <2>4, <2>5
       DEF ResticExclusion, BackupInOnePlace, OperationInOnePlace, Task
<1>14. CASE SaveBackupState
  BY <1>14, <1>a, ZenonT(30)
     DEF SaveBackupState, LoopIdle, OperationRunning, ResticExclusion, BackupInOnePlace,
         OperationInOnePlace, Task
<1>15. CASE ReceiveRepositoryOperationRequested
  <2>1. /\ up /\ up' /\ ipc' = ipc /\ loop.pc = "idle"
        /\ queue # <<>> /\ Head(queue).type = "RepositoryOperationRequested" /\ queue' = Tail(queue)
    BY <1>15 DEF ReceiveRepositoryOperationRequested, Receive
  <2>2. \A t : /\ Holds(queue', t) => Holds(queue, t)
               /\ Once(queue, t) => Once(queue', t)
    BY <1>a, <2>1, HoldsTail, ZenonT(30)
  <2>3. /\ Holds(queue, "RepositoryOperationRequested")
        /\ ~Holds(queue', "RepositoryOperationRequested")
        /\ ~Holds(queue', "RepositoryOperationFinished")
        /\ Task("repository") = {} /\ OperationRunning
    BY <1>a, <2>1, <2>2, HoldsTail DEF ResticExclusion, OperationInOnePlace
  <2>4. OperationRunning' = OperationRunning /\ active_backup' = active_backup
    BY <1>15 DEF ReceiveRepositoryOperationRequested, OperationRunning
  <2>5. CASE loop'.pc = "finishRepository" /\ worker' = worker
    BY <1>a, <2>1, <2>2, <2>3, <2>4, <2>5
       DEF ResticExclusion, BackupInOnePlace, OperationInOnePlace, Task
  <2>6. CASE active_backup = NoWorker /\ UNCHANGED loop /\ \E w \in Workers :
               worker' = [worker EXCEPT ![w] =
                            Spawned("repository", Head(queue).kind, "spawned")]
    <3>1. PICK w \in Workers :
               worker' = [worker EXCEPT ![w] =
                            Spawned("repository", Head(queue).kind, "spawned")]
      BY <2>6, ZenonT(30)
    <3>2. worker'[w].task = "repository" /\ worker'[w].pc = "spawned"
      BY <1>a, <3>1 DEF Spawned, NoTask
    <3>3. \A v \in Workers : v # w => worker'[v] = worker[v]
      BY <1>a, <3>1
    <3>4. Task("backup") = {}
      BY <1>a, <2>6 DEF ResticExclusion, BackupInOnePlace, Task
    <3>5. Task("backup")' = {} /\ Task("repository")' = {w}
      BY <2>3, <3>2, <3>3, <3>4 DEF Task
    <3>6. BackupInOnePlace'
      BY <2>2, <2>4, <2>6, <3>5 DEF ResticExclusion, BackupInOnePlace
    <3>7. OperationInOnePlace'
      BY <2>1, <2>2, <2>3, <2>4, <2>6, <3>5 DEF ResticExclusion, OperationInOnePlace
    <3> QED
      BY <2>1, <3>2, <3>3, <3>6, <3>7, ZenonT(30) DEF ResticExclusion
  <2> QED
    BY <1>15, <2>5, <2>6, ZenonT(30) DEF ReceiveRepositoryOperationRequested, Finishing, LoopIdle
<1>16. CASE ReceiveRepositoryOperationFinished
  <2>1. /\ up /\ up' /\ ipc' = ipc /\ loop.pc = "idle"
        /\ queue # <<>> /\ Head(queue).type = "RepositoryOperationFinished" /\ queue' = Tail(queue)
    BY <1>16 DEF ReceiveRepositoryOperationFinished, Receive
  <2>2. \A t : /\ Holds(queue', t) => Holds(queue, t)
               /\ Once(queue, t) => Once(queue', t)
    BY <1>a, <2>1, HoldsTail
  <2>3. /\ Holds(queue, "RepositoryOperationFinished")
        /\ ~Holds(queue', "RepositoryOperationRequested")
        /\ ~Holds(queue', "RepositoryOperationFinished")
        /\ Task("repository") = {} /\ OperationRunning
    BY <1>a, <2>1, <2>2, HoldsTail DEF ResticExclusion, OperationInOnePlace
  <2>4. OperationRunning' /\ UNCHANGED <<active_backup, worker>>
        /\ loop'.pc = "finishRepository"
    BY <1>16, <2>3
       DEF ReceiveRepositoryOperationFinished, OperationRunning, Finishing, LoopIdle
  <2> QED
    BY <1>a, <2>1, <2>2, <2>3, <2>4
       DEF ResticExclusion, BackupInOnePlace, OperationInOnePlace, Task
<1>17. CASE FinishRepositoryOperation
  <2>1. up /\ up' /\ loop'.pc \in {"idle", "wake"} /\ UNCHANGED <<queue, worker, active_backup, ipc>>
    BY <1>17 DEF FinishRepositoryOperation, LoopIdle
  <2>2. /\ Task("repository") = {}
        /\ ~Holds(queue, "RepositoryOperationRequested")
        /\ ~Holds(queue, "RepositoryOperationFinished")
        /\ OperationRunning
    BY <1>17 DEF FinishRepositoryOperation, ResticExclusion, OperationInOnePlace
  <2> QED
    BY <1>a, <2>1, <2>2 DEF ResticExclusion, BackupInOnePlace, OperationInOnePlace, Task
<1>18. CASE ReceiveUpdateInstallRequested
  <2>1. /\ up /\ up' /\ ipc' = ipc /\ loop.pc = "idle"
        /\ queue # <<>> /\ Head(queue).type = "UpdateInstallRequested" /\ queue' = Tail(queue)
    BY <1>18 DEF ReceiveUpdateInstallRequested, Receive
  <2>2. \A t : /\ Holds(queue', t) => Holds(queue, t)
               /\ Once(queue, t) => Once(queue', t)
    BY <1>a, <2>1, HoldsTail
  <2>3. OperationRunning' = OperationRunning /\ UNCHANGED <<loop, active_backup>>
    BY <1>18, <1>a, StatusKept DEF ReceiveUpdateInstallRequested, OperationRunning
  <2>4. \A w \in Workers : \/ worker'[w] = worker[w]
                           \/ /\ worker'[w] = Spawned("update", "none", "installing")
                              /\ Free(w)
    BY <1>18, <1>a DEF ReceiveUpdateInstallRequested
  <2>5. \A w \in Workers :
           /\ worker'[w].task # worker[w].task => worker'[w].task = "update"
           /\ worker'[w].pc # worker[w].pc =>
                worker'[w].pc = "installing" /\ worker'[w].task = "update"
           /\ worker'[w].task = "update" => worker[w].task \in {"update", "none"}
    BY <2>4, ZenonT(30) DEF Spawned, NoTask, Free
  <2> QED
    BY <1>a, <2>1, <2>2, <2>3, <2>4, <2>5
       DEF Spawned, NoTask, Free, ResticExclusion, BackupInOnePlace,
           OperationInOnePlace, Task
<1>19. CASE ReceiveUpdateInstallFinished
  <2>1. /\ up /\ up' /\ ipc' = ipc /\ loop.pc = "idle"
        /\ queue # <<>> /\ Head(queue).type = "UpdateInstallFinished" /\ queue' = Tail(queue)
    BY <1>19 DEF ReceiveUpdateInstallFinished, Receive
  <2>2. \A t : /\ Holds(queue', t) => Holds(queue, t)
               /\ Once(queue, t) => Once(queue', t)
    BY <1>a, <2>1, HoldsTail
  <2>3. /\ OperationRunning' = OperationRunning
        /\ UNCHANGED <<worker, active_backup>>
        /\ loop'.pc = "wake"
    BY <1>19, <1>a, StatusKept
       DEF ReceiveUpdateInstallFinished, OperationRunning, LoopIdle
  <2> QED
    BY <1>a, <2>1, <2>2, <2>3
       DEF ResticExclusion, BackupInOnePlace, OperationInOnePlace, Task
<1>20. CASE DiscardWhileDraining
  <2>1. /\ up /\ up' /\ ipc' = ipc
        /\ queue # <<>> /\ queue' = Tail(queue)
        /\ UNCHANGED <<runtime, worker, loop, active_backup>>
    BY <1>20 DEF DiscardWhileDraining, Receive
  <2>2. \A t : /\ Holds(queue', t) => Holds(queue, t)
               /\ Once(queue, t) => Once(queue', t)
    BY <1>a, <2>1, HoldsTail
  <2> QED
    BY <1>a, <2>1, <2>2, ZenonT(30)
       DEF OperationRunning, ResticExclusion, BackupInOnePlace, OperationInOnePlace,
           Task
<1>21. CASE \E w \in Workers : WorkerStep(w)
  <2>a. PICK w \in Workers : WorkerStep(w)
    BY <1>21
  <2>b. \A e \in RuntimeEvents : Report(w, e) =>
           /\ \A t : /\ Holds(queue', t) <=> Holds(queue, t) \/ e.type = t
                     /\ Once(queue, t) /\ ~Holds(queue, t) => Once(queue', t)
                     /\ Once(queue, t) /\ e.type # t => Once(queue', t)
           /\ worker'[w].task = "none" /\ worker'[w].pc = "none"
           /\ \A v \in Workers : v # w => worker'[v] = worker[v]
    BY <1>a, HoldsAppend DEF Report, NoTask
  <2>c. \A result \in Results :
           /\ Event("BackupFinished", "none", result) \in RuntimeEvents
           /\ Event("UpdateInstallFinished", "none", result) \in RuntimeEvents
           /\ Event("RepositoryOperationFinished", worker[w].kind, result) \in RuntimeEvents
    BY <1>a, EventType, ZenonT(30) DEF EventTypes, MaybeKind, WorkerStates
  <2>1. CASE WorkerReadsConfig(w) \/ RetentionEnds(w)
    <3>a. \A v \in Workers : v # w => worker'[v] = worker[v]
      BY <1>a, <2>1 DEF WorkerReadsConfig, RetentionEnds
    <3>b. \/ worker'[w] = [worker[w] EXCEPT !.pc = "restic", !.repository = Identity(config)]
          \/ /\ worker'[w] = [worker[w] EXCEPT !.pc = "saving",
                                             !.snapshot = runtime.service_state]
             /\ worker[w].pc = "retention"
      BY <1>a, <2>1 DEF WorkerReadsConfig, RetentionEnds
    <3>c. worker[w] \in WorkerStates
      BY <1>a
    <3>1. /\ \A v \in Workers : worker'[v].task = worker[v].task
          /\ \A v \in Workers : v # w => worker'[v] = worker[v]
          /\ worker'[w].pc \in {"restic", "saving"}
          /\ worker'[w].pc = "saving" => worker[w].pc = "retention"
      <4>1. CASE worker'[w] = [worker[w] EXCEPT !.pc = "restic", !.repository = Identity(config)]
        <5>1. worker'[w].task = worker[w].task /\ worker'[w].pc = "restic"
          BY <3>c, <4>1 DEF WorkerStates
        <5> QED
          BY <3>a, <5>1
      <4>2. CASE /\ worker'[w] = [worker[w] EXCEPT !.pc = "saving",
                                                 !.snapshot = runtime.service_state]
                 /\ worker[w].pc = "retention"
        <5>1. worker'[w].task = worker[w].task /\ worker'[w].pc = "saving"
          BY <3>c, <4>2 DEF WorkerStates
        <5> QED
          BY <3>a, <4>2, <5>1, ZenonT(30)
      <4> QED
        BY <3>b, <4>1, <4>2
    <3>2. UNCHANGED <<up, runtime, queue, active_backup, loop, ipc>>
      BY <2>1 DEF WorkerReadsConfig, RetentionEnds
    <3>3. Task("backup")' = Task("backup") /\ Task("repository")' = Task("repository")
      BY <3>1 DEF Task
    <3>4. BackupInOnePlace'
      BY <3>2, <3>3 DEF ResticExclusion, BackupInOnePlace
    <3>5. OperationInOnePlace'
      BY <3>2, <3>3 DEF OperationRunning, ResticExclusion, OperationInOnePlace
    <3>6. /\ worker'[w].pc = "saving" => worker[w].task = "backup"
          /\ Task("none")' = Task("none")
      BY <3>1 DEF ResticExclusion, Task
    <3> QED
      BY <3>1, <3>2, <3>4, <3>5, <3>6 DEF ResticExclusion
  <2>2. CASE /\ worker[w].task = "backup"
             /\ runtime' = [runtime EXCEPT !.state = "Running"]
             /\ worker' = [worker EXCEPT ![w] = [@ EXCEPT !.pc = "retention"]]
             /\ UNCHANGED <<up, queue, active_backup, loop, ipc>>
    <3>1. /\ \A v \in Workers : worker'[v].task = worker[v].task
          /\ \A v \in Workers : v # w => worker'[v] = worker[v]
          /\ worker'[w].pc = "retention"
          /\ runtime'.repository_operation = runtime.repository_operation
      <4>1. worker'[w] = [worker[w] EXCEPT !.pc = "retention"] /\ worker[w] \in WorkerStates
        BY <1>a, <2>2
      <4>2. \A v \in Workers : v # w => worker'[v] = worker[v]
        BY <1>a, <2>2
      <4>3. runtime'.repository_operation = runtime.repository_operation
        BY <1>a, <2>2 DEF RuntimeStates
      <4> QED
        BY <4>1, <4>2, <4>3 DEF WorkerStates
    <3>2. Task("backup")' = Task("backup") /\ Task("repository")' = Task("repository")
      BY <3>1 DEF Task
    <3>3. BackupInOnePlace'
      BY <2>2, <3>2 DEF ResticExclusion, BackupInOnePlace
    <3>4. OperationInOnePlace'
      BY <2>2, <3>1, <3>2 DEF OperationRunning, ResticExclusion, OperationInOnePlace
    <3> QED
      BY <2>2, <3>1, <3>3, <3>4 DEF ResticExclusion, Task
  <2>3. CASE /\ worker[w].task = "backup"
             /\ \E result \in Results : Report(w, Event("BackupFinished", "none", result))
             /\ UNCHANGED <<up, runtime, active_backup, loop, ipc>>
    <3>1. PICK result \in Results : Report(w, Event("BackupFinished", "none", result))
      BY <2>3
    <3>2. /\ up /\ active_backup = w /\ loop.pc # "saveState"
          /\ ~Holds(queue, "BackupFinished") /\ \A v \in Workers \ {w} : worker[v].task # "backup"
      BY <2>3, ZenonT(30) DEF ResticExclusion, BackupInOnePlace, OperationInOnePlace, Task
    <3>3. /\ \A t : Holds(queue', t) <=> Holds(queue, t) \/ "BackupFinished" = t
          /\ Once(queue', "BackupFinished")
          /\ \A t : t # "BackupFinished" /\ Once(queue, t) => Once(queue', t)
          /\ worker'[w].task = "none" /\ worker'[w].pc = "none"
          /\ \A v \in Workers : v # w => worker'[v] = worker[v]
      BY <2>b, <2>c, <3>1, <3>2, ZenonT(30) DEF Event, ResticExclusion, BackupInOnePlace
    <3>4. Task("backup")' = {} /\ Task("repository")' = Task("repository")
      BY <2>3, <3>2, <3>3, ZenonT(30) DEF Task
    <3>5. BackupInOnePlace'
      BY <1>a, <2>3, <3>2, <3>3, <3>4, ZenonT(30) DEF ResticExclusion, BackupInOnePlace
    <3>6. OperationInOnePlace'
      BY <2>3, <3>3, <3>4, ZenonT(30) DEF OperationRunning, ResticExclusion, OperationInOnePlace
    <3> QED
      BY <2>3, <3>2, <3>3, <3>5, <3>6, ZenonT(30) DEF ResticExclusion
  <2>4. CASE /\ worker[w].task = "repository"
             /\ \E result \in Results :
                  Report(w, Event("RepositoryOperationFinished", worker[w].kind, result))
             /\ UNCHANGED <<up, runtime, active_backup, loop, ipc>>
    <3>1. PICK result \in Results :
             Report(w, Event("RepositoryOperationFinished", worker[w].kind, result))
      BY <2>4
    <3>2. /\ up /\ OperationRunning /\ loop.pc # "finishRepository"
          /\ ~Holds(queue, "RepositoryOperationRequested")
          /\ ~Holds(queue, "RepositoryOperationFinished")
          /\ \A v \in Workers \ {w} : worker[v].task # "repository"
      BY <2>4, ZenonT(30) DEF ResticExclusion, BackupInOnePlace, OperationInOnePlace, Task
    <3>3. /\ \A t : Holds(queue', t) <=> Holds(queue, t) \/ "RepositoryOperationFinished" = t
          /\ Once(queue', "RepositoryOperationFinished")
          /\ \A t : t # "RepositoryOperationFinished" /\ Once(queue, t) => Once(queue', t)
          /\ worker'[w].task = "none" /\ worker'[w].pc = "none"
          /\ \A v \in Workers : v # w => worker'[v] = worker[v]
      BY <2>b, <2>c, <3>1, <3>2, ZenonT(30) DEF Event, ResticExclusion, OperationInOnePlace
    <3>4. Task("repository")' = {} /\ Task("backup")' = Task("backup")
      BY <2>4, <3>2, <3>3, ZenonT(30) DEF Task
    <3>5. BackupInOnePlace'
      BY <2>4, <3>3, <3>4, ZenonT(30) DEF ResticExclusion, BackupInOnePlace
    <3>6. OperationInOnePlace'
      BY <2>4, <3>2, <3>3, <3>4, ZenonT(30) DEF OperationRunning, ResticExclusion, OperationInOnePlace
    <3> QED
      BY <2>4, <3>2, <3>3, <3>5, <3>6, ZenonT(30) DEF ResticExclusion
  <2>5. CASE UpdateInstallEnds(w)
    <3>1. PICK result \in Results : Report(w, Event("UpdateInstallFinished", "none", result))
      BY <2>5 DEF UpdateInstallEnds, Results
    <3>2. worker[w].task = "update" /\ up /\ UNCHANGED <<up, runtime, active_backup, loop, ipc>>
      BY <2>5 DEF UpdateInstallEnds, ResticExclusion, Task
    <3>3. /\ \A t : Holds(queue', t) <=> Holds(queue, t) \/ "UpdateInstallFinished" = t
          /\ \A t : t # "UpdateInstallFinished" /\ Once(queue, t) => Once(queue', t)
          /\ worker'[w].task = "none" /\ worker'[w].pc = "none"
          /\ \A v \in Workers : v # w => worker'[v] = worker[v]
      BY <2>b, <2>c, <3>1, ZenonT(30) DEF Event
    <3>4. Task("repository")' = Task("repository") /\ Task("backup")' = Task("backup")
      BY <3>2, <3>3 DEF Task
    <3>5. BackupInOnePlace'
      BY <3>2, <3>3, <3>4 DEF ResticExclusion, BackupInOnePlace
    <3>6. OperationInOnePlace'
      BY <3>2, <3>3, <3>4 DEF OperationRunning, ResticExclusion, OperationInOnePlace
    <3> QED
      BY <3>2, <3>3, <3>5, <3>6, ZenonT(30) DEF ResticExclusion
  <2>6. ASSUME BackupEnds(w) PROVE ResticExclusion'
    <3>1. {"ok", "failed"} \subseteq Results
      BY DEF Results
    <3>2. worker[w].task = "backup" /\ UNCHANGED <<up, active_backup, loop, ipc>>
      BY <2>6 DEF BackupEnds
    <3>3. \/ \E result \in {"ok", "failed"} :
               Report(w, Event("BackupFinished", "none", result)) /\ UNCHANGED runtime
          \/ /\ runtime' = [runtime EXCEPT !.state = "Running"]
             /\ worker' = [worker EXCEPT ![w] = [@ EXCEPT !.pc = "retention"]]
             /\ UNCHANGED queue
      BY <2>6 DEF BackupEnds
    <3> QED
      BY <2>2, <2>3, <3>1, <3>2, <3>3
  <2>7. ASSUME SaveRetentionState(w) PROVE ResticExclusion'
    BY <2>3, <2>7, ZenonT(30) DEF SaveRetentionState, Results, ResticExclusion
  <2>8. ASSUME RepositoryOperationEnds(w) PROVE ResticExclusion'
    BY <2>4, <2>8 DEF RepositoryOperationEnds, Results
  <2> QED
    BY <2>a, <2>1, <2>5, <2>6, <2>7, <2>8 DEF WorkerStep
<1>22. CASE RunNowChecksConfigured
  BY <1>22, <1>a, ExclusionFrame
     DEF RunNowChecksConfigured, Accepts, At, Continue, Reply, IpcIdle, RestUnchanged,
         OperationRunning, RuntimeStates
<1>23. CASE CancelChecksRunning
  BY <1>23, <1>a, ExclusionFrame
     DEF CancelChecksRunning, Accepts, At, Continue, Reply, IpcIdle, RestUnchanged,
         OperationRunning, RuntimeStates
<1>24. CASE DeferChecksConfigured
  BY <1>24, <1>a, ExclusionFrame
     DEF DeferChecksConfigured, Accepts, At, Continue, Reply, IpcIdle, RestUnchanged,
         OperationRunning, RuntimeStates
<1>25. CASE RepositoryOperationReadsConfig
  BY <1>25, <1>a, ExclusionFrame
     DEF RepositoryOperationReadsConfig, Accepts, At, Continue, Reply, IpcIdle,
         RestUnchanged, OperationRunning, RuntimeStates
<1>26. CASE PrepareForUpdate
  BY <1>26, <1>a, ExclusionFrame
     DEF PrepareForUpdate, HoldForUpdate, Accepts, At, Continue, Reply, IpcIdle,
         RestUnchanged, OperationRunning, RuntimeStates
<1>27. CASE BeginUpdateInstall
  <2>e. Event("UpdateInstallRequested", "none", "none") \in RuntimeEvents
    BY <1>27, <1>a, EventType
       DEF EventTypes, MaybeKind, Results, TypeOK, BeginUpdateInstall, At
  <2>q. queue' = Append(queue, Event("UpdateInstallRequested", "none", "none"))
    BY <1>27 DEF BeginUpdateInstall
  <2>h. /\ \A t : Holds(queue', t) <=> Holds(queue, t) \/ "UpdateInstallRequested" = t
        /\ \A t : t # "UpdateInstallRequested" /\ Once(queue, t) => Once(queue', t)
    BY <1>a, <2>e, <2>q, HoldsAppend DEF Event
  <2> QED
    BY <1>27, <1>a, <2>h
       DEF BeginUpdateInstall, HoldForUpdate, Accepts, At, Continue, Reply, IpcIdle,
           RestUnchanged, OperationRunning, RuntimeStates, ResticExclusion,
           BackupInOnePlace, OperationInOnePlace, Task
<1>28. CASE UpdateSchedule
  BY <1>28, <1>a, ExclusionFrame, StatusKept
     DEF UpdateSchedule, Accepts, At, Continue, Reply, IpcIdle, RestUnchanged,
         OperationRunning, RuntimeStates
<1>29. CASE UpdateBackupSources
  BY <1>29, <1>a, ExclusionFrame, StatusKept
     DEF UpdateBackupSources, Accepts, At, Continue, Reply, IpcIdle, RestUnchanged,
         OperationRunning, RuntimeStates
<1>30. CASE UpdateRepository
  <2>1. ~OperationRunning
    BY <1>30 DEF UpdateRepository, MayChangeConfiguration
  <2>2. ~OperationRunning'
    <3>1. ASSUME NEW url, NEW secrets, Reconnect(url, secrets) PROVE ~OperationRunning'
      BY <2>1, <3>1, RevalidatedStatus DEF Reconnect, OperationRunning
    <3>2. ASSUME runtime' = ApplyConfigurationStatus(runtime, config) PROVE ~OperationRunning'
      BY <1>a, <2>1, <3>2, StatusKept, ZenonT(30) DEF OperationRunning
    <3> QED
      BY <1>30, <3>1, <3>2 DEF UpdateRepository
  <2> QED
    BY <1>30, <2>1, <2>2, ExclusionFrame DEF UpdateRepository, Accepts, RestUnchanged
<1>31. CASE EnrollBegins
  BY <1>31, <1>a, ExclusionFrame
     DEF EnrollBegins, NothingActive, Accepts, At, Continue, Reply, IpcIdle,
         RestUnchanged, OperationRunning, RuntimeStates
<1>32. CASE UnenrollChecks
  BY <1>32, <1>a, ExclusionFrame
     DEF UnenrollChecks, Accepts, At, Continue, Reply, IpcIdle, RestUnchanged,
         OperationRunning, RuntimeStates
<1>33. CASE RunNowChecksRepository
  BY <1>33, <1>a, ExclusionFrame
     DEF RunNowChecksRepository, Accepts, At, Continue, Reply, IpcIdle, RestUnchanged,
         OperationRunning, RuntimeStates
<1>34. CASE RunBackupNow
  BY <1>34, <1>a, ExclusionFrame
     DEF RunBackupNow, Accepts, At, Continue, Reply, IpcIdle, RestUnchanged,
         OperationRunning, RuntimeStates
<1>35. CASE CancelBackup
  <2>e. Event("Cancel", "none", "none") \in RuntimeEvents
    BY <1>35, <1>a, EventType DEF EventTypes, MaybeKind, Results, TypeOK, CancelBackup, At
  <2>q. queue' = Append(queue, Event("Cancel", "none", "none"))
    BY <1>35 DEF CancelBackup
  <2>h. /\ \A t : Holds(queue', t) <=> Holds(queue, t) \/ "Cancel" = t
        /\ \A t : t # "Cancel" /\ Once(queue, t) => Once(queue', t)
    BY <1>a, <2>e, <2>q, HoldsAppend DEF Event
  <2>1. /\ up /\ up' /\ UNCHANGED <<active_backup, loop, worker>> /\ ipc'.pc = "idle"
        /\ OperationRunning' <=> OperationRunning
    BY <1>35 DEF CancelBackup, At, Reply, IpcIdle, RestUnchanged, OperationRunning
  <2> QED
    BY <2>h, <2>1, ChannelFrame
<1>36. CASE DeferBackup
  BY <1>36, <1>a, ExclusionFrame
     DEF DeferBackup, Accepts, At, Continue, Reply, IpcIdle, RestUnchanged,
         OperationRunning, RuntimeStates
<1>37. CASE SaveEnrollment
  BY <1>37, <1>a, ExclusionFrame
     DEF SaveEnrollment, Accepts, At, Continue, Reply, IpcIdle, RestUnchanged,
         OperationRunning, RuntimeStates
<1>38. CASE CommitEnrollment
  <2>1. ~OperationRunning
    BY <1>38 DEF CommitEnrollment, At, ResticExclusion, OperationInOnePlace
  <2>2. ~OperationRunning'
    BY <1>38, <2>1, ActivatedStatus DEF CommitEnrollment
  <2> QED
    BY <1>38, <2>1, <2>2, ExclusionFrame DEF CommitEnrollment, At, Continue, RestUnchanged
<1>39. CASE ApplyManagedPolicy
  <2>1. ~OperationRunning
    BY <1>39 DEF ApplyManagedPolicy, MayChangeConfiguration
  <2>2. ~OperationRunning'
    BY <1>39, <2>1, ActivatedStatus DEF ApplyManagedPolicy
  <2> QED
    BY <1>39, <2>1, <2>2, ExclusionFrame DEF ApplyManagedPolicy, RestUnchanged
<1>40. CASE BeginRepositoryOperation
  <2>1. CASE UNCHANGED <<runtime, queue>>
    BY <1>40, <2>1, ExclusionFrame
       DEF BeginRepositoryOperation, At, Reply, IpcIdle, RestUnchanged, OperationRunning
  <2>2. CASE /\ ~OperationRunning
             /\ runtime' = OperationBegun(Settled("Failed"))
             /\ UNCHANGED queue
    <3>1. ~OperationRunning'
      BY <1>a, <2>2 DEF OperationBegun, OperationRunning, RuntimeStates, Settled
    <3> QED
      BY <1>40, <2>2, <3>1, ExclusionFrame
         DEF BeginRepositoryOperation, At, Reply, IpcIdle, RestUnchanged
  <2>3. CASE /\ ~OperationRunning
             /\ runtime' = OperationBegun(Running(ipc.kind))
             /\ queue' = Append(queue, Event("RepositoryOperationRequested", ipc.kind, "none"))
    <3>1. OperationRunning'
      BY <1>a, <2>3 DEF OperationBegun, OperationRunning, RuntimeStates, Running
    <3>2. Event("RepositoryOperationRequested", ipc.kind, "none") \in RuntimeEvents
      BY <1>40, EventType
         DEF EventTypes, MaybeKind, Results, TypeOK, BeginRepositoryOperation, At
    <3>3. /\ \A t : Holds(queue', t) <=> Holds(queue, t) \/ "RepositoryOperationRequested" = t
          /\ \A t : t # "RepositoryOperationRequested" /\ Once(queue, t) => Once(queue', t)
          /\ Once(queue, "RepositoryOperationRequested")
             /\ ~Holds(queue, "RepositoryOperationRequested")
               => Once(queue', "RepositoryOperationRequested")
      BY <1>a, <2>3, <3>2, HoldsAppend DEF Event
    <3>4. up /\ up' /\ ipc'.pc = "idle" /\ UNCHANGED <<worker, active_backup, loop>>
      BY <1>40 DEF BeginRepositoryOperation, At, Reply, IpcIdle, RestUnchanged
    <3> QED
      BY <1>a, <2>3, <3>1, <3>3, <3>4, ZenonT(30)
         DEF ResticExclusion, BackupInOnePlace, OperationInOnePlace, Task
  <2> QED
    BY <1>40, <2>1, <2>2, <2>3 DEF BeginRepositoryOperation
<1>41. CASE EnrollEnds
  BY <1>41, <1>a, ExclusionFrame
     DEF EnrollEnds, Accepts, At, Continue, Reply, IpcIdle, RestUnchanged,
         OperationRunning, RuntimeStates
<1>42. CASE UnenrollWrites
  BY <1>42, <1>a, ExclusionFrame
     DEF UnenrollWrites, Accepts, At, Continue, Reply, IpcIdle, RestUnchanged,
         OperationRunning, RuntimeStates
<1>43. CASE UnenrollApplies
  BY <1>43, <1>a, ExclusionFrame, StatusKept
     DEF UnenrollApplies, Accepts, At, Continue, Reply, IpcIdle, RestUnchanged,
         OperationRunning, RuntimeStates
<1>44. CASE UNCHANGED vars
  BY <1>44, ExclusionFrame DEF vars, OperationRunning
<1> QED
  BY <1>1, <1>2, <1>3, <1>4, <1>5, <1>6, <1>7, <1>8, <1>9, <1>10, <1>11, <1>12,
     <1>13, <1>14, <1>15, <1>16, <1>17, <1>18, <1>19, <1>20, <1>21, <1>22, <1>23,
     <1>24, <1>25, <1>26, <1>27, <1>28, <1>29, <1>30, <1>31, <1>32, <1>33, <1>34,
     <1>35, <1>36, <1>37, <1>38, <1>39, <1>40, <1>41, <1>42, <1>43, <1>44
     DEF Next, EventLoopStep, ReceiveEvent, ContinueEvent, AcceptRequest, ContinueRequest

(* The invariant that keeps restic exclusive: a backup and a repository    *)
(* operation are each in one place, and neither exists beside the other.   *)
THEOREM ExclusionCorrect == Spec => []ResticExclusion
BY TypeCorrect, ExclusionInit, ExclusionStep, PTL DEF Spec

(* Only one worker thread runs restic, for any number of worker threads,   *)
(* any requests, and any crashes and restarts.                             *)
THEOREM OneResticCorrect == Spec => []OneResticAtATime
<1>1. ResticExclusion => OneResticAtATime
  BY DEF ResticExclusion, BackupInOnePlace, OperationInOnePlace, Task, OneResticAtATime,
     IsRestic
<1> QED
  BY <1>1, ExclusionCorrect, PTL
=============================================================================
