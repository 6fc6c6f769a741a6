-------------------------- MODULE RuntimeRequests ---------------------------
(***************************************************************************)
(* The requests of the IPC thread, which serves one request at a time, and *)
(* the policy application of the management worker.                        *)
(*                                                                         *)
(* A request that is rejected changes nothing and is left out.  Callers    *)
(* are elevated administrators where the code asks for one.  A handler is  *)
(* one step unless it gives up the state mutex, or reads the configuration *)
(* before it takes the mutex without holding configuration_mutation.  The  *)
(* automatic_install setting, which picks prepare_for_update or            *)
(* begin_update_install, may change whenever either is accepted, so both   *)
(* are offered.  update_retention changes nothing that is modelled.        *)
(***************************************************************************)
EXTENDS RuntimeState

Accepts(request) ==
    /\ up /\ ipc.pc = "idle"
    /\ request \in Requests

At(pc) == up /\ ipc.pc = pc

(* The handler goes on to its next step, or has answered.                  *)
Continue(pc) == ipc' = [IpcIdle EXCEPT !.pc = pc]
Reply == ipc' = IpcIdle

RestUnchanged == UNCHANGED <<up, loopVars, worker, probed>>

-----------------------------------------------------------------------------
(* Backups                                                                 *)

(* RunBackupNow looks at the configuration, at the repository operation    *)
(* and at the rest of the state under three separate locks.                *)
RunNowChecksConfigured ==
    /\ Accepts("RunBackupNow")
    /\ IsConfigured(config)
    /\ Continue("runNowConfigured")
    /\ UNCHANGED <<runtime, configVars, saved_state, queue>> /\ RestUnchanged

RunNowChecksRepository ==
    /\ At("runNowConfigured")
    /\ IF AllowsBackup(runtime.repository_operation) THEN Continue("runNowReady") ELSE Reply
    /\ UNCHANGED <<runtime, configVars, saved_state, queue>> /\ RestUnchanged

RunBackupNow ==
    /\ At("runNowReady")
    /\ runtime' = [runtime EXCEPT !.manual_requested = @ \/ (~IsRunning /\ ~UpdatePending)]
    /\ Reply
    /\ UNCHANGED <<configVars, saved_state, queue>> /\ RestUnchanged

(* CancelBackup lets go of the mutex before it sends.                      *)
CancelChecksRunning ==
    /\ Accepts("CancelBackup")
    /\ IsRunning
    /\ Cardinality({i \in 1..Len(queue) : queue[i].type = "Cancel"}) < MaxCancels
    /\ Continue("cancel")
    /\ UNCHANGED <<runtime, configVars, saved_state, queue>> /\ RestUnchanged

CancelBackup ==
    /\ At("cancel")
    /\ queue' = Append(queue, Event("Cancel", "none", "none"))
    /\ Reply
    /\ UNCHANGED <<runtime, configVars, saved_state>> /\ RestUnchanged

DeferChecksConfigured ==
    /\ Accepts("DeferBackup")
    /\ IsConfigured(config)
    /\ Continue("defer")
    /\ UNCHANGED <<runtime, configVars, saved_state, queue>> /\ RestUnchanged

DeferBackup ==
    /\ At("defer")
    /\ runtime' = [runtime EXCEPT !.manual_requested =
                     @ /\ (~AllowsBackup(runtime.repository_operation) \/ IsRunning)]
    /\ Reply
    /\ UNCHANGED <<configVars, saved_state, queue>> /\ RestUnchanged

-----------------------------------------------------------------------------
(* Repository operations and updates                                       *)

RepositoryOperationReadsConfig ==
    /\ Accepts("RepositoryOperation")
    /\ config.url # Absent
    /\ config.secrets # NoSecrets
    /\ \E kind \in OperationKinds :
         ipc' = [IpcIdle EXCEPT !.pc = "repositoryOperation", !.config = config, !.kind = kind]
    /\ UNCHANGED <<runtime, configVars, saved_state, queue>> /\ RestUnchanged

OperationBegun(operation) ==
    [runtime EXCEPT
       !.repository_operation = operation,
       !.state = IF IsConfigured(ipc.config) THEN "WaitingValidation" ELSE @,
       !.service_state = ValidationRequired]

(* The requirement to validate is saved under the mutex; the save may fail.*)
BeginRepositoryOperation ==
    /\ At("repositoryOperation")
    /\ IF UpdatePending \/ IsRunning \/ OperationRunning
       THEN UNCHANGED <<runtime, saved_state, queue>>
       ELSE \/ /\ runtime' = OperationBegun(Running(ipc.kind))
               /\ saved_state' = ValidationRequired
               /\ queue' = Append(queue, Event("RepositoryOperationRequested", ipc.kind, "none"))
            \/ /\ runtime' = OperationBegun(Settled("Failed"))
               /\ UNCHANGED <<saved_state, queue>>
    /\ Reply
    /\ UNCHANGED configVars /\ RestUnchanged

(* Mutant: an update does not wait for a repository operation.             *)
NoBackupActive ==
    /\ ~IsRunning
    /\ ~runtime.management_operation_active
    /\ ~UpdatePending

NothingActive ==
    /\ ~IsRunning
    /\ ~OperationRunning
    /\ ~runtime.management_operation_active
    /\ ~UpdatePending

HoldForUpdate(install) ==
    /\ NothingActive
    /\ runtime' = [runtime EXCEPT
                     !.update_hold_previous = IF @ = "none" THEN runtime.state ELSE @,
                     !.update_install_active = install,
                     !.update_hold_until = "held",
                     !.manual_requested = FALSE,
                     !.state = "WaitingUpdate"]

PrepareForUpdate ==
    /\ Accepts("PrepareForUpdate")
    /\ HoldForUpdate(FALSE)
    /\ UNCHANGED <<configVars, saved_state, queue, ipc>> /\ RestUnchanged

BeginUpdateInstall ==
    /\ Accepts("InstallUpdate")
    /\ HoldForUpdate(TRUE)
    /\ queue' = Append(queue, Event("UpdateInstallRequested", "none", "none"))
    /\ UNCHANGED <<configVars, saved_state, ipc>> /\ RestUnchanged

-----------------------------------------------------------------------------
(* Local configuration                                                     *)

(* Mutants: the configuration may change under one or the other.           *)
MayChangeDuringBackup == ~UpdatePending /\ ~OperationRunning
MayChangeDuringOperation == ~UpdatePending /\ ~IsRunning

MayChangeConfiguration == ~UpdatePending /\ ~IsRunning /\ ~OperationRunning

UpdateSchedule ==
    /\ Accepts("UpdateSchedule")
    /\ MayChangeConfiguration
    /\ runtime' = ApplyConfigurationStatus(runtime, config)
    /\ UNCHANGED <<configVars, saved_state, queue, ipc>> /\ RestUnchanged

(* Sources may change while a repository operation runs.                   *)
UpdateBackupSources ==
    /\ Accepts("UpdateBackupSources")
    /\ ~UpdatePending /\ ~IsRunning
    /\ ~field_locks.paths
    /\ \E paths \in {"none", "some"} :
         /\ local_config' = [local_config EXCEPT !.paths = paths]
         /\ config' = [config EXCEPT !.paths = paths]
    /\ saved_config' = local_config'
    /\ runtime' = ApplyConfigurationStatus(runtime, config')
    /\ UNCHANGED <<field_locks, saved_state, queue, ipc>> /\ RestUnchanged

(* Mutant: a changed connection counts as validated.                       *)
ReconnectUnvalidated(url, secrets) ==
    /\ local_config' = [local_config EXCEPT !.url = url.local, !.secrets = secrets]
    /\ saved_config' = local_config'
    /\ config' = [config EXCEPT !.url = url.effective, !.secrets = secrets]
    /\ runtime' = ApplyConfigurationStatus(runtime, config')
    /\ UNCHANGED saved_state

(* update_repository when the connection changes.  The requirement to      *)
(* validate is saved first, and stays when the configuration save fails.   *)
Reconnect(url, secrets) ==
    /\ saved_state' = ValidationRequired
    /\ \/ /\ local_config' = [local_config EXCEPT !.url = url.local, !.secrets = secrets]
          /\ saved_config' = local_config'
          /\ config' = [config EXCEPT !.url = url.effective, !.secrets = secrets]
          /\ runtime' = ApplyConfigurationStatus(
                          [runtime EXCEPT
                             !.repository_operation = Settled("ValidationRequired"),
                             !.service_state = ValidationRequired], config')
       \/ UNCHANGED <<local_config, saved_config, config, runtime>>

UpdateRepository ==
    /\ Accepts("UpdateRepository")
    /\ MayChangeConfiguration
    /\ LET kept == [local |-> local_config.url, effective |-> config.url]
           moved == {[local |-> u, effective |-> u] : u \in MaybeUrl}
       IN \/ \E url \in {kept} \cup (IF field_locks.url THEN {} ELSE moved),
                secrets \in IF local_config.managed THEN {config.secrets} ELSE MaybeSecrets :
               Reconnect(url, secrets)
          \/ /\ runtime' = ApplyConfigurationStatus(runtime, config)
             /\ UNCHANGED <<config, local_config, saved_config, saved_state>>
    /\ UNCHANGED <<field_locks, queue, ipc>> /\ RestUnchanged

-----------------------------------------------------------------------------
(* Managed configuration                                                   *)

(* Mutant: a policy that moves the repository needs no validation.         *)
ActivateUnvalidated(local, p) ==
    /\ config' = Resolve(local, p)
    /\ field_locks' = Locks(p)
    /\ runtime' = ApplyConfigurationStatus(runtime, config')
    /\ UNCHANGED saved_state

(* A policy takes effect; that its requirement to validate could not be    *)
(* saved is ignored.                                                       *)
ActivatePolicy(local, p) ==
    LET next == Resolve(local, p) IN
    /\ config' = next
    /\ field_locks' = Locks(p)
    /\ IF RepositoryRequiresValidation(runtime.service_state, next)
       THEN /\ saved_state' \in {ValidationRequired, saved_state}
            /\ runtime' = ApplyConfigurationStatus(
                            [runtime EXCEPT
                               !.repository_operation = Settled("ValidationRequired"),
                               !.service_state = ValidationRequired], next)
       ELSE /\ runtime' = ApplyConfigurationStatus(runtime, next)
            /\ UNCHANGED saved_state

(* enroll, or enroll_bootstrap at the start, and the call to the server.   *)
EnrollBegins ==
    /\ Accepts("Enroll")
    /\ NothingActive
    /\ runtime' = [runtime EXCEPT !.management_operation_active = TRUE]
    /\ Continue("enroll")
    /\ UNCHANGED <<configVars, saved_state, queue>> /\ RestUnchanged

(* commit_enrollment saves the configuration and then applies it.  The     *)
(* server may send repository secrets.                                     *)
SaveEnrollment ==
    /\ At("enroll")
    /\ \E p \in Policies, secrets \in {local_config.secrets} \cup Secrets :
         /\ saved_config' = [local_config EXCEPT !.secrets = secrets, !.managed = TRUE]
         /\ ipc' = [IpcIdle EXCEPT !.pc = "enrolling", !.policy = p]
    /\ UNCHANGED <<runtime, config, local_config, field_locks, saved_state, queue>>
    /\ RestUnchanged

CommitEnrollment ==
    /\ At("enrolling")
    /\ local_config' = saved_config
    /\ ActivatePolicy(saved_config, ipc.policy)
    /\ Continue("enrolled")
    /\ UNCHANGED <<saved_config, queue>> /\ RestUnchanged

EnrollEnds ==
    /\ At("enroll") \/ At("enrolled")
    /\ runtime' = [runtime EXCEPT !.management_operation_active = FALSE]
    /\ Reply
    /\ UNCHANGED <<configVars, saved_state, queue>> /\ RestUnchanged

(* unenroll checks that nothing is active and gives up the mutex.  It      *)
(* takes it again only to recompute the status.                            *)
UnenrollChecks ==
    /\ Accepts("Unenroll")
    /\ NothingActive
    /\ local_config.managed
    /\ Continue("unenroll")
    /\ UNCHANGED <<runtime, configVars, saved_state, queue>> /\ RestUnchanged

UnenrollWrites ==
    /\ At("unenroll")
    /\ \/ /\ local_config' = [local_config EXCEPT !.managed = FALSE]
          /\ saved_config' = local_config'
          /\ config' = Resolve(local_config', NoPolicy)
          /\ field_locks' = Locks(NoPolicy)
          /\ Continue("unenrolled")
       \/ Reply /\ UNCHANGED configVars
    /\ UNCHANGED <<runtime, saved_state, queue>> /\ RestUnchanged

UnenrollApplies ==
    /\ At("unenrolled")
    /\ runtime' = ApplyConfigurationStatus(runtime, config)
    /\ Reply
    /\ UNCHANGED <<configVars, saved_state, queue>> /\ RestUnchanged

(* The management worker applies a policy it fetched.  The                 *)
(* configuration_mutation lock excludes it from the middle of commit_      *)
(* enrollment and unenroll.                                                *)
ApplyManagedPolicy ==
    /\ up /\ local_config.managed
    /\ ipc.pc \notin {"enrolling", "unenroll", "unenrolled"}
    /\ MayChangeConfiguration
    /\ \E p \in Policies : ActivatePolicy(local_config, p)
    /\ UNCHANGED <<local_config, saved_config, queue, ipc>> /\ RestUnchanged

-----------------------------------------------------------------------------
AcceptRequest ==
    \/ RunNowChecksConfigured \/ CancelChecksRunning \/ DeferChecksConfigured
    \/ RepositoryOperationReadsConfig
    \/ PrepareForUpdate \/ BeginUpdateInstall
    \/ UpdateSchedule \/ UpdateBackupSources \/ UpdateRepository
    \/ EnrollBegins \/ UnenrollChecks

ContinueRequest ==
    \/ RunNowChecksRepository \/ RunBackupNow
    \/ CancelBackup \/ DeferBackup
    \/ BeginRepositoryOperation
    \/ SaveEnrollment \/ CommitEnrollment \/ EnrollEnds
    \/ UnenrollWrites \/ UnenrollApplies

=============================================================================
