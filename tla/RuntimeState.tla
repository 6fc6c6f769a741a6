---------------------------- MODULE RuntimeState ----------------------------
(***************************************************************************)
(* The state that the threads of the resticpal service share, and the      *)
(* operators its handlers are built from.                                  *)
(*                                                                         *)
(* Abstractions.  A repository is the pair that RepositoryIdentity         *)
(* compares: its location (URL and options) and its secret references.     *)
(* Backup source paths are absent, none or some.  Time appears only as the *)
(* expiry of the update hold and in the scheduling decision, which is any  *)
(* outcome that decide allows; Scheduler.tla has the clock.                *)
(***************************************************************************)
EXTENDS Naturals, Sequences, FiniteSets

CONSTANTS
    Urls,           \* repository locations
    Absent,         \* no repository
    Secrets,        \* sets of secret references that hold a password
    NoSecrets,      \* secret references without a password
    Policies,       \* signed policies the management server may publish
    Workers,        \* worker thread identifiers
    NoWorker,
    Requests,       \* the kinds of IPC request that clients issue
    MaxCancels      \* bound: cancel events queued at once

MaybeUrl == Urls \cup {Absent}
MaybeSecrets == Secrets \cup {NoSecrets}
Paths == {"absent", "none", "some"}
Identities == [url : Urls, secrets : MaybeSecrets]
MaybeIdentity == Identities \cup {Absent}
Policy == [url : MaybeUrl, urlLocked : BOOLEAN, paths : Paths, pathsLocked : BOOLEAN]
NoPolicy == [url |-> Absent, urlLocked |-> FALSE, paths |-> "absent", pathsLocked |-> FALSE]

RequestKinds ==
    {"RunBackupNow", "CancelBackup", "DeferBackup", "RepositoryOperation",
     "PrepareForUpdate", "InstallUpdate", "UpdateSchedule",
     "UpdateBackupSources", "UpdateRepository", "Enroll", "Unenroll"}

ASSUME ConstantsAssumption ==
    /\ Absent \notin Urls \cup Identities
    /\ NoSecrets \notin Secrets
    /\ NoWorker \notin Workers
    /\ Policies \subseteq Policy
    /\ Requests \subseteq RequestKinds
    /\ MaxCancels \in Nat

VARIABLES
    up,                             \* the service process is alive
    runtime,                        \* RuntimeState, behind the state mutex
    config,                         \* effective configuration
    local_config,                   \* local configuration
    saved_config,                   \* config.toml
    field_locks,                    \* locked flags of field_resolutions
    saved_state,                    \* the validation part of state.json
    queue,                          \* the channel of RuntimeEvents
    active_backup,                  \* event loop: the worker of the backup
    active_repository_operation,    \* event loop: the worker of the operation
    loop,                           \* where the event loop is, and its locals
    stopping,                       \* the loop drains cancelled operations
    ipc,                            \* where the IPC thread is, and its locals
    worker,                         \* the worker threads
    probed                          \* history: identities restic has accepted

configVars == <<config, local_config, saved_config, field_locks>>
activeVars == <<active_backup, active_repository_operation>>
loopVars == <<loop, stopping, active_backup, active_repository_operation>>
vars == <<up, runtime, configVars, saved_state, queue, loopVars, ipc, worker, probed>>

-----------------------------------------------------------------------------
(* Values                                                                  *)

OperationKinds == {"Validate", "Initialize"}
MaybeKind == OperationKinds \cup {"none"}

(* BackupState.  The phases of a run, the ways it can end and the waits on *)
(* power and network conditions are one value each; Invalid is the failure *)
(* that configuration_error reports.                                       *)
WaitingStates == {"WaitingConditions", "WaitingValidation", "WaitingUpdate"}
BackupStates == {"Unconfigured", "Invalid", "Idle", "Running", "Ended"} \cup WaitingStates

(* RepositoryOperationStatus *)
Running(kind) == [status |-> "Running", kind |-> kind]
Settled(status) == [status |-> status, kind |-> "none"]
OperationStatuses ==
    {Running(k) : k \in OperationKinds} \cup
    {Settled(s) : s \in {"NotRun", "ValidationRequired", "Succeeded", "Failed"}}

(* ServiceStateSnapshot, its validation part                               *)
ServiceStates == [required : BOOLEAN, verified : MaybeIdentity]
NeverValidated == [required |-> FALSE, verified |-> Absent]

RuntimeStates ==
    [state : BackupStates,
     manual_requested : BOOLEAN,
     repository_operation : OperationStatuses,
     service_state : ServiceStates,
     update_hold_until : {"none", "held", "expired"},
     update_hold_previous : BackupStates \cup {"none"},
     update_install_active : BOOLEAN,
     management_operation_active : BOOLEAN]

Configs == [url : MaybeUrl, secrets : MaybeSecrets, paths : Paths]
LocalConfigs == [url : MaybeUrl, secrets : MaybeSecrets, paths : Paths, managed : BOOLEAN]
NoConfig == [url |-> Absent, secrets |-> NoSecrets, paths |-> "none"]
DefaultLocal == [url |-> Absent, secrets |-> NoSecrets, paths |-> "absent", managed |-> FALSE]

(* RuntimeEvent.  Events that only wake the loop are left out: the loop    *)
(* may wake at any time.                                                   *)
EventTypes == {"Stop", "Cancel", "BackupFinished", "RepositoryOperationRequested",
               "RepositoryOperationFinished", "UpdateInstallRequested",
               "UpdateInstallFinished"}
Results == {"none", "ok", "failed", "indeterminate"}
RuntimeEvents == [type : EventTypes, kind : MaybeKind, result : Results]
Event(type, kind, result) == [type |-> type, kind |-> kind, result |-> result]

(* An event of this type waits in the channel.                             *)
Holds(events, type) == \E i \in 1..Len(events) : events[i].type = type

WorkerStates ==
    [task : {"none", "backup", "repository", "update"},
     pc : {"none", "spawned", "restic", "retention", "saving", "installing"},
     kind : MaybeKind, repository : MaybeIdentity, snapshot : ServiceStates,
     cancelled : BOOLEAN]
NoTask == [task |-> "none", pc |-> "none", kind |-> "none", repository |-> Absent,
           snapshot |-> NeverValidated, cancelled |-> FALSE]

LoopStates ==
    [pc : {"idle", "wake", "evaluate", "startFailed", "finishRepository", "saveState"},
     config : Configs, kind : MaybeKind, result : Results, reported : BOOLEAN,
     snapshot : ServiceStates]
LoopIdle == [pc |-> "idle", config |-> NoConfig, kind |-> "none", result |-> "none",
             reported |-> FALSE, snapshot |-> NeverValidated]

IpcStates ==
    [pc : {"idle", "runNowConfigured", "runNowReady", "cancel", "defer",
           "repositoryOperation", "enroll", "enrolling", "enrolled", "unenroll",
           "unenrolled"},
     config : Configs, kind : MaybeKind, policy : Policies \cup {NoPolicy}]
IpcIdle == [pc |-> "idle", config |-> NoConfig, kind |-> "none", policy |-> NoPolicy]

-----------------------------------------------------------------------------
(* Configuration and validation                                            *)

(* A locked managed value, else the local value, else the managed          *)
(* recommendation, else the product default.                               *)
Choose(none, default, local, managed, locked) ==
    IF managed # none /\ locked THEN managed
    ELSE IF local # none THEN local
    ELSE IF managed # none THEN managed
    ELSE default

(* An enrolled policy carries no secret references of its own.             *)
Resolve(local, p) ==
    [url |-> Choose(Absent, Absent, local.url, p.url, p.urlLocked),
     secrets |-> local.secrets,
     paths |-> Choose("absent", "none", local.paths, p.paths, p.pathsLocked)]

Locks(p) == [url |-> p.url # Absent /\ p.urlLocked,
             paths |-> p.paths # "absent" /\ p.pathsLocked]

IsConfigured(c) == c.url # Absent /\ c.paths = "some"

Identity(c) == IF c.url = Absent THEN Absent ELSE [url |-> c.url, secrets |-> c.secrets]

RepositoryRequiresValidation(s, c) ==
    c.url # Absent /\ (s.required \/ s.verified # Identity(c))

ValidationRequired == [required |-> TRUE, verified |-> Absent]

RepositoryVerified(c) == [required |-> FALSE, verified |-> Identity(c)]

(* Mutant: only a required validation blocks.                              *)
AllowsUnlessRequired(operation) == operation # Settled("ValidationRequired")

AllowsBackup(operation) == operation = Settled("Succeeded")

IsRunning == runtime.state = "Running"
OperationRunning == runtime.repository_operation.status = "Running"
UpdatePending == runtime.update_install_active \/ runtime.update_hold_until = "held"

ApplyConfigurationStatus(r, c) ==
    [r EXCEPT
       !.state = IF ~IsConfigured(c) THEN "Unconfigured"
                 ELSE IF ~AllowsBackup(r.repository_operation) THEN "WaitingValidation"
                 ELSE IF @ \in {"Unconfigured", "WaitingValidation"} THEN "Idle" ELSE @,
       !.manual_requested = @ /\ IsConfigured(c)]

-----------------------------------------------------------------------------
(* Start and end of the process                                            *)

(* The runtime that a start builds from a configuration and a saved state. *)
LoadedRuntime(s, c) ==
    LET operation == IF RepositoryRequiresValidation(s, c) THEN "ValidationRequired"
                     ELSE IF s.verified # Absent THEN "Succeeded" ELSE "NotRun"
    IN [state |-> IF ~IsConfigured(c) THEN "Unconfigured"
                  ELSE IF operation = "Succeeded" THEN "Idle" ELSE "WaitingValidation",
        manual_requested |-> FALSE,
        repository_operation |-> Settled(operation),
        service_state |-> s,
        update_hold_until |-> "none",
        update_hold_previous |-> "none",
        update_install_active |-> FALSE,
        management_operation_active |-> FALSE]

(* An unreadable state.json is replaced by a fresh one.                    *)
UnreadableState(c) == IF c.url # Absent THEN ValidationRequired ELSE NeverValidated

(* A fresh installation that has not been started.                         *)
Init ==
    /\ up = FALSE
    /\ runtime = LoadedRuntime(NeverValidated, NoConfig)
    /\ config = NoConfig
    /\ local_config = DefaultLocal
    /\ saved_config = DefaultLocal
    /\ field_locks = Locks(NoPolicy)
    /\ saved_state = NeverValidated
    /\ queue = <<>>
    /\ active_backup = NoWorker
    /\ active_repository_operation = NoWorker
    /\ loop = LoopIdle
    /\ stopping = FALSE
    /\ ipc = IpcIdle
    /\ worker = [w \in Workers |-> NoTask]
    /\ probed = {}

(* load_with_credentials_and_policy, with the policy that is cached or can *)
(* be fetched, if any; or configuration_error.                             *)
Start ==
    /\ ~up
    /\ up' = TRUE
    /\ \/ /\ local_config' = saved_config
          /\ \E p \in {NoPolicy} \cup (IF saved_config.managed THEN Policies ELSE {}) :
               /\ config' = Resolve(saved_config, p)
               /\ field_locks' = Locks(p)
          /\ \E s \in {saved_state, UnreadableState(config')} :
               runtime' = LoadedRuntime(s, config')
       \/ /\ local_config' = DefaultLocal
          /\ config' = NoConfig
          /\ field_locks' = Locks(NoPolicy)
          /\ runtime' = [LoadedRuntime(NeverValidated, NoConfig) EXCEPT !.state = "Invalid"]
    /\ loop' = [LoopIdle EXCEPT !.pc = "wake"]
    /\ UNCHANGED <<saved_config, saved_state, queue, activeVars, stopping, ipc, worker, probed>>

(* The process is gone, and with it every thread and restic process.       *)
Terminate ==
    /\ up' = FALSE
    /\ runtime' = LoadedRuntime(NeverValidated, NoConfig)
    /\ config' = NoConfig
    /\ local_config' = DefaultLocal
    /\ field_locks' = Locks(NoPolicy)
    /\ queue' = <<>>
    /\ active_backup' = NoWorker
    /\ active_repository_operation' = NoWorker
    /\ loop' = LoopIdle
    /\ stopping' = FALSE
    /\ ipc' = IpcIdle
    /\ worker' = [w \in Workers |-> NoTask]
    /\ UNCHANGED <<saved_config, saved_state, probed>>

Crash == up /\ Terminate

(* Draining ends when nothing is active or its ten seconds are over.       *)
Exit == up /\ stopping /\ loop.pc = "idle" /\ Terminate

HoldExpires ==
    /\ runtime.update_hold_until = "held"
    /\ runtime' = [runtime EXCEPT !.update_hold_until = "expired"]
    /\ UNCHANGED <<up, configVars, saved_state, queue, loopVars, ipc, worker, probed>>

(* The service control manager asks the service to stop, once.             *)
ControlStop ==
    /\ up /\ ~stopping
    /\ ~Holds(queue, "Stop")
    /\ queue' = Append(queue, Event("Stop", "none", "none"))
    /\ UNCHANGED <<up, runtime, configVars, saved_state, loopVars, ipc, worker, probed>>

=============================================================================
