--------------------------- MODULE ServiceRuntime ---------------------------
(***************************************************************************)
(* The resticpal service: the event loop, its workers, the IPC thread and  *)
(* the management worker over their shared state, with crashes, stops and  *)
(* restarts.                                                               *)
(***************************************************************************)
EXTENDS EventLoop, WorkerThreads, RuntimeRequests

Next ==
    \/ Start \/ Crash \/ Exit \/ HoldExpires \/ ControlStop
    \/ EventLoopStep
    \/ \E w \in Workers : WorkerStep(w)
    \/ AcceptRequest \/ ContinueRequest
    \/ ApplyManagedPolicy

Spec == Init /\ [][Next]_vars

(* The loop and the IPC thread keep running; the loop wakes by itself and  *)
(* its channel is a queue, so that an event is not overtaken for ever.  A  *)
(* repository operation has a timeout.  A backup and its retention have    *)
(* none: they are sure to end only when they are cancelled.                *)
Fairness ==
    /\ WF_vars(ContinueEvent)
    /\ WF_vars(Wake)
    /\ SF_vars(ReceiveEvent)
    /\ WF_vars(Exit)
    /\ WF_vars(HoldExpires)
    /\ WF_vars(ContinueRequest)
    /\ \A w \in Workers :
         /\ WF_vars(WorkerReadsConfig(w))
         /\ WF_vars(worker[w].cancelled /\ BackupEnds(w))
         /\ WF_vars(worker[w].cancelled /\ RetentionEnds(w))
         /\ WF_vars(SaveRetentionState(w))
         /\ WF_vars(RepositoryOperationEnds(w))

FairSpec == Spec /\ Fairness

-----------------------------------------------------------------------------
(* Invariants                                                              *)

(* Every variable holds a value of its type, and an operation that is      *)
(* about to begin has a kind.                                              *)
TypeOK ==
    /\ up \in BOOLEAN
    /\ runtime \in RuntimeStates
    /\ config \in Configs
    /\ local_config \in LocalConfigs
    /\ saved_config \in LocalConfigs
    /\ field_locks \in [url : BOOLEAN, paths : BOOLEAN]
    /\ saved_state \in ServiceStates
    /\ queue \in Seq(RuntimeEvents)
    /\ active_backup \in Workers \cup {NoWorker}
    /\ active_repository_operation \in Workers \cup {NoWorker}
    /\ loop \in LoopStates
    /\ stopping \in BOOLEAN
    /\ ipc \in IpcStates
    /\ ipc.pc = "repositoryOperation" => ipc.kind \in OperationKinds
    /\ worker \in [Workers -> WorkerStates]
    /\ probed \subseteq Identities

IsRestic(w) == worker[w].task \in {"backup", "repository"}

(* At most one worker thread runs restic: a backup with its retention and  *)
(* a repository test or initialization exclude one another, whatever the   *)
(* requests, events, failures and restarts (DESIGN.md:180).                *)
OneResticAtATime ==
    \A v, w \in Workers : IsRestic(v) /\ IsRestic(w) => v = w

(* Why it holds, as an inductive invariant.  A backup is in one place: its *)
(* worker, its report in the channel, or the loop that saves its success;  *)
(* until it has left them active_backup is set and the loop evaluates      *)
(* nothing.  A repository operation is in one place likewise: its request, *)
(* its worker, its report, or the loop that finishes it; as long as it is  *)
(* anywhere its status is Running, which blocks evaluations, requests and  *)
(* the policies that would reset it.                                       *)
Once(events, type) ==
    \A i, j \in 1..Len(events) : events[i].type = type /\ events[j].type = type => i = j

Task(task) == {w \in Workers : worker[w].task = task}

BackupInOnePlace ==
    /\ \A w \in Task("backup") : active_backup = w
    /\ Once(queue, "BackupFinished")
    /\ Holds(queue, "BackupFinished") =>
         active_backup # NoWorker /\ Task("backup") = {} /\ loop.pc # "saveState"
    /\ loop.pc = "saveState" => Task("backup") = {}
    /\ loop.pc \in {"evaluate", "startFailed"} => active_backup = NoWorker

OperationInOnePlace ==
    /\ \A v, w \in Task("repository") : v = w
    /\ Task("repository") # {} => OperationRunning /\ Task("backup") = {}
    /\ \A type \in {"RepositoryOperationRequested", "RepositoryOperationFinished"} :
         /\ Once(queue, type)
         /\ Holds(queue, type) =>
              OperationRunning /\ Task("repository") = {} /\ loop.pc # "finishRepository"
    /\ ~(/\ Holds(queue, "RepositoryOperationRequested")
         /\ Holds(queue, "RepositoryOperationFinished"))
    /\ loop.pc = "finishRepository" => OperationRunning /\ Task("repository") = {}
    /\ ipc.pc \in {"enroll", "enrolling"} => ~OperationRunning

ResticExclusion ==
    /\ ~up => /\ queue = <<>>
              /\ ipc.pc = "idle"
              /\ Task("none") = Workers
    /\ \A w \in Workers :
         /\ worker[w].pc \in {"retention", "saving"} => worker[w].task = "backup"
         /\ worker[w].pc = "installing" => worker[w].task = "update"
    /\ BackupInOnePlace
    /\ OperationInOnePlace

(* The repository that a backup worker uses is the one whose validation is *)
(* recorded and not withdrawn, from the moment it reads its configuration  *)
(* until it reports (DESIGN.md:205).                                       *)
BackupUsesVerifiedRepository ==
    \A w \in Workers :
        worker[w].task = "backup" /\ worker[w].repository # Absent =>
            runtime.service_state = [required |-> FALSE, verified |-> worker[w].repository]

(* The service considers the repository ready only when the effective      *)
(* repository, not an earlier one, is the one that was verified            *)
(* (DESIGN.md:205).                                                        *)
ReadyMeansVerified ==
    AllowsBackup(runtime.repository_operation) /\ config.url # Absent =>
        ~RepositoryRequiresValidation(runtime.service_state, config)

(* A validation is recorded, in memory or in state.json, only for an       *)
(* identity that restic accepted: the configuration that is marked when an *)
(* operation finishes is the one its worker used.                          *)
VerificationWasProbed ==
    \A s \in {runtime.service_state, saved_state} :
        s.verified # Absent => s.verified \in probed

(* While an update is held or installed no restic process runs and none    *)
(* starts (DESIGN.md:404, 418, 419).                                       *)
UpdateExcludesRestic ==
    UpdatePending => \A w \in Workers : ~IsRestic(w)

(* The Running status and the token of the event loop agree whenever the   *)
(* loop waits, so a guard that reads the status from another thread is as  *)
(* good as one that asks the loop.                                         *)
RunningIffActive ==
    up /\ loop.pc = "idle" => (IsRunning <=> active_backup # NoWorker)

(* The requirement to validate that an accepted repository operation saved *)
(* is in state.json as long as the operation runs (DESIGN.md:205, 272).    *)
RequirementIsDurable ==
    OperationRunning => saved_state.required

-----------------------------------------------------------------------------
(* Action and liveness properties                                          *)

(* The effective repository never changes under a running restic worker.   *)
RepositoryFixedWhileResticRuns ==
    [][(\E w \in Workers : IsRestic(w)) /\ up' => Identity(config') = Identity(config)]_vars

(* An accepted repository operation ends: no lost event, conflict, failed  *)
(* spawn or stop leaves the service in an operation that would reject      *)
(* every backup, setting and update.                                       *)
OperationEnds == OperationRunning ~> ~OperationRunning

(* An accepted cancellation ends the backup that was running, although     *)
(* the check and the event are not atomic.                                 *)
CancelEndsBackup == At("cancel") ~> ~IsRunning

(* Once a hold is over the status leaves "waiting for an update", unless   *)
(* an installer may still be at work or a client asks for a new hold       *)
(* (DESIGN.md:419).                                                        *)
HoldIsReleased ==
    runtime.state = "WaitingUpdate" /\ ~UpdatePending ~>
        runtime.state # "WaitingUpdate" \/ UpdatePending

=============================================================================
