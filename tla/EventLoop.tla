----------------------------- MODULE EventLoop ------------------------------
(***************************************************************************)
(* The event loop of the service: run_event_loop in main.rs and what it    *)
(* calls.  The worker threads it spawns are in WorkerThreads.tla.          *)
(*                                                                         *)
(* A step ends where a thread releases the state mutex, or where it reads  *)
(* the configuration before it takes the mutex, so that whatever another   *)
(* thread may see or do in between is a behaviour.                         *)
(***************************************************************************)
EXTENDS RuntimeState

Free(w) == worker[w].task = "none"

Spawned(task, kind, pc) == [NoTask EXCEPT !.task = task, !.kind = kind, !.pc = pc]

(* A timeout or a wake-up event: evaluate_and_maybe_start returns when a   *)
(* backup is active, else evaluate_schedule clones the configuration.      *)
Wake ==
    /\ up /\ ~stopping
    /\ loop.pc \in {"idle", "wake"}
    /\ loop' = IF active_backup # NoWorker THEN LoopIdle
               ELSE [LoopIdle EXCEPT !.pc = "evaluate", !.config = config]
    /\ UNCHANGED <<up, runtime, configVars, saved_state, queue, activeVars, stopping,
                   ipc, worker, probed>>

(* Mutant: the status from before the hold is forgotten.                   *)
HoldForgotten(r) == [r EXCEPT !.update_hold_until = "none", !.update_hold_previous = "none"]

(* What evaluate_schedule does before it decides: it gives up a hold that  *)
(* is over and restores the status from before the hold.                   *)
HoldReleased(r) ==
    [r EXCEPT !.update_hold_until = "none",
              !.update_hold_previous = "none",
              !.state = IF r.update_hold_previous # "none" /\ @ = "WaitingUpdate"
                        THEN r.update_hold_previous ELSE @]

(* decide on a service where no backup runs; a manual request is due.      *)
Decisions(r) == IF r.manual_requested THEN {"Start", "Waiting"}
                ELSE {"Start", "Waiting", "Idle"}

Evaluating ==
    /\ up /\ loop.pc = "evaluate"
    /\ UNCHANGED <<up, configVars, saved_state, queue, active_repository_operation,
                   stopping, ipc, probed>>

MayDecide(r) ==
    /\ IsConfigured(loop.config)
    /\ ~r.management_operation_active
    /\ AllowsBackup(r.repository_operation)
    /\ r.state # "Running"

EvaluateWhileUpdating ==
    /\ Evaluating
    /\ UpdatePending
    /\ runtime' = [runtime EXCEPT !.state = "WaitingUpdate"]
    /\ loop' = LoopIdle
    /\ UNCHANGED <<active_backup, worker>>

EvaluateWithoutStart ==
    /\ Evaluating
    /\ ~UpdatePending
    /\ LET r == HoldReleased(runtime) IN
       \/ /\ ~MayDecide(r)
          /\ runtime' = r
       \/ /\ MayDecide(r) /\ "Waiting" \in Decisions(r)
          /\ runtime' = [r EXCEPT !.state = "WaitingConditions"]
       \/ /\ MayDecide(r) /\ "Idle" \in Decisions(r)
          /\ runtime' = [r EXCEPT !.state = IF @ \in WaitingStates THEN "Idle" ELSE @]
    /\ loop' = LoopIdle
    /\ UNCHANGED <<active_backup, worker>>

(* The decision to start, and the spawn of the worker or its failure.      *)
EvaluateToStart ==
    /\ Evaluating
    /\ ~UpdatePending
    /\ LET r == HoldReleased(runtime) IN
       /\ MayDecide(r) /\ "Start" \in Decisions(r)
       /\ runtime' = [r EXCEPT !.state = "Running", !.manual_requested = FALSE]
    /\ \/ \E w \in Workers :
            /\ Free(w)
            /\ active_backup' = w
            /\ worker' = [worker EXCEPT ![w] = Spawned("backup", "none", "spawned")]
            /\ loop' = LoopIdle
       \/ /\ loop' = [LoopIdle EXCEPT !.pc = "startFailed"]
          /\ UNCHANGED <<active_backup, worker>>

(* Mutant: the failure to start is not reported to the runtime.            *)
ForgetFailedStart ==
    /\ up /\ loop.pc = "startFailed"
    /\ loop' = LoopIdle
    /\ UNCHANGED <<up, runtime, configVars, saved_state, queue, activeVars, stopping, ipc,
                   worker, probed>>

(* finish_backup for a run that failed: nothing is saved.                  *)
FinishFailedStart ==
    /\ up /\ loop.pc = "startFailed"
    /\ runtime' = [runtime EXCEPT !.state = "Ended"]
    /\ loop' = LoopIdle
    /\ UNCHANGED <<up, configVars, saved_state, queue, activeVars, stopping, ipc,
                   worker, probed>>

(* The loop takes the oldest event.  While it drains it stops listening    *)
(* once nothing is active.                                                 *)
Receive(type) ==
    /\ up /\ loop.pc = "idle"
    /\ queue # <<>> /\ Head(queue).type = type
    /\ stopping => active_backup # NoWorker \/ active_repository_operation # NoWorker
    /\ queue' = Tail(queue)
    /\ UNCHANGED <<up, configVars, saved_state, ipc, probed>>

(* Mutant: no token is cancelled.                                          *)
NoneCancelled(tasks) == worker

(* The workers after the tokens of these tasks are cancelled.              *)
Cancelled(tasks) ==
    [w \in Workers |->
       IF /\ worker[w].task \in tasks
          /\ w = IF worker[w].task = "backup" THEN active_backup
                 ELSE active_repository_operation
       THEN [worker[w] EXCEPT !.cancelled = TRUE] ELSE worker[w]]

ReceiveStop ==
    /\ Receive("Stop")
    /\ ~stopping
    /\ worker' = Cancelled({"backup", "repository"})
    /\ stopping' = TRUE
    /\ UNCHANGED <<runtime, activeVars, loop>>

ReceiveCancel ==
    /\ Receive("Cancel")
    /\ ~stopping
    /\ worker' = Cancelled({"backup"})
    /\ UNCHANGED <<runtime, loopVars>>

(* finish_backup_at up to the release of the mutex.  After a success a     *)
(* copy of the service state is left to be saved without the mutex.        *)
ReceiveBackupFinished ==
    /\ Receive("BackupFinished")
    /\ runtime' = [runtime EXCEPT !.state = "Ended"]
    /\ IF Head(queue).result = "ok"
       THEN /\ loop' = [LoopIdle EXCEPT !.pc = "saveState",
                                        !.snapshot = runtime.service_state]
            /\ UNCHANGED active_backup
       ELSE /\ active_backup' = NoWorker
            /\ UNCHANGED loop
    /\ UNCHANGED <<active_repository_operation, stopping, worker>>

SaveBackupState ==
    /\ up /\ loop.pc = "saveState"
    /\ saved_state' \in {loop.snapshot, saved_state}
    /\ active_backup' = NoWorker
    /\ loop' = LoopIdle
    /\ UNCHANGED <<up, runtime, configVars, queue, active_repository_operation, stopping,
                   ipc, worker, probed>>

(* finish_repository_operation once it has cloned the configuration.       *)
Finishing(kind, result, reported) ==
    [LoopIdle EXCEPT !.pc = "finishRepository", !.config = config, !.kind = kind,
                     !.result = result, !.reported = reported]

(* Mutant: an operation that cannot start is dropped.                      *)
DropRepositoryOperationRequested ==
    /\ Receive("RepositoryOperationRequested")
    /\ ~stopping
    /\ UNCHANGED <<runtime, loopVars, worker>>

(* The operation conflicts with active work, starts, or cannot be spawned. *)
ReceiveRepositoryOperationRequested ==
    /\ Receive("RepositoryOperationRequested")
    /\ ~stopping
    /\ \/ /\ active_backup = NoWorker /\ active_repository_operation = NoWorker
          /\ \E w \in Workers :
               /\ Free(w)
               /\ active_repository_operation' = w
               /\ worker' = [worker EXCEPT ![w] =
                               Spawned("repository", Head(queue).kind, "spawned")]
          /\ UNCHANGED loop
       \/ /\ loop' = Finishing(Head(queue).kind, "failed", FALSE)
          /\ UNCHANGED <<active_repository_operation, worker>>
    /\ UNCHANGED <<runtime, active_backup, stopping>>

ReceiveRepositoryOperationFinished ==
    /\ Receive("RepositoryOperationFinished")
    /\ loop' = Finishing(Head(queue).kind, Head(queue).result, TRUE)
    /\ UNCHANGED <<runtime, activeVars, stopping, worker>>

(* The locked part of finish_repository_operation.  The state is saved     *)
(* under the mutex; when that fails memory is already marked verified.     *)
FinishRepositoryOperation ==
    /\ up /\ loop.pc = "finishRepository"
    /\ LET settle(s, status) ==
             ApplyConfigurationStatus(
               [runtime EXCEPT !.service_state = s,
                               !.repository_operation = Settled(status)], loop.config)
           verified == RepositoryVerified(loop.config)
       IN IF runtime.repository_operation = Running(loop.kind)
          THEN \/ /\ loop.result = "ok"
                  /\ runtime' = settle(verified, "Succeeded")
                  /\ saved_state' = verified
               \/ /\ loop.result = "ok"
                  /\ runtime' = settle(verified, "Failed")
                  /\ UNCHANGED saved_state
               \/ /\ loop.result # "ok"
                  /\ runtime' = settle(runtime.service_state, "Failed")
                  /\ UNCHANGED saved_state
          ELSE UNCHANGED <<runtime, saved_state>>
    /\ active_repository_operation' =
         IF loop.reported THEN NoWorker ELSE active_repository_operation
    /\ loop' = IF loop.reported /\ ~stopping
               THEN [LoopIdle EXCEPT !.pc = "wake"] ELSE LoopIdle
    /\ UNCHANGED <<up, configVars, queue, active_backup, stopping, ipc, worker, probed>>

UpdateInstallFinished(r, result) ==
    IF result = "failed"
    THEN [r EXCEPT !.update_install_active = FALSE,
                   !.update_hold_until = "none",
                   !.update_hold_previous = "none",
                   !.state = IF r.update_hold_previous # "none"
                             THEN r.update_hold_previous ELSE @]
    ELSE [r EXCEPT !.update_install_active = (result = "indeterminate")]

(* The update conflicts with active work or cannot be spawned, or starts.  *)
ReceiveUpdateInstallRequested ==
    /\ Receive("UpdateInstallRequested")
    /\ ~stopping
    /\ \/ /\ runtime' = UpdateInstallFinished(runtime, "failed")
          /\ UNCHANGED worker
       \/ /\ active_backup = NoWorker /\ active_repository_operation = NoWorker
          /\ \E w \in Workers :
               /\ Free(w)
               /\ worker' = [worker EXCEPT ![w] = Spawned("update", "none", "installing")]
          /\ UNCHANGED runtime
    /\ UNCHANGED loopVars

ReceiveUpdateInstallFinished ==
    /\ Receive("UpdateInstallFinished")
    /\ ~stopping
    /\ runtime' = UpdateInstallFinished(runtime, Head(queue).result)
    /\ loop' = [LoopIdle EXCEPT !.pc = "wake"]
    /\ UNCHANGED <<activeVars, stopping, worker>>

DiscardWhileDraining ==
    /\ stopping
    /\ \E type \in EventTypes \ {"BackupFinished", "RepositoryOperationFinished"} :
         Receive(type)
    /\ UNCHANGED <<runtime, loopVars, worker>>

ReceiveEvent ==
    \/ ReceiveStop \/ ReceiveCancel \/ ReceiveBackupFinished
    \/ ReceiveRepositoryOperationRequested \/ ReceiveRepositoryOperationFinished
    \/ ReceiveUpdateInstallRequested \/ ReceiveUpdateInstallFinished
    \/ DiscardWhileDraining

ContinueEvent ==
    \/ EvaluateWhileUpdating \/ EvaluateWithoutStart \/ EvaluateToStart
    \/ FinishFailedStart \/ SaveBackupState \/ FinishRepositoryOperation

EventLoopStep == Wake \/ ReceiveEvent \/ ContinueEvent

=============================================================================
