--------------------------- MODULE WorkerThreads ----------------------------
(***************************************************************************)
(* The worker threads that the event loop spawns in main.rs.  Each reports *)
(* its outcome as one event and ends.  What restic and the installer do is *)
(* any outcome they can have; a cancellation is a request that restic may  *)
(* overtake by finishing.                                                  *)
(***************************************************************************)
EXTENDS RuntimeState

(* The worker clones the configuration when its thread runs.               *)
WorkerReadsConfig(w) ==
    /\ worker[w].pc = "spawned"
    /\ worker' = [worker EXCEPT ![w] =
                    [@ EXCEPT !.pc = "restic", !.repository = Identity(config)]]
    /\ UNCHANGED <<up, runtime, configVars, saved_state, queue, loopVars, ipc, probed>>

Report(w, event) ==
    /\ queue' = Append(queue, event)
    /\ worker' = [worker EXCEPT ![w] = NoTask]

(* The backup ends; after a success on a repository that is not append-    *)
(* only begin_retention marks the service Running and retention follows.   *)
BackupEnds(w) ==
    /\ worker[w].task = "backup" /\ worker[w].pc = "restic"
    /\ \/ /\ Report(w, Event("BackupFinished", "none", "failed"))
          /\ UNCHANGED runtime
       \/ /\ worker[w].repository # Absent
          /\ Report(w, Event("BackupFinished", "none", "ok"))
          /\ UNCHANGED runtime
       \/ /\ worker[w].repository # Absent
          /\ runtime' = [runtime EXCEPT !.state = "Running"]
          /\ worker' = [worker EXCEPT ![w] = [@ EXCEPT !.pc = "retention"]]
          /\ UNCHANGED queue
    /\ UNCHANGED <<up, configVars, saved_state, loopVars, ipc, probed>>

(* finish_retention under the mutex, and then its save without the mutex.  *)
RetentionEnds(w) ==
    /\ worker[w].pc = "retention"
    /\ worker' = [worker EXCEPT ![w] =
                    [@ EXCEPT !.pc = "saving", !.snapshot = runtime.service_state]]
    /\ UNCHANGED <<up, runtime, configVars, saved_state, queue, loopVars, ipc, probed>>

SaveRetentionState(w) ==
    /\ worker[w].pc = "saving"
    /\ saved_state' \in {worker[w].snapshot, saved_state}
    /\ Report(w, Event("BackupFinished", "none", "ok"))
    /\ UNCHANGED <<up, runtime, configVars, loopVars, ipc, probed>>

RepositoryOperationEnds(w) ==
    /\ worker[w].task = "repository" /\ worker[w].pc = "restic"
    /\ \/ /\ Report(w, Event("RepositoryOperationFinished", worker[w].kind, "failed"))
          /\ UNCHANGED probed
       \/ /\ worker[w].repository # Absent
          /\ Report(w, Event("RepositoryOperationFinished", worker[w].kind, "ok"))
          /\ probed' = probed \cup {worker[w].repository}
    /\ UNCHANGED <<up, runtime, configVars, saved_state, loopVars, ipc>>

UpdateInstallEnds(w) ==
    /\ worker[w].pc = "installing"
    /\ \E result \in {"ok", "failed", "indeterminate"} :
         Report(w, Event("UpdateInstallFinished", "none", result))
    /\ UNCHANGED <<up, runtime, configVars, saved_state, loopVars, ipc, probed>>

WorkerStep(w) ==
    \/ WorkerReadsConfig(w)
    \/ BackupEnds(w) \/ RetentionEnds(w) \/ SaveRetentionState(w)
    \/ RepositoryOperationEnds(w)
    \/ UpdateInstallEnds(w)

=============================================================================
