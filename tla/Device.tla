-------------------------------- MODULE Device --------------------------------
(***************************************************************************)
(* The enrolled device: the administrator's requests, the management       *)
(* thread, the restic tasks that use the credentials, and crashes at any   *)
(* point of them.                                                          *)
(***************************************************************************)
EXTENDS Enrollment, ManagementWorker

(* A task is marked running under the state mutex, and its thread reads    *)
(* the configuration afterwards; it resolves the references it read        *)
(* whenever it starts restic.                                              *)
StartTask ==
    /\ up /\ task.pc = "idle"
    /\ ~ManagementOperationActive /\ ~StateGuard
    /\ task' = [pc |-> "starting", references |-> {}]
    /\ UNCHANGED <<up, disk, mem, policy, store, issued, cache, server, admin, worker, faults>>

ReadConfig ==
    /\ up /\ task.pc = "starting"
    /\ task' = [pc |-> "running", references |-> Secrets(mem)]
    /\ UNCHANGED <<up, disk, mem, policy, store, issued, cache, server, admin, worker, faults>>

EndTask ==
    /\ up /\ task.pc = "running"
    /\ ~StateGuard
    /\ task' = TaskIdle
    /\ UNCHANGED <<up, disk, mem, policy, store, issued, cache, server, admin, worker, faults>>

(* The management server publishes a new revision.                         *)
Publish(s) ==
    /\ server[s] < MaxSequence
    /\ server' = [server EXCEPT ![s] = @ + 1]
    /\ UNCHANGED <<up, disk, mem, policy, store, issued, cache, task, admin, worker, faults>>

Crash ==
    /\ up /\ Fault
    /\ up' = FALSE
    /\ mem' = disk /\ policy' = NoPolicy
    /\ task' = TaskIdle /\ admin' = AdminIdle /\ worker' = WorkerTop
    /\ UNCHANGED <<disk, store, issued, cache, server>>

(* Service start: load_best_policy before any thread exists, whose error   *)
(* leaves the local configuration in force without a policy.               *)
Start ==
    /\ ~up
    /\ up' = TRUE
    /\ mem' = disk
    /\ LET cached == IF cache.source = disk.source THEN cache.sequence ELSE 0
           fetched == IF disk.source # NoSource /\ disk.token \in store
                      THEN server[disk.source] ELSE 0
       IN \/ /\ disk.source = NoSource
             /\ policy' = NoPolicy /\ UNCHANGED <<cache, faults>>
          \/ /\ disk.source # NoSource
             /\ policy' = IF cached = 0 THEN NoPolicy ELSE Policy(disk.source, cached)
             /\ UNCHANGED <<cache, faults>>
          \/ /\ disk.source # NoSource /\ Accepts(fetched, cached) /\ fetched # cached
             /\ \/ /\ cache' = Policy(disk.source, fetched)
                   /\ policy' = cache' /\ UNCHANGED faults
                \/ Fault /\ policy' = NoPolicy /\ UNCHANGED cache
    /\ UNCHANGED <<disk, store, issued, server, task, admin, worker>>

(* A new installation, or one whose repository credentials were set up     *)
(* locally before.                                                         *)
Init ==
    /\ up = FALSE
    /\ \E secrets \in [Variables -> MaybeReference] :
          /\ disk = [source |-> NoSource, token |-> 0, key |-> 0, secrets |-> secrets]
          /\ \A v, w \in Variables : secrets[v] = secrets[w] /\ secrets[v] # 0 => v = w
    /\ store = Secrets(disk)
    /\ \E n \in MaybeReference : issued = n /\ store = 1..n
    /\ mem = disk
    /\ policy = NoPolicy /\ cache = NoPolicy
    /\ server = [s \in Sources |-> 1]
    /\ task = TaskIdle /\ admin = AdminIdle /\ worker = WorkerTop
    /\ faults = 0

Next ==
    \/ Administration \/ Management_worker
    \/ StartTask \/ ReadConfig \/ EndTask
    \/ \E s \in Sources : Publish(s)
    \/ Crash \/ Start

Spec == Init /\ [][Next]_vars

(* The threads of a live service make progress and a started request or    *)
(* task ends.  The network works again and again, and a worker that keeps  *)
(* trying does not meet a task each time: it retries every few minutes,    *)
(* and backups are hours apart.                                            *)
ApplyWhenIdle == task.pc = "idle" /\ Apply
RetriesMeetAnIdleRuntime ==
    []<>(worker.pc = "apply") =>
        []<>(worker.pc = "apply" /\ task.pc = "idle" /\ ~ConfigurationMutation)

RequestStep ==
    \/ EnrollmentFails \/ \E slot \in {"token", "key"} \cup Variables : Put(slot)
    \/ Save \/ Cleanup \/ UpdateCache \/ Memory \/ Retire

Fairness ==
    /\ WF_vars(Start \/ ReadConfig \/ EndTask)
    /\ WF_vars(RequestStep)
    /\ WF_vars(ReloadConfig \/ ReadCache \/ SaveCache \/ Apply)
    /\ SF_vars(FetchBest \/ Refresh)
    /\ SF_vars(ApplyWhenIdle)
    /\ RetriesMeetAnIdleRuntime

FairSpec == Spec /\ Fairness

-----------------------------------------------------------------------------
(* Properties                                                              *)

(* No reference to a removed credential: whatever step of an enrollment,   *)
(* an unenrollment or a repository update fails, and wherever the service  *)
(* stops, the configuration on disk, the one in memory and the one a       *)
(* running task works with only name credentials that exist.               *)
NoDanglingReference ==
    /\ References(disk) \subseteq store
    /\ References(mem) \subseteq store
    /\ task.references \subseteq store

(* As long as nothing failed, no credential outlives its last use.         *)
NothingLeaks ==
    faults = 0 /\ admin.pc = "idle" => store = References(disk)

(* The policy in force comes from the source the device is enrolled with,  *)
(* however long the worker's fetch took.                                   *)
PolicyOfCurrentSource ==
    ~ConfigurationMutation => policy.source \in {mem.source, NoSource}

(* A worker that knows the device's source, and has applied no sequence as *)
(* high as the one published, brings the published policy into force,      *)
(* unless the device is enrolled anew, unenrolled or restarted meanwhile.  *)
UpToDate == disk.source # NoSource /\ policy = Policy(disk.source, server[disk.source])
SourceIsKnown == disk.source # NoSource /\ worker.identity = Management(disk)

RevisionReachesDevice ==
    (SourceIsKnown /\ worker.sequence < server[disk.source]) ~> (UpToDate \/ ~SourceIsKnown)
=============================================================================
