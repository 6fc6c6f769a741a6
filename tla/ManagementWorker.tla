--------------------------- MODULE ManagementWorker ---------------------------
(***************************************************************************)
(* The management thread: it rereads config.toml, activates a source it    *)
(* has not seen with the best policy it can get (load_best_policy), and    *)
(* refreshes that source when its timer is due (refresh_policy).  The      *)
(* fetch and the write of the cache happen without any lock; only the      *)
(* application of a policy takes configuration_mutation.                   *)
(*                                                                         *)
(* The timers appear as the choice between a refresh and another sleep.    *)
(* Status reports change nothing here and are left out.                    *)
(***************************************************************************)
EXTENDS DeviceState

others == <<up, disk, mem, store, issued, server, task, admin, faults>>

(* The source is disabled; seen before; or new, which includes the same    *)
(* server under a new device identity.                                     *)
ReloadConfig ==
    /\ up /\ worker.pc = "top"
    /\ \/ /\ disk.source = NoSource
          /\ worker' = WorkerTop
       \/ /\ disk.source # NoSource /\ worker.identity = Management(disk)
          /\ worker' = [worker EXCEPT !.pc = "refresh", !.local = Management(disk)]
       \/ /\ disk.source # NoSource /\ worker.identity # Management(disk)
          /\ worker' = [worker EXCEPT !.pc = "activate", !.local = Management(disk)]
    /\ UNCHANGED <<others, policy, cache>>

(* The thread sleeps.  What it keeps is the sequence and the identity.     *)
Sleep(sequence, identity) ==
    worker' = [WorkerTop EXCEPT !.sequence = sequence, !.identity = identity]

(* cache.load: a cache of another source is no cache.                      *)
ReadCache ==
    /\ up /\ worker.pc = "activate"
    /\ worker' = [worker EXCEPT !.pc = "fetch",
                     !.cached = IF cache.source = worker.local.source THEN cache.sequence ELSE 0]
    /\ UNCHANGED <<others, policy, cache>>

(* fetch_policy succeeds when the device token is still there and the      *)
(* sequence is not below the minimum.                                      *)
Fetched == IF worker.local.token \in store THEN server[worker.local.source] ELSE 0
Accepts(sequence, minimum) == sequence # 0 /\ sequence >= minimum

(* load_best_policy, with the server's answer: the cached policy is used   *)
(* again when the server has no newer one or cannot be used.               *)
FetchBest ==
    /\ up /\ worker.pc = "fetch"
    /\ \/ /\ Accepts(Fetched, worker.cached) /\ Fetched # worker.cached
          /\ worker' = [worker EXCEPT !.pc = "save", !.loaded = Policy(worker.local.source, Fetched)]
       \/ /\ Accepts(Fetched, worker.cached) => Fetched = worker.cached
          /\ IF worker.cached # 0
             THEN worker' = [worker EXCEPT !.pc = "apply",
                                 !.loaded = Policy(worker.local.source, worker.cached)]
             ELSE Sleep(worker.sequence, worker.local)
    /\ UNCHANGED <<others, policy, cache>>

(* The server cannot be reached.                                           *)
FetchFails ==
    /\ up
    /\ \/ /\ worker.pc = "fetch" /\ worker.cached # 0
          /\ worker' = [worker EXCEPT !.pc = "apply",
                            !.loaded = Policy(worker.local.source, worker.cached)]
       \/ /\ worker.pc = "fetch" /\ worker.cached = 0
          /\ Sleep(worker.sequence, worker.local)
       \/ /\ worker.pc = "refresh"
          /\ Sleep(worker.sequence, worker.identity)
    /\ UNCHANGED <<others, policy, cache>>

(* refresh_policy, with the last applied sequence as the minimum.          *)
Refresh ==
    /\ up /\ worker.pc = "refresh"
    /\ IF Accepts(Fetched, worker.sequence) /\ Fetched # worker.sequence
       THEN worker' = [worker EXCEPT !.pc = "save",
                           !.loaded = Policy(worker.local.source, Fetched)]
       ELSE Sleep(worker.sequence, worker.identity)
    /\ UNCHANGED <<others, policy, cache>>

(* cache.save, atomic, for the source the worker read at the top.  A       *)
(* failure fails the activation or the refresh.                            *)
SaveCache ==
    /\ up /\ worker.pc = "save"
    /\ cache' = worker.loaded
    /\ worker' = [worker EXCEPT !.pc = "apply"]
    /\ UNCHANGED <<others, policy>>

SaveCacheFails ==
    /\ up /\ worker.pc = "save"
    /\ Fault
    /\ Sleep(worker.sequence, worker.local)
    /\ UNCHANGED <<up, disk, mem, store, issued, server, task, admin, policy, cache>>

(* apply_managed_policy_if_current, under configuration_mutation and the   *)
(* state mutex: SourceChanged, RuntimeBusy or Applied.                     *)
AnySource == TRUE    \* mutant: the source is not compared again

SourceIsCurrent == Management(mem) = worker.local

(* Mutant: the sequence counts as applied although the runtime was busy.   *)
ApplyOrCount ==
    /\ up /\ worker.pc = "apply"
    /\ ~ConfigurationMutation
    /\ policy' = IF SourceIsCurrent /\ task.pc = "idle" THEN worker.loaded ELSE policy
    /\ Sleep(worker.loaded.sequence, worker.local)
    /\ UNCHANGED <<others, cache>>

Apply ==
    /\ up /\ worker.pc = "apply"
    /\ ~ConfigurationMutation
    /\ \/ /\ ~SourceIsCurrent \/ task.pc # "idle"
          /\ Sleep(worker.sequence, worker.local)
          /\ UNCHANGED policy
       \/ /\ SourceIsCurrent /\ task.pc = "idle"
          /\ policy' = worker.loaded
          /\ Sleep(worker.loaded.sequence, worker.local)
    /\ UNCHANGED <<others, cache>>

Management_worker ==
    \/ ReloadConfig \/ ReadCache \/ FetchBest \/ FetchFails \/ Refresh
    \/ SaveCache \/ SaveCacheFails \/ Apply
=============================================================================
