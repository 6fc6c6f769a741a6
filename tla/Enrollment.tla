------------------------------ MODULE Enrollment ------------------------------
(***************************************************************************)
(* Enroll, unenroll and update_repository: the three requests that write   *)
(* credentials and configuration, step by step, with the failure of each   *)
(* step.  The order is: new credentials, config.toml, the cached policy,   *)
(* memory, and only then the removal of what was superseded.               *)
(***************************************************************************)
EXTENDS DeviceState

Enter(kind, pc, candidate, todo) ==
    admin' = [AdminIdle EXCEPT !.kind = kind, !.pc = pc, !.candidate = candidate, !.todo = todo]

(* Running: a backup or a repository operation.  update_install_active and *)
(* the update hold refuse the same requests; ServiceRuntime has them.      *)
Running == task.pc # "idle"

(* enroll: management_operation_active is set before the network exchange, *)
(* which happens without any lock.                                         *)
Enroll ==
    /\ up /\ admin.pc = "idle" /\ ~Running
    /\ Enter("enroll", "network", mem, {})
    /\ UNCHANGED <<up, disk, mem, policy, store, issued, cache, server, task, worker, faults>>

(* The server answers with the policy it publishes and secrets for some of *)
(* the variables; commit_enrollment takes configuration_mutation and reads *)
(* local_config then.                                                      *)
EnrollmentAnswer(s, variables) ==
    /\ up /\ admin.kind = "enroll" /\ admin.pc = "network"
    /\ issued + 2 + Cardinality(variables) <= MaxReferences
    /\ admin' = [admin EXCEPT !.pc = "put", !.candidate = [mem EXCEPT !.source = s],
                              !.policy = Policy(s, server[s]),
                              !.todo = {"token", "key"} \cup variables]
    /\ UNCHANGED <<up, disk, mem, policy, store, issued, cache, server, task, worker, faults>>

EnrollmentFails ==
    /\ up /\ admin.kind = "enroll" /\ admin.pc = "network"
    /\ admin' = AdminIdle
    /\ UNCHANGED <<up, disk, mem, policy, store, issued, cache, server, task, worker, faults>>

(* unenroll: a disabled source is already unmanaged.                       *)
Unenroll ==
    /\ up /\ admin.pc = "idle" /\ ~Running
    /\ mem.source # NoSource
    /\ Enter("unenroll", "save", [mem EXCEPT !.source = NoSource, !.token = 0, !.key = 0], {})
    /\ UNCHANGED <<up, disk, mem, policy, store, issued, cache, server, task, worker, faults>>

(* update_repository: set some credentials, remove others.  A request that *)
(* removes a credential that is not there saves the same configuration     *)
(* again, and is left out.                                                 *)
UpdateRepository(set, removed) ==
    /\ up /\ admin.pc = "idle" /\ ~Running
    /\ set \cap removed = {} /\ set \cup removed # {}
    /\ \A v \in removed : mem.secrets[v] # 0
    /\ issued + Cardinality(set) <= MaxReferences
    /\ Enter("update", IF set = {} THEN "save" ELSE "put",
             [mem EXCEPT !.secrets = [v \in Variables |-> IF v \in removed THEN 0 ELSE @[v]]],
             set)
    /\ UNCHANGED <<up, disk, mem, policy, store, issued, cache, server, task, worker, faults>>

(* put_new of the next credential                                          *)
WithReference(c, slot, reference) ==
    IF slot = "token" THEN [c EXCEPT !.token = reference]
    ELSE IF slot = "key" THEN [c EXCEPT !.key = reference]
    ELSE [c EXCEPT !.secrets[slot] = reference]

(* The token and the key are written before the repository's secrets.      *)
NextSlots ==
    IF "token" \in admin.todo THEN {"token"}
    ELSE IF "key" \in admin.todo THEN {"key"} ELSE admin.todo

Put(slot) ==
    /\ up /\ admin.pc = "put" /\ slot \in NextSlots
    /\ issued' = issued + 1
    /\ store' = store \cup {issued + 1}
    /\ admin' = [admin EXCEPT !.candidate = WithReference(@, slot, issued + 1),
                              !.created = @ \cup {issued + 1},
                              !.todo = @ \ {slot},
                              !.pc = IF admin.todo = {slot} THEN "save" ELSE "put"]
    /\ UNCHANGED <<up, disk, mem, policy, cache, server, task, worker, faults>>

(* write_atomically may fail after the file is in place, when the final    *)
(* protection fails: the file then stays, and nothing knows its name.      *)
PutFails ==
    /\ up /\ admin.pc = "put"
    /\ Fault
    /\ \/ UNCHANGED <<store, issued>>
       \/ issued' = issued + 1 /\ store' = store \cup {issued + 1}
    /\ admin' = [admin EXCEPT !.pc = "cleanup"]
    /\ UNCHANGED <<up, disk, mem, policy, cache, server, task, worker>>

(* The configuration replaces config.toml atomically.  update_repository   *)
(* first saves the state file, whose failure ends like this one's.         *)
Save ==
    /\ up /\ admin.pc = "save"
    /\ disk' = admin.candidate
    /\ admin' = [admin EXCEPT !.pc = IF admin.kind = "update" THEN "memory" ELSE "cache"]
    /\ UNCHANGED <<up, mem, policy, store, issued, cache, server, task, worker, faults>>

SaveFails ==
    /\ up /\ admin.pc = "save"
    /\ Fault
    /\ admin' = [admin EXCEPT !.pc = "cleanup"]
    /\ UNCHANGED <<up, disk, mem, policy, store, issued, cache, server, task, worker>>

(* The credentials created for a request that failed are removed; a        *)
(* removal that fails is ignored.                                          *)
Cleanup ==
    /\ up /\ admin.pc = "cleanup"
    /\ \/ store' = store \ admin.created /\ UNCHANGED faults
       \/ admin.created # {} /\ Fault /\ UNCHANGED store
    /\ admin' = AdminIdle
    /\ UNCHANGED <<up, disk, mem, policy, issued, cache, server, task, worker>>

(* save_enrollment_cache or remove_management_cache; a failure is logged   *)
(* and ignored.                                                            *)
UpdateCache ==
    /\ up /\ admin.pc = "cache"
    /\ \/ /\ cache' = IF admin.kind = "enroll" THEN admin.policy ELSE NoPolicy
          /\ UNCHANGED faults
       \/ Fault /\ UNCHANGED cache
    /\ admin' = [admin EXCEPT !.pc = "memory"]
    /\ UNCHANGED <<up, disk, mem, policy, store, issued, server, task, worker>>

(* Mutant: enroll retires the secrets it keeps, too.                       *)
RetiredWithKept(kind, old, new) ==
    IF kind = "update" THEN Secrets(old) \ Secrets(new)
    ELSE IF kind = "enroll" THEN References(old) ELSE {old.token, old.key}

(* Mutant: the manifest key is forgotten.                                  *)
RetiredWithoutKey(kind, old, new) ==
    IF kind = "unenroll" THEN {old.token} ELSE References(old) \ References(new)

(* What a request supersedes: enroll, the old identity and the secrets it  *)
(* replaced; unenroll, the old identity; update_repository, the secrets    *)
(* that no variable uses any more.                                         *)
Retired(kind, old, new) ==
    CASE kind = "enroll" -> {old.token, old.key} \cup
             {old.secrets[v] : v \in {w \in Variables : new.secrets[w] # old.secrets[w]}}
      [] kind = "unenroll" -> {old.token, old.key}
      [] kind = "update" -> Secrets(old) \ Secrets(new)

(* local_config, the effective configuration and the policy in force       *)
Memory ==
    /\ up /\ admin.pc = "memory"
    /\ mem' = admin.candidate
    /\ policy' = CASE admin.kind = "enroll" -> admin.policy
                   [] admin.kind = "unenroll" -> NoPolicy
                   [] admin.kind = "update" -> policy
    /\ admin' = [admin EXCEPT !.pc = "retire",
                     !.retired = Retired(admin.kind, mem, admin.candidate) \ {0}]
    /\ UNCHANGED <<up, disk, store, issued, cache, server, task, worker, faults>>

(* The superseded credentials are removed one after the other; a removal   *)
(* that fails is ignored.  Then the request ends.                          *)
Retire ==
    /\ up /\ admin.pc = "retire"
    /\ \/ /\ admin.retired = {}
          /\ admin' = AdminIdle
          /\ UNCHANGED <<store, faults>>
       \/ \E r \in admin.retired :
             /\ \/ store' = store \ {r} /\ UNCHANGED faults
                \/ Fault /\ UNCHANGED store
             /\ admin' = [admin EXCEPT !.retired = @ \ {r}]
    /\ UNCHANGED <<up, disk, mem, policy, issued, cache, server, task, worker>>

Administration ==
    \/ Enroll \/ EnrollmentFails
    \/ \E s \in Sources, vs \in SUBSET Variables : EnrollmentAnswer(s, vs)
    \/ Unenroll
    \/ \E set, removed \in SUBSET Variables : UpdateRepository(set, removed)
    \/ \E slot \in {"token", "key"} \cup Variables : Put(slot)
    \/ PutFails \/ Save \/ SaveFails \/ Cleanup \/ UpdateCache \/ Memory \/ Retire
=============================================================================
