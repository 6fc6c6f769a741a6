----------------------------- MODULE DeviceState -----------------------------
(***************************************************************************)
(* What the service keeps about its enrollment: the configuration with its *)
(* references to protected credentials, the credential files, the cached   *)
(* policy and the policy in force.                                         *)
(*                                                                         *)
(* A management source is a manifest URL with its pinned key.  A policy is *)
(* the pair of its source and its sequence; a policy of an enrolled source *)
(* names no credentials (validate_effective_policy refuses one that does). *)
(* Credential references are drawn from a counter: put_new makes a random  *)
(* 128-bit name that it refuses to reuse.                                  *)
(***************************************************************************)
EXTENDS Naturals, FiniteSets

CONSTANTS
    Sources,        \* management sources
    NoSource,       \* management is disabled
    Variables,      \* the credential variables of the repository
    MaxSequence,    \* bound: policies a server publishes
    MaxReferences,  \* bound: credentials ever written
    MaxFaults       \* bound: crashes and failed file operations

ASSUME DeviceAssumption ==
    /\ NoSource \notin Sources
    /\ Variables \cap {"token", "key"} = {}
    /\ MaxSequence \in Nat /\ MaxReferences \in Nat /\ MaxFaults \in Nat

VARIABLES
    up,             \* the service process is alive
    disk,           \* config.toml
    mem,            \* local_config
    policy,         \* the policy in force (the effective configuration)
    store,          \* the credential files
    issued,         \* references given out so far
    cache,          \* managed-policy-cache.json
    server,         \* the sequence each server publishes
    task,           \* the restic task, and the references of its configuration
    admin,          \* the administrator's request, on the IPC thread
    worker,         \* the management thread and its locals
    faults          \* crashes and failed file operations so far

vars == <<up, disk, mem, policy, store, issued, cache, server, task, admin, worker, faults>>

MaybeSource == Sources \cup {NoSource}
MaybeReference == 0..MaxReferences                       \* 0: none
NoPolicy == [source |-> NoSource, sequence |-> 0]
Policy(s, n) == [source |-> s, sequence |-> n]

(* LocalManagementConfig: what the worker compares to see a changed source *)
Management(c) == [source |-> c.source, token |-> c.token, key |-> c.key]
NoManagement == [source |-> NoSource, token |-> 0, key |-> 0]

Secrets(c) == {c.secrets[v] : v \in Variables} \ {0}
References(c) == ({c.token, c.key} \cup Secrets(c)) \ {0}

Fault == faults < MaxFaults /\ faults' = faults + 1

-----------------------------------------------------------------------------
(* Administrator requests.  One thread serves them, so one runs at a time. *)
(* From the moment it holds configuration_mutation a request is in one of  *)
(* the locked steps.                                                       *)

AdminIdle == [kind |-> "none", pc |-> "idle", candidate |-> [source |-> NoSource, token |-> 0,
              key |-> 0, secrets |-> [v \in Variables |-> 0]], policy |-> NoPolicy,
              todo |-> {}, created |-> {}, retired |-> {}]

ConfigurationMutation == admin.pc \notin {"idle", "network"}
ManagementOperationActive == admin.kind = "enroll"

(* update_repository keeps the state mutex from its check to its last      *)
(* assignment in memory.                                                   *)
StateGuard == admin.kind = "update" /\ admin.pc \in {"put", "save", "memory", "cleanup"}

TaskIdle == [pc |-> "idle", references |-> {}]
WorkerTop == [pc |-> "top", local |-> NoManagement, cached |-> 0, loaded |-> NoPolicy,
              sequence |-> 0, identity |-> NoManagement]

-----------------------------------------------------------------------------
(* Types, without the bounds of an instance                                *)

Slots == {"token", "key"} \cup Variables

Config == [source : MaybeSource, token : Nat, key : Nat, secrets : [Variables -> Nat]]
PolicyRecord == [source : MaybeSource, sequence : Nat]
ManagementRecord == [source : MaybeSource, token : Nat, key : Nat]
Request == [kind : {"none", "enroll", "unenroll", "update"},
            pc : {"idle", "network", "put", "save", "cache", "memory", "retire", "cleanup"},
            candidate : Config, policy : PolicyRecord,
            todo : SUBSET Slots, created : SUBSET Nat, retired : SUBSET Nat]
Task == [pc : {"idle", "starting", "running"}, references : SUBSET Nat]
Thread == [pc : {"top", "activate", "fetch", "save", "apply", "refresh"},
           local : ManagementRecord, cached : Nat, loaded : PolicyRecord,
           sequence : Nat, identity : ManagementRecord]

(* The types of the state; a request in progress is of some kind, and the  *)
(* management thread works for a real source.                              *)
TypeOK ==
    /\ disk \in Config /\ mem \in Config
    /\ issued \in Nat /\ store \subseteq 1..issued
    /\ policy \in PolicyRecord /\ cache \in PolicyRecord
    /\ server \in [Sources -> Nat]
    /\ task \in Task /\ admin \in Request /\ worker \in Thread
    /\ admin.kind = "none" <=> admin.pc = "idle"
    /\ worker.pc # "top" => worker.local.source \in Sources
=============================================================================
