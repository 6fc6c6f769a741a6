---------------------------- MODULE DeviceProofs ----------------------------
(***************************************************************************)
(* Proofs about the enrolled device, for every set of sources and of       *)
(* credential variables and any number of revisions, credentials, crashes  *)
(* and failures.  The state has its type; no credential dangles or leaks;  *)
(* the policy is one of the enrolled source.                               *)
(*                                                                         *)
(* NoDanglingReference needs to know what a request in progress holds: the *)
(* references of its candidate exist, the ones it created are in use by    *)
(* nobody else, and what it retires is used by nobody any more.  The last  *)
(* rests on references being used once: no two slots of a configuration    *)
(* share one, and a new one is above every earlier one.                    *)
(***************************************************************************)
EXTENDS Device, TLAPS

(* The provers that try a leaf which names none, in this order.            *)
USE SMT, Zenon, Z3T(30)

-----------------------------------------------------------------------------
(* Shapes of the values the actions build                                  *)

(* The idle values and the built records have their shapes.                *)
LEMMA Defaults ==
    /\ NoPolicy \in PolicyRecord /\ NoPolicy.source = NoSource
    /\ NoManagement \in ManagementRecord
    /\ AdminIdle \in Request /\ AdminIdle.pc = "idle" /\ AdminIdle.kind = "none"
    /\ TaskIdle \in Task /\ TaskIdle.pc = "idle" /\ TaskIdle.references = {}
    /\ WorkerTop \in Thread /\ WorkerTop.pc = "top"
<1>1. NoPolicy \in PolicyRecord /\ NoPolicy.source = NoSource
  BY DEF NoPolicy, PolicyRecord, MaybeSource
<1>2. NoManagement \in ManagementRecord
  BY DEF NoManagement, ManagementRecord, MaybeSource
<1>3. AdminIdle \in Request /\ AdminIdle.pc = "idle" /\ AdminIdle.kind = "none"
  BY <1>1 DEF AdminIdle, Request, Config, MaybeSource
<1>4. TaskIdle \in Task /\ TaskIdle.pc = "idle" /\ TaskIdle.references = {}
  BY DEF TaskIdle, Task
<1>5. WorkerTop \in Thread /\ WorkerTop.pc = "top"
  BY <1>1, <1>2 DEF WorkerTop, Thread
<1> QED
  BY <1>1, <1>2, <1>3, <1>4, <1>5

(* WithReference changes one slot.                                         *)
LEMMA WithReferenceShape ==
    ASSUME NEW c \in Config, NEW slot \in Slots, NEW r \in Nat
    PROVE  LET d == WithReference(c, slot, r)
           IN  /\ d \in Config
               /\ d.source = c.source
               /\ d.token = IF slot = "token" THEN r ELSE c.token
               /\ d.key = IF slot = "key" THEN r ELSE c.key
               /\ \A v \in Variables : d.secrets[v] = IF v = slot THEN r ELSE c.secrets[v]
BY DeviceAssumption DEF WithReference, Config, Slots

(* A request enters with nothing created and nothing retired.              *)
LEMMA EnterShape ==
    ASSUME NEW kind \in {"enroll", "unenroll", "update"}, NEW pc \in {"network", "put", "save"},
           NEW c \in Config, NEW todo \in SUBSET Slots, Enter(kind, pc, c, todo)
    PROVE  /\ admin' \in Request
           /\ admin'.kind = kind /\ admin'.pc = pc /\ admin'.candidate = c
           /\ admin'.todo = todo /\ admin'.created = {} /\ admin'.retired = {}
<1>1. AdminIdle.created = {} /\ AdminIdle.retired = {}
  BY DEF AdminIdle
<1>2. AdminIdle \in Request
  BY Defaults
<1> HIDE DEF AdminIdle
<1> QED
  BY <1>1, <1>2, Zenon DEF Enter, Request

(* A management identity, and the policy of a source.                      *)
LEMMA RecordShapes ==
    /\ \A c \in Config : Management(c) \in ManagementRecord /\ Management(c).source = c.source
    /\ \A s \in MaybeSource, n \in Nat : Policy(s, n) \in PolicyRecord /\ Policy(s, n).source = s
BY DEF Management, ManagementRecord, Config, Policy, PolicyRecord

(* The state at the first start has its shape.                             *)
LEMMA ShapeInit == Init => TypeOK
<1> SUFFICES ASSUME Init PROVE TypeOK
  OBVIOUS
<1>1. disk \in Config /\ mem \in Config
  BY DEF Init, Config, MaybeSource, MaybeReference
<1>2. issued \in Nat /\ store \subseteq 1..issued
  BY DeviceAssumption DEF Init, MaybeReference
<1>3. server \in [Sources -> Nat]
  BY DEF Init
<1> QED
  BY <1>1, <1>2, <1>3, Defaults DEF Init, TypeOK

(* Writing a credential moves the request on by one slot.                  *)
LEMMA PutShape ==
    ASSUME TypeOK, NEW slot \in Slots, Put(slot)
    PROVE  /\ admin' \in Request
           /\ admin'.kind = admin.kind
           /\ admin'.pc = IF admin.todo = {slot} THEN "save" ELSE "put"
           /\ admin'.candidate = WithReference(admin.candidate, slot, issued + 1)
           /\ admin'.created = admin.created \cup {issued + 1}
           /\ admin'.todo = admin.todo \ {slot}
           /\ admin'.policy = admin.policy
<1> DEFINE c == WithReference(admin.candidate, slot, issued + 1)
           n == admin.created \cup {issued + 1}
           t == admin.todo \ {slot}
           q == IF admin.todo = {slot} THEN "save" ELSE "put"
<1>1. c \in Config
  BY WithReferenceShape DEF TypeOK, Request
<1>2. n \in SUBSET Nat /\ t \in SUBSET Slots /\ q \in {"put", "save"}
  BY DEF TypeOK, Request
<1>3. admin' = [admin EXCEPT !.candidate = c, !.created = n, !.todo = t, !.pc = q]
  BY DEF Put
<1> HIDE DEF c, n, t, q
<1>4. /\ admin' \in Request
      /\ admin'.kind = admin.kind /\ admin'.pc = q /\ admin'.candidate = c
      /\ admin'.created = n /\ admin'.todo = t /\ admin'.policy = admin.policy
  BY <1>1, <1>2, <1>3, Zenon DEF TypeOK, Request
<1> QED
  BY <1>4 DEF c, n, t, q

(* Administrator requests keep the shape.                                  *)
LEMMA ShapeAdministration == ASSUME TypeOK, Administration PROVE TypeOK'
<1> USE DEF TypeOK
<1>1. CASE Enroll
  <2>1. admin' \in Request /\ admin'.kind = "enroll" /\ admin'.pc = "network"
    BY <1>1, EnterShape DEF Enroll
  <2> QED
    BY <1>1, <2>1 DEF Enroll
<1>2. CASE EnrollmentFails
  BY <1>2, Defaults DEF EnrollmentFails
<1>3. ASSUME NEW s \in Sources, NEW vs \in SUBSET Variables, EnrollmentAnswer(s, vs) PROVE TypeOK'
  <2>1. [mem EXCEPT !.source = s] \in Config
    BY DEF Config, MaybeSource
  <2>2. Policy(s, server[s]) \in PolicyRecord
    BY RecordShapes DEF MaybeSource
  <2>3. admin' \in Request /\ admin'.kind = admin.kind /\ admin'.pc = "put"
    BY <1>3, <2>1, <2>2, Zenon DEF EnrollmentAnswer, Request, Slots
  <2> QED
    BY <1>3, <2>3 DEF EnrollmentAnswer
<1>4. CASE Unenroll
  <2>1. [mem EXCEPT !.source = NoSource, !.token = 0, !.key = 0] \in Config
    BY Zenon DEF Config, MaybeSource
  <2>2. admin' \in Request /\ admin'.kind = "unenroll" /\ admin'.pc = "save"
    BY <1>4, <2>1, EnterShape DEF Unenroll
  <2> QED
    BY <1>4, <2>2 DEF Unenroll
<1>5. ASSUME NEW set \in SUBSET Variables, NEW removed \in SUBSET Variables,
             UpdateRepository(set, removed)
      PROVE  TypeOK'
  <2>1. [mem EXCEPT !.secrets = [v \in Variables |-> IF v \in removed THEN 0 ELSE @[v]]] \in Config
    BY DEF Config
  <2>2. admin' \in Request /\ admin'.kind = "update" /\ admin'.pc \in {"put", "save"}
    <3> DEFINE c == [mem EXCEPT !.secrets = [v \in Variables |-> IF v \in removed THEN 0 ELSE @[v]]]
    <3>1. Enter("update", "save", c, set) \/ Enter("update", "put", c, set)
      BY <1>5 DEF UpdateRepository
    <3>2. c \in Config /\ set \in SUBSET Slots
      BY <2>1 DEF Slots
    <3> HIDE DEF c
    <3> QED
      BY <3>1, <3>2, EnterShape
  <2> QED
    BY <1>5, <2>2 DEF UpdateRepository
<1>6. ASSUME NEW slot \in Slots, Put(slot) PROVE TypeOK'
  <2>1. issued' \in Nat /\ store' \subseteq 1..issued'
    BY <1>6 DEF Put
  <2>2. admin' \in Request /\ admin'.kind = admin.kind /\ admin'.pc \in {"put", "save"}
    BY <1>6, PutShape
  <2>3. admin.pc = "put"
    BY <1>6 DEF Put
  <2> QED
    BY <1>6, <2>1, <2>2, <2>3 DEF Put
<1>7. CASE PutFails
  <2>1. admin' \in Request /\ admin'.kind = admin.kind /\ admin'.pc = "cleanup"
    BY <1>7 DEF PutFails, Request
  <2>2. issued' \in Nat /\ store' \subseteq 1..issued'
    BY <1>7 DEF PutFails
  <2> QED
    BY <1>7, <2>1, <2>2 DEF PutFails
<1>8. CASE Save
  <2>1. admin' \in Request /\ admin'.kind = admin.kind /\ admin'.pc \in {"cache", "memory"}
    BY <1>8 DEF Save, Request
  <2>2. disk' \in Config
    BY <1>8 DEF Save, Request
  <2> QED
    BY <1>8, <2>1, <2>2 DEF Save
<1>9. CASE SaveFails
  <2>1. admin' \in Request /\ admin'.kind = admin.kind /\ admin'.pc = "cleanup"
    BY <1>9 DEF SaveFails, Request
  <2> QED
    BY <1>9, <2>1 DEF SaveFails
<1>10. CASE Cleanup
  BY <1>10, Defaults, Zenon DEF Cleanup
<1>11. CASE UpdateCache
  <2>1. admin' \in Request /\ admin'.kind = admin.kind /\ admin'.pc = "memory"
    BY <1>11 DEF UpdateCache, Request
  <2>2. cache' \in PolicyRecord
    BY <1>11, Defaults DEF UpdateCache, Request
  <2> QED
    BY <1>11, <2>1, <2>2 DEF UpdateCache
<1>12. CASE Memory
  <2>0. Retired(admin.kind, mem, admin.candidate) \ {0} \in SUBSET Nat
    BY <1>12 DEF Memory, Retired, Request, Config, Secrets
  <2>1. admin' \in Request /\ admin'.kind = admin.kind /\ admin'.pc = "retire"
    BY <1>12, <2>0, Zenon DEF Memory, Request
  <2>2. mem' \in Config
    BY <1>12 DEF Memory, Request
  <2>3. policy' \in PolicyRecord
    BY <1>12, Defaults DEF Memory, Request
  <2> QED
    BY <1>12, <2>1, <2>2, <2>3, Zenon DEF Memory
<1>13. CASE Retire
  <2>1. admin' \in Request /\ (admin'.kind = "none" <=> admin'.pc = "idle")
    BY <1>13, Defaults DEF Retire, Request
  <2>2. store' \subseteq store
    BY <1>13 DEF Retire
  <2> QED
    BY <1>13, <2>1, <2>2 DEF Retire
<1> QED
  BY <1>1, <1>2, <1>3, <1>4, <1>5, <1>6, <1>7, <1>8, <1>9, <1>10, <1>11, <1>12, <1>13, Zenon
     DEF Administration, Slots

(* Going to sleep keeps what the thread remembers.                         *)
LEMMA SleepShape ==
    ASSUME NEW n \in Nat, NEW m \in ManagementRecord, Sleep(n, m)
    PROVE  worker' \in Thread /\ worker'.pc = "top"
BY Defaults, Zenon DEF Sleep, Thread

(* What the thread fetched is a number.                                    *)
LEMMA FetchedShape ==
    ASSUME TypeOK, worker.pc # "top"
    PROVE  Fetched \in Nat
BY DEF TypeOK, Fetched

(* The management thread keeps the shape.                                  *)
LEMMA ShapeManagement == ASSUME TypeOK, Management_worker PROVE TypeOK'
<1> USE DEF TypeOK
<1>0. ASSUME worker' \in Thread, worker'.pc # "top" => worker'.local.source \in Sources,
             policy' \in PolicyRecord, cache' \in PolicyRecord,
             UNCHANGED <<disk, mem, store, issued, server, task, admin>>
      PROVE  TypeOK'
  BY <1>0
<1>1. CASE ReloadConfig
  <2>1. Management(disk) \in ManagementRecord /\ Management(disk).source = disk.source
    BY RecordShapes
  <2>2. disk.source \in MaybeSource
    BY DEF Config
  <2>3. worker' \in Thread /\ (worker'.pc # "top" => worker'.local.source \in Sources)
    BY <1>1, <2>1, <2>2, Defaults, ZenonT(30) DEF ReloadConfig, Thread, MaybeSource
  <2> QED
    BY <1>0, <1>1, <2>3 DEF ReloadConfig, others
<1>2. CASE ReadCache
  <2>1. worker' \in Thread /\ worker'.local = worker.local
    BY <1>2, Zenon DEF ReadCache, Thread, PolicyRecord
  <2> QED
    BY <1>0, <1>2, <2>1 DEF ReadCache, others
<1>3. ASSUME NEW n \in Nat, NEW pc \in {"save", "apply"}, worker.pc # "top",
             worker' = [worker EXCEPT !.pc = pc, !.loaded = Policy(worker.local.source, n)]
      PROVE  worker' \in Thread /\ worker'.local = worker.local
  <2>1. Policy(worker.local.source, n) \in PolicyRecord
    BY <1>3, RecordShapes DEF MaybeSource
  <2> QED
    BY <1>3, <2>1, Zenon DEF Thread
<1>4. worker.sequence \in Nat /\ worker.cached \in Nat /\ worker.local \in ManagementRecord
      /\ worker.identity \in ManagementRecord /\ worker.loaded \in PolicyRecord
  BY DEF Thread
<1>5. CASE FetchBest
  <2>1. Fetched \in Nat
    BY <1>5, FetchedShape DEF FetchBest
  <2>2. worker' \in Thread /\ (worker'.pc # "top" => worker'.local = worker.local)
    BY <1>3, <1>4, <1>5, <2>1, SleepShape, Zenon DEF FetchBest
  <2> QED
    BY <1>0, <1>5, <2>2 DEF FetchBest, others
<1>6. CASE FetchFails
  <2>1. worker' \in Thread /\ (worker'.pc # "top" => worker'.local = worker.local)
    BY <1>3, <1>4, <1>6, SleepShape, Zenon DEF FetchFails
  <2> QED
    BY <1>0, <1>6, <2>1 DEF FetchFails, others
<1>7. CASE Refresh
  <2>1. Fetched \in Nat
    BY <1>7, FetchedShape DEF Refresh
  <2>2. worker' \in Thread /\ (worker'.pc # "top" => worker'.local = worker.local)
    BY <1>3, <1>4, <1>7, <2>1, SleepShape, Zenon DEF Refresh
  <2> QED
    BY <1>0, <1>7, <2>2 DEF Refresh, others
<1>8. CASE SaveCache
  <2>1. worker' \in Thread /\ worker'.local = worker.local
    BY <1>8 DEF SaveCache, Thread
  <2> QED
    BY <1>0, <1>4, <1>8, <2>1 DEF SaveCache, others
<1>9. CASE SaveCacheFails
  BY <1>0, <1>4, <1>9, SleepShape DEF SaveCacheFails
<1>10. CASE Apply
  <2>1. worker.loaded.sequence \in Nat
    BY <1>4 DEF PolicyRecord
  <2>2. worker' \in Thread /\ worker'.pc = "top"
    BY <1>4, <1>10, <2>1, SleepShape DEF Apply
  <2> QED
    BY <1>0, <1>4, <1>10, <2>2 DEF Apply, others
<1> QED
  BY <1>1, <1>2, <1>5, <1>6, <1>7, <1>8, <1>9, <1>10 DEF Management_worker

(* So do tasks, servers, crashes and starts.                               *)
LEMMA ShapeOthers ==
    ASSUME TypeOK,
           \/ StartTask \/ ReadConfig \/ EndTask \/ Crash \/ Start
           \/ \E s \in Sources : Publish(s)
    PROVE  TypeOK'
<1> USE DEF TypeOK
<1>1. CASE StartTask
  <2>1. task' \in Task
    BY <1>1 DEF StartTask, Task
  <2> QED
    BY <1>1, <2>1 DEF StartTask
<1>2. CASE ReadConfig
  <2>1. Secrets(mem) \in SUBSET Nat
    BY DEF Secrets, Config
  <2>2. task' \in Task
    BY <1>2, <2>1 DEF ReadConfig, Task
  <2> QED
    BY <1>2, <2>2 DEF ReadConfig
<1>3. CASE EndTask
  BY <1>3, Defaults DEF EndTask
<1>4. CASE Crash
  BY <1>4, Defaults DEF Crash
<1>5. CASE Start
  <2>1. disk.source \in MaybeSource
    BY DEF Config
  <2>2. cache.sequence \in Nat
    BY DEF PolicyRecord
  <2>3. disk.source # NoSource => server[disk.source] \in Nat
    BY <2>1 DEF MaybeSource
  <2>4. policy' \in PolicyRecord /\ cache' \in PolicyRecord
    BY <1>5, <2>1, <2>2, <2>3, Defaults, RecordShapes DEF Start, Accepts
  <2> QED
    BY <1>5, <2>4 DEF Start
<1>6. ASSUME NEW s \in Sources, Publish(s) PROVE TypeOK'
  <2>1. server' \in [Sources -> Nat]
    BY <1>6 DEF Publish
  <2> QED
    BY <1>6, <2>1 DEF Publish
<1> QED
  BY <1>1, <1>2, <1>3, <1>4, <1>5, <1>6

(* Every step keeps the type.                                              *)
LEMMA ShapeStep == TypeOK /\ [Next]_vars => TypeOK'
<1> SUFFICES ASSUME TypeOK, [Next]_vars PROVE TypeOK'
  OBVIOUS
<1>1. CASE UNCHANGED vars
  BY <1>1 DEF TypeOK, vars
<1> QED
  BY <1>1, ShapeAdministration, ShapeManagement, ShapeOthers DEF Next

(* The state always has its type: a request is in progress exactly when it *)
(* is of some kind, and the management thread works for a real source.     *)
THEOREM TypeCorrect == Spec => []TypeOK
BY ShapeInit, ShapeStep, PTL DEF Spec

-----------------------------------------------------------------------------
(* The reference in a slot of a configuration.                             *)
Slot(c, s) == IF s = "token" THEN c.token ELSE IF s = "key" THEN c.key ELSE c.secrets[s]

Held(c, credentials) == \A s \in Slots : Slot(c, s) = 0 \/ Slot(c, s) \in credentials
Distinct(c) == \A s, t \in Slots : Slot(c, s) = Slot(c, t) /\ Slot(c, s) # 0 => s = t
Apart(refs, c) == \A r \in refs, s \in Slots : Slot(c, s) # r

(* The configuration in force and the one on disk.                         *)
Saved == admin.pc \in {"cache", "memory"}
ConfigInv ==
    /\ Held(mem, store) /\ Distinct(mem)
    /\ disk = IF Saved THEN admin.candidate ELSE mem

(* A task uses the secrets in force, and is absent where they may change.  *)
TaskInv ==
    /\ task.references \subseteq Secrets(mem)
    /\ task.pc # "running" => task.references = {}
    /\ ManagementOperationActive \/ StateGuard => task.pc = "idle"

(* The candidate of a request that is not yet in force: every slot is new, *)
(* empty or as it was; an enrollment replaces the identity, an             *)
(* unenrollment empties it and keeps the secrets.                          *)
Open == admin.pc \in {"put", "save", "cache", "memory"}
From(c, old, created) ==
    \A s \in Slots : Slot(c, s) \in created \/ Slot(c, s) = 0 \/ Slot(c, s) = Slot(old, s)
IdentityOf(kind, c, todo, created) ==
    /\ kind = "enroll" => \A s \in {"token", "key"} : s \in todo \/ Slot(c, s) \in created
    /\ kind = "unenroll" => Slot(c, "token") = 0 /\ Slot(c, "key") = 0

CandidateInv ==
    Open => /\ Held(admin.candidate, store) /\ Distinct(admin.candidate)
            /\ From(admin.candidate, mem, admin.created)
            /\ IdentityOf(admin.kind, admin.candidate, admin.todo, admin.created)
            /\ admin.kind = "unenroll" => /\ admin.pc # "put"
                                          /\ admin.candidate.secrets = mem.secrets
            /\ admin.kind = "update" => admin.pc # "cache"
            /\ admin.pc # "put" => admin.todo = {}

RequestInv ==
    /\ ~up => admin.pc = "idle"
    /\ admin.pc = "network" => admin.created = {}
    /\ admin.pc # "retire" => Apart(admin.created, mem)
    /\ admin.pc = "retire" => Apart(admin.retired, mem)

CredentialInv == TypeOK /\ ConfigInv /\ TaskInv /\ CandidateInv /\ RequestInv

(* The policy belongs to the source.                                       *)
PolicyInv ==
    /\ policy.source \in {mem.source, NoSource}
    /\ worker.pc \in {"save", "apply"} => worker.loaded.source = worker.local.source
    /\ Open => CASE admin.kind = "enroll" -> admin.policy.source = admin.candidate.source
                 [] admin.kind = "update" -> admin.candidate.source = mem.source
                 [] OTHER -> TRUE

-----------------------------------------------------------------------------
(* Slots and references                                                    *)

(* The references of a configuration are what its slots hold.              *)
LEMMA SlotReferences ==
    ASSUME NEW c \in Config
    PROVE  /\ \A s \in Slots : Slot(c, s) \in Nat
           /\ \A r : r \in References(c) <=> r # 0 /\ \E s \in Slots : Slot(c, s) = r
           /\ \A r : r \in Secrets(c) <=> r # 0 /\ \E s \in Variables : Slot(c, s) = r
           /\ \A v \in Variables : Slot(c, v) = c.secrets[v]
           /\ c.token = Slot(c, "token") /\ c.key = Slot(c, "key")
<1>1. \A v \in Variables : Slot(c, v) = c.secrets[v]
  BY DeviceAssumption DEF Slot
<1>2. c.token = Slot(c, "token") /\ c.key = Slot(c, "key")
  BY DEF Slot
<1>3. c.token \in Nat /\ c.key \in Nat /\ \A v \in Variables : c.secrets[v] \in Nat
  BY DEF Config
<1>4. \A r : r \in Secrets(c) <=> r # 0 /\ \E s \in Variables : Slot(c, s) = r
  BY <1>1 DEF Secrets
<1> HIDE DEF Slot
<1> QED
  BY <1>1, <1>2, <1>3, <1>4, Zenon DEF References, Slots

(* Held is what NoDanglingReference asks of a configuration.               *)
LEMMA HeldReferences ==
    ASSUME NEW c \in Config, NEW credentials
    PROVE  Held(c, credentials) <=> References(c) \subseteq credentials
BY SlotReferences DEF Held

(* Writing a new credential into a slot.                                   *)
LEMMA SlotWithReference ==
    ASSUME NEW c \in Config, NEW slot \in Slots, NEW r \in Nat, NEW s \in Slots
    PROVE  Slot(WithReference(c, slot, r), s) = IF s = slot THEN r ELSE Slot(c, s)
BY WithReferenceShape, DeviceAssumption DEF Slot, Slots

(* Two configurations that agree on identity and secrets agree on slots.   *)
LEMMA SlotCopies ==
    ASSUME NEW c, NEW d, c.token = d.token, c.key = d.key, c.secrets = d.secrets
    PROVE  \A s \in Slots : Slot(c, s) = Slot(d, s)
BY DEF Slot

-----------------------------------------------------------------------------
(* The credential invariant                                                *)

(* It holds at the first start.                                            *)
LEMMA CredentialInit == Init => CredentialInv
<1> SUFFICES ASSUME Init PROVE CredentialInv
  OBVIOUS
<1>1. TypeOK
  BY ShapeInit
<1>2. admin.pc = "idle" /\ admin.kind = "none" /\ admin.created = {}
  BY Defaults DEF Init, AdminIdle
<1>3. task.references = {} /\ task.pc = "idle"
  BY Defaults DEF Init
<1>4. mem \in Config /\ mem = disk /\ store = Secrets(mem) /\ mem.token = 0 /\ mem.key = 0
  BY <1>1 DEF Init, TypeOK
<1>5. Held(mem, store)
  BY <1>4, SlotReferences DEF Held, Slots
<1>6. \A v, w \in Variables : mem.secrets[v] = mem.secrets[w] /\ mem.secrets[v] # 0 => v = w
  BY DEF Init
<1>7. Distinct(mem)
  BY <1>4, <1>6, SlotReferences DEF Distinct, Slots
<1> QED
  BY <1>1, <1>2, <1>3, <1>4, <1>5, <1>7
     DEF CredentialInv, ConfigInv, TaskInv, CandidateInv, RequestInv, Open, Saved, Apart,
         ManagementOperationActive, StateGuard

(* A step that leaves the configuration, the credentials, the task and the *)
(* request alone keeps it.                                                 *)
LEMMA CredentialFrame ==
    ASSUME CredentialInv, TypeOK', UNCHANGED <<disk, mem, store, task, admin>>, up' = up \/ up'
    PROVE  CredentialInv'
BY DEF CredentialInv, ConfigInv, TaskInv, CandidateInv, RequestInv, Open, Saved,
       ManagementOperationActive, StateGuard

(* Tasks keep it.                                                          *)
LEMMA CredentialTask ==
    ASSUME CredentialInv, TypeOK', StartTask \/ ReadConfig \/ EndTask
    PROVE  CredentialInv'
<1>1. UNCHANGED <<disk, mem, store, admin>>
  BY DEF StartTask, ReadConfig, EndTask
<1>2. TaskInv'
  <2>1. CASE StartTask
    BY <1>1, <2>1 DEF StartTask, TaskInv, CredentialInv, ManagementOperationActive, StateGuard
  <2>2. CASE ReadConfig
    BY <1>1, <2>2 DEF ReadConfig, TaskInv, CredentialInv, ManagementOperationActive, StateGuard
  <2>3. CASE EndTask
    BY <1>1, <2>3, Defaults DEF EndTask, TaskInv
  <2> QED
    BY <2>1, <2>2, <2>3
<1> QED
  BY <1>1, <1>2
     DEF CredentialInv, ConfigInv, CandidateInv, RequestInv, Open, Saved, StartTask, ReadConfig,
         EndTask

(* A crash and a start keep it: the configuration on disk is in force.     *)
LEMMA CredentialCrash ==
    ASSUME CredentialInv, TypeOK', Crash \/ Start
    PROVE  CredentialInv'
<1>1. CASE Crash
  <2>1. Held(disk, store) /\ Distinct(disk)
    BY DEF CredentialInv, ConfigInv, CandidateInv, Open, Saved
  <2>2. admin'.pc = "idle" /\ admin'.kind = "none" /\ admin'.created = {}
    BY <1>1, Defaults DEF Crash, AdminIdle
  <2>3. mem' = disk /\ disk' = disk /\ store' = store
    BY <1>1 DEF Crash
  <2>4. task'.references = {} /\ task'.pc = "idle"
    BY <1>1, Defaults DEF Crash
  <2> QED
    BY <2>1, <2>2, <2>3, <2>4
       DEF CredentialInv, ConfigInv, TaskInv, CandidateInv, RequestInv, Open, Saved, Apart,
           ManagementOperationActive, StateGuard
<1>2. CASE Start
  <2>1. mem' = mem
    BY <1>2 DEF CredentialInv, Start, ConfigInv, RequestInv, Saved
  <2> QED
    BY <1>2, <2>1, CredentialFrame DEF Start
<1> QED
  BY <1>1, <1>2

(* A request that ends, or never held anything, keeps it.                  *)
LEMMA CredentialIdle ==
    ASSUME CredentialInv, TypeOK', ~Saved, admin' = AdminIdle,
           UNCHANGED <<up, disk, mem, task>>, Held(mem, store')
    PROVE  CredentialInv'
<1>1. admin'.pc = "idle" /\ admin'.kind = "none" /\ admin'.created = {}
  BY Defaults DEF AdminIdle
<1> QED
  BY <1>1 DEF CredentialInv, ConfigInv, TaskInv, CandidateInv, RequestInv, Open, Saved, Apart,
              ManagementOperationActive, StateGuard

(* A configuration whose slots are empty or those of the one in force.     *)
LEMMA SubCandidate ==
    ASSUME CredentialInv, NEW c, \A s \in Slots : Slot(c, s) \in {0, Slot(mem, s)}
    PROVE  Held(c, store) /\ Distinct(c) /\ \A created : From(c, mem, created)
BY DEF CredentialInv, ConfigInv, Held, Distinct, From

(* Enrollment up to its answer keeps it.                                   *)
LEMMA CredentialEnroll ==
    ASSUME CredentialInv, TypeOK',
           \/ Enroll \/ EnrollmentFails
           \/ \E s \in Sources, vs \in SUBSET Variables : EnrollmentAnswer(s, vs)
    PROVE  CredentialInv'
<1> USE DEF CredentialInv
<1>1. CASE Enroll
  <2>1. /\ admin'.kind = "enroll" /\ admin'.pc = "network" /\ admin'.created = {}
    BY <1>1, EnterShape DEF Enroll, TypeOK
  <2>2. UNCHANGED <<up, disk, mem, store, task>> /\ up /\ admin.pc = "idle" /\ task.pc = "idle"
    BY <1>1 DEF Enroll, Running
  <2> QED
    BY <2>1, <2>2 DEF ConfigInv, TaskInv, CandidateInv, RequestInv, Open, Saved, Apart,
                      ManagementOperationActive, StateGuard
<1>2. CASE EnrollmentFails
  BY <1>2, CredentialIdle DEF EnrollmentFails, Saved, ConfigInv
<1>3. ASSUME NEW s \in Sources, NEW vs \in SUBSET Variables, EnrollmentAnswer(s, vs)
      PROVE  CredentialInv'
  <2> DEFINE c == [mem EXCEPT !.source = s]
  <2>1. c.token = mem.token /\ c.key = mem.key /\ c.secrets = mem.secrets
    BY DEF TypeOK, Config
  <2>2. /\ admin'.kind = "enroll" /\ admin'.pc = "put" /\ admin'.created = admin.created
        /\ admin'.candidate = c /\ admin'.todo = {"token", "key"} \cup vs
    BY <1>3, ZenonT(30) DEF EnrollmentAnswer, TypeOK, Request
  <2> HIDE DEF c
  <2>3. UNCHANGED <<up, disk, mem, store, task>> /\ up /\ admin.pc = "network"
        /\ admin.kind = "enroll"
    BY <1>3, Zenon DEF EnrollmentAnswer
  <2>4. \A t \in Slots : Slot(c, t) \in {0, Slot(mem, t)}
    BY <2>1, SlotCopies
  <2>5. Held(c, store) /\ Distinct(c) /\ From(c, mem, admin.created)
    BY <2>4, SubCandidate
  <2>6. CandidateInv'
    BY <2>2, <2>3, <2>5 DEF CandidateInv, IdentityOf
  <2> QED
    BY <2>2, <2>3, <2>6 DEF ConfigInv, TaskInv, RequestInv, Saved, Apart,
                            ManagementOperationActive, StateGuard
<1> QED
  BY <1>1, <1>2, <1>3

(* So does a request that begins with slots in force or empty.             *)
LEMMA CredentialEnter ==
    ASSUME CredentialInv, TypeOK', NEW kind \in {"unenroll", "update"}, NEW pc \in {"put", "save"},
           NEW c \in Config, NEW todo \in SUBSET Slots, Enter(kind, pc, c, todo),
           pc = "save" => todo = {},
           kind = "unenroll" => pc = "save" /\ c.token = 0 /\ c.key = 0 /\ c.secrets = mem.secrets,
           \A s \in Slots : Slot(c, s) \in {0, Slot(mem, s)},
           up, admin.pc = "idle", task.pc = "idle", UNCHANGED <<up, disk, mem, store, task>>
    PROVE  CredentialInv'
<1>1. /\ admin'.kind = kind /\ admin'.pc = pc /\ admin'.candidate = c
      /\ admin'.todo = todo /\ admin'.created = {}
  BY EnterShape
<1>2. Held(c, store) /\ Distinct(c) /\ From(c, mem, {})
  BY SubCandidate
<1>3. IdentityOf(kind, c, todo, {})
  BY SlotReferences DEF IdentityOf
<1>4. CandidateInv'
  BY <1>1, <1>2, <1>3 DEF CandidateInv
<1> QED
  BY <1>1, <1>4 DEF CredentialInv, ConfigInv, TaskInv, RequestInv, Saved, Apart,
                    ManagementOperationActive, StateGuard

(* Unenrollment and repository updates begin like that.                    *)
LEMMA CredentialRequests ==
    ASSUME CredentialInv, TypeOK',
           \/ Unenroll
           \/ \E set, removed \in SUBSET Variables : UpdateRepository(set, removed)
    PROVE  CredentialInv'
<1>0. TypeOK /\ mem \in Config
  BY DEF CredentialInv, TypeOK
<1>1. CASE Unenroll
  <2> DEFINE c == [mem EXCEPT !.source = NoSource, !.token = 0, !.key = 0]
  <2>1. c \in Config /\ c.token = 0 /\ c.key = 0 /\ c.secrets = mem.secrets
    BY <1>0, Zenon DEF Config, MaybeSource
  <2>2. Enter("unenroll", "save", c, {}) /\ up /\ admin.pc = "idle" /\ task.pc = "idle"
        /\ UNCHANGED <<up, disk, mem, store, task>>
    BY <1>1 DEF Unenroll, Running
  <2> HIDE DEF c
  <2>3. \A s \in Slots : Slot(c, s) \in {0, Slot(mem, s)}
    BY <2>1 DEF Slot
  <2> QED
    BY <2>1, <2>2, <2>3, CredentialEnter
<1>2. ASSUME NEW set \in SUBSET Variables, NEW removed \in SUBSET Variables,
             UpdateRepository(set, removed)
      PROVE  CredentialInv'
  <2> DEFINE c == [mem EXCEPT !.secrets = [v \in Variables |-> IF v \in removed THEN 0 ELSE @[v]]]
             pc == IF set = {} THEN "save" ELSE "put"
  <2>1. /\ c \in Config /\ c.token = mem.token /\ c.key = mem.key
        /\ \A v \in Variables : c.secrets[v] \in {0, mem.secrets[v]}
    BY <1>0 DEF Config
  <2>2. Enter("update", pc, c, set) /\ up /\ admin.pc = "idle" /\ task.pc = "idle"
        /\ UNCHANGED <<up, disk, mem, store, task>>
    BY <1>2 DEF UpdateRepository, Running
  <2>3. pc \in {"put", "save"} /\ (pc = "save" => set = {})
    OBVIOUS
  <2> HIDE DEF c, pc
  <2>4. \A s \in Slots : Slot(c, s) \in {0, Slot(mem, s)}
    BY <2>1, DeviceAssumption DEF Slot, Slots
  <2>5. set \in SUBSET Slots
    BY DEF Slots
  <2> QED
    BY <2>1, <2>2, <2>3, <2>4, <2>5, CredentialEnter
<1> QED
  BY <1>1, <1>2

(* Writing a credential keeps it: the new reference is above all others.   *)
LEMMA CredentialPut ==
    ASSUME CredentialInv, TypeOK', NEW slot \in Slots, Put(slot)
    PROVE  CredentialInv'
<1> DEFINE c == admin.candidate
           r == issued + 1
           d == WithReference(c, slot, r)
<1>1. TypeOK /\ c \in Config /\ mem \in Config /\ r \in Nat /\ r # 0
  BY DEF CredentialInv, TypeOK, Request
<1>2. /\ admin'.kind = admin.kind /\ admin'.pc \in {"put", "save"} /\ admin'.candidate = d
      /\ admin'.created = admin.created \cup {r} /\ admin'.todo = admin.todo \ {slot}
      /\ admin'.pc = "save" => admin'.todo = {}
  BY <1>1, PutShape
<1>3. UNCHANGED <<up, disk, mem, task>> /\ up /\ admin.pc = "put" /\ store' = store \cup {r}
  BY DEF Put
<1>4. \A s \in Slots : Slot(d, s) = IF s = slot THEN r ELSE Slot(c, s)
  BY <1>1, SlotWithReference
<1>5. /\ Held(c, store) /\ Distinct(c) /\ From(c, mem, admin.created) /\ Held(mem, store)
      /\ IdentityOf(admin.kind, c, admin.todo, admin.created) /\ admin.kind # "unenroll"
      /\ Apart(admin.created, mem)
  BY <1>3 DEF CredentialInv, CandidateInv, ConfigInv, RequestInv, Open
<1>6. \A s \in Slots : Slot(c, s) # r /\ Slot(mem, s) # r
  <2>1. r \notin store
    BY <1>1 DEF TypeOK
  <2> QED
    BY <1>1, <1>5, <2>1 DEF Held
<1> HIDE DEF c, d, r
<1>7. Held(d, store \cup {r}) /\ Held(mem, store \cup {r})
  BY <1>4, <1>5 DEF Held
<1>8. Distinct(d)
  BY <1>4, <1>5, <1>6 DEF Distinct
<1>9. From(d, mem, admin.created \cup {r})
  BY <1>4, <1>5 DEF From
<1>10. IdentityOf(admin.kind, d, admin.todo \ {slot}, admin.created \cup {r})
  BY <1>4, <1>5 DEF IdentityOf, Slots
<1>11. Apart(admin.created \cup {r}, mem)
  BY <1>5, <1>6 DEF Apart
<1>12. CandidateInv'
  BY <1>2, <1>3, <1>5, <1>7, <1>8, <1>9, <1>10 DEF CandidateInv
<1>13. ConfigInv' /\ RequestInv'
  BY <1>2, <1>3, <1>7, <1>11 DEF CredentialInv, ConfigInv, RequestInv, Saved
<1>14. TaskInv'
  BY <1>2, <1>3 DEF CredentialInv, TaskInv, ManagementOperationActive, StateGuard
<1> QED
  BY <1>12, <1>13, <1>14 DEF CredentialInv

(* The failures and the removal of what a failed request created.          *)
LEMMA CredentialFailure ==
    ASSUME CredentialInv, TypeOK', PutFails \/ SaveFails \/ Cleanup
    PROVE  CredentialInv'
<1>1. CASE PutFails \/ SaveFails
  <2>1. /\ admin'.kind = admin.kind /\ admin'.pc = "cleanup" /\ admin'.created = admin.created
    BY <1>1 DEF PutFails, SaveFails, CredentialInv, TypeOK, Request
  <2>2. UNCHANGED <<up, disk, mem, task>> /\ up /\ admin.pc \in {"put", "save"}
        /\ store \subseteq store'
    BY <1>1 DEF PutFails, SaveFails
  <2>3. Held(mem, store')
    BY <2>2 DEF CredentialInv, ConfigInv, Held
  <2> QED
    BY <2>1, <2>2, <2>3
       DEF CredentialInv, ConfigInv, TaskInv, CandidateInv, RequestInv, Open, Saved,
           ManagementOperationActive, StateGuard
<1>2. CASE Cleanup
  <2>1. admin.pc = "cleanup" /\ UNCHANGED <<up, disk, mem, task>> /\ admin' = AdminIdle
        /\ store \ admin.created \subseteq store'
    BY <1>2 DEF Cleanup
  <2>2. Held(mem, store) /\ Apart(admin.created, mem)
    BY <2>1 DEF CredentialInv, ConfigInv, RequestInv
  <2>3. Held(mem, store')
    BY <2>1, <2>2 DEF Held, Apart
  <2> QED
    BY <2>1, <2>3, CredentialIdle DEF Saved
<1> QED
  BY <1>1, <1>2

(* Saving the configuration and the cached policy.                         *)
LEMMA CredentialSave ==
    ASSUME CredentialInv, TypeOK', Save \/ UpdateCache
    PROVE  CredentialInv'
<1>1. /\ admin'.kind = admin.kind /\ admin'.pc \in {"cache", "memory"}
      /\ admin'.created = admin.created /\ admin'.candidate = admin.candidate
      /\ admin'.todo = admin.todo /\ (admin.kind = "update" => admin'.pc = "memory")
  BY DEF Save, UpdateCache, CredentialInv, TypeOK, Request
<1>2. admin.pc \in {"save", "cache"} /\ up /\ UNCHANGED <<up, mem, task, store>>
      /\ disk' = admin.candidate
  BY DEF Save, UpdateCache, CredentialInv, ConfigInv, Saved
<1>3. ConfigInv' /\ CandidateInv' /\ RequestInv'
  BY <1>1, <1>2 DEF CredentialInv, ConfigInv, CandidateInv, RequestInv, Open, Saved
<1>4. TaskInv'
  BY <1>1, <1>2
     DEF CredentialInv, CandidateInv, Open, TaskInv, ManagementOperationActive, StateGuard
<1> QED
  BY <1>3, <1>4 DEF CredentialInv

(* What a request retires is used by nobody any more.                      *)
LEMMA RetiredApart ==
    ASSUME NEW kind \in {"enroll", "unenroll", "update"}, NEW old \in Config, NEW new \in Config,
           NEW created, Apart(created, old), Distinct(old), From(new, old, created),
           IdentityOf(kind, new, {}, created)
    PROVE  Apart(Retired(kind, old, new) \ {0}, new)
<1> USE DEF Slots
<1>1. CASE kind = "enroll"
  <2>1. Retired(kind, old, new) = {old.token, old.key} \cup
             {old.secrets[v] : v \in {w \in Variables : new.secrets[w] # old.secrets[w]}}
    BY <1>1 DEF Retired
  <2>2. ASSUME NEW r \in Retired(kind, old, new) \ {0}, NEW s \in Slots, Slot(new, s) = r
        PROVE  FALSE
    <3>1. PICK t \in Slots : Slot(old, t) = r /\ (t \in Variables => Slot(new, t) # Slot(old, t))
      <4>1. CASE r \in {old.token, old.key}
        <5>1. PICK t \in {"token", "key"} : Slot(old, t) = r
          BY <4>1, SlotReferences
        <5> QED
          BY <5>1, DeviceAssumption
      <4>2. CASE r \notin {old.token, old.key}
        <5>1. PICK v \in Variables : new.secrets[v] # old.secrets[v] /\ old.secrets[v] = r
          <6>1. r \in {old.secrets[v] : v \in {w \in Variables : new.secrets[w] # old.secrets[w]}}
            BY <2>1, <2>2, <4>2
          <6> QED
            BY <6>1
        <5>2. Slot(old, v) = old.secrets[v] /\ Slot(new, v) = new.secrets[v]
          BY SlotReferences
        <5>3. v \in Slots
          OBVIOUS
        <5> QED
          BY <5>1, <5>2, <5>3
      <4> QED
        BY <4>1, <4>2
    <3>2. r \notin created /\ Slot(new, s) = Slot(old, s)
      BY <2>2, <3>1 DEF Apart, From
    <3>3. s = t
      BY <2>2, <3>1, <3>2 DEF Distinct
    <3>4. s \in {"token", "key"}
      BY <3>1, <3>2, <3>3
    <3> QED
      BY <1>1, <2>2, <3>2, <3>4 DEF IdentityOf
  <2> QED
    BY <2>2 DEF Apart
<1>2. CASE kind = "unenroll"
  <2>1. Retired(kind, old, new) = {old.token, old.key}
    BY <1>2 DEF Retired
  <2>2. ASSUME NEW r \in Retired(kind, old, new) \ {0}, NEW s \in Slots, Slot(new, s) = r
        PROVE  FALSE
    <3>1. PICK t \in {"token", "key"} : Slot(old, t) = r
      BY <2>1, <2>2, SlotReferences
    <3>2. Slot(new, s) = Slot(old, s)
      BY <2>2, <3>1 DEF Apart, From
    <3>3. s = t
      BY <2>2, <3>1, <3>2 DEF Distinct
    <3> QED
      BY <1>2, <2>2, <3>1, <3>3 DEF IdentityOf
  <2> QED
    BY <2>2 DEF Apart
<1>3. CASE kind = "update"
  <2>1. Retired(kind, old, new) = Secrets(old) \ Secrets(new)
    BY <1>3 DEF Retired
  <2>2. ASSUME NEW r \in Retired(kind, old, new) \ {0}, NEW s \in Slots, Slot(new, s) = r
        PROVE  FALSE
    <3>1. PICK t \in Variables : Slot(old, t) = r
      BY <2>1, <2>2, SlotReferences
    <3>2. Slot(new, s) = Slot(old, s)
      BY <2>2, <3>1, Zenon DEF Apart, From
    <3>3. s = t
      BY <2>2, <3>1, <3>2, Zenon DEF Distinct
    <3> QED
      BY <2>1, <2>2, <3>1, <3>3, SlotReferences
  <2> QED
    BY <2>2 DEF Apart
<1> QED
  BY <1>1, <1>2, <1>3

(* The candidate comes into force, and what it supersedes is removed.      *)
LEMMA CredentialMemory ==
    ASSUME CredentialInv, TypeOK', Memory \/ Retire
    PROVE  CredentialInv'
<1>1. CASE Memory
  <2>1. admin.pc = "memory" /\ up /\ mem' = admin.candidate /\ UNCHANGED <<up, disk, store, task>>
    BY <1>1 DEF Memory
  <2>2. admin \in Request /\ mem \in Config /\ admin.candidate \in Config
    BY DEF CredentialInv, TypeOK, Request
  <2>3. Retired(admin.kind, mem, admin.candidate) \ {0} \in SUBSET Nat
        /\ admin.kind \in {"enroll", "unenroll", "update"}
    BY <2>1, <2>2 DEF Retired, Request, Config, Secrets, CredentialInv, TypeOK
  <2>4. admin'.kind = admin.kind /\ admin'.pc = "retire"
        /\ admin'.retired = Retired(admin.kind, mem, admin.candidate) \ {0}
    BY <1>1, <2>2, <2>3 DEF Memory, Request
  <2>5. /\ Held(admin.candidate, store) /\ Distinct(admin.candidate) /\ disk = admin.candidate
        /\ From(admin.candidate, mem, admin.created)
        /\ IdentityOf(admin.kind, admin.candidate, {}, admin.created)
        /\ Apart(admin.created, mem) /\ Distinct(mem)
        /\ admin.kind = "unenroll" => admin.candidate.secrets = mem.secrets
    BY <2>1 DEF CredentialInv, ConfigInv, CandidateInv, RequestInv, Open, Saved
  <2>6. Apart(admin'.retired, mem')
    BY <2>1, <2>2, <2>3, <2>4, <2>5, RetiredApart
  <2>7. TaskInv'
    <3>1. CASE admin.kind = "unenroll"
      <4>1. Secrets(mem)' = Secrets(mem)
        BY <2>1, <2>5, <3>1 DEF Secrets
      <4> QED
        BY <2>1, <2>4, <3>1, <4>1
           DEF CredentialInv, TaskInv, ManagementOperationActive, StateGuard
    <3>2. CASE admin.kind # "unenroll"
      <4>1. task.pc = "idle"
        BY <2>1, <2>3, <3>2 DEF CredentialInv, TaskInv, ManagementOperationActive, StateGuard
      <4> QED
        BY <2>1, <4>1 DEF CredentialInv, TaskInv
    <3> QED
      BY <3>1, <3>2
  <2> QED
    BY <2>1, <2>4, <2>5, <2>6, <2>7 DEF CredentialInv, ConfigInv, CandidateInv, RequestInv, Open, Saved
<1>2. CASE Retire
  <2>1. admin.pc = "retire" /\ up /\ UNCHANGED <<up, disk, mem, task>>
    BY <1>2 DEF Retire
  <2>2. Held(mem, store) /\ Apart(admin.retired, mem)
    BY <2>1 DEF CredentialInv, ConfigInv, RequestInv
  <2>3. CASE admin' = AdminIdle /\ store' = store
    BY <2>1, <2>2, <2>3, CredentialIdle DEF Saved
  <2>4. ASSUME NEW r \in admin.retired, store \ {r} \subseteq store',
               admin' = [admin EXCEPT !.retired = @ \ {r}]
        PROVE  CredentialInv'
    <3>1. admin'.kind = admin.kind /\ admin'.pc = "retire" /\ admin'.retired = admin.retired \ {r}
      BY <2>1, <2>4 DEF CredentialInv, TypeOK, Request
    <3>2. Held(mem, store') /\ Apart(admin.retired \ {r}, mem)
      BY <2>2, <2>4 DEF Held, Apart
    <3> QED
      BY <2>1, <3>1, <3>2
         DEF CredentialInv, ConfigInv, TaskInv, CandidateInv, RequestInv, Open, Saved,
             ManagementOperationActive, StateGuard
  <2> QED
    BY <1>2, <2>3, <2>4 DEF Retire
<1> QED
  BY <1>1, <1>2

(* The credential invariant is inductive.                                  *)
LEMMA CredentialStep == CredentialInv /\ [Next]_vars => CredentialInv'
<1> SUFFICES ASSUME CredentialInv, [Next]_vars PROVE CredentialInv'
  OBVIOUS
<1>1. TypeOK'
  BY ShapeStep DEF CredentialInv
<1>2. CASE Administration
  BY <1>1, <1>2, CredentialEnroll, CredentialRequests, CredentialPut, CredentialFailure,
     CredentialSave, CredentialMemory DEF Administration, Slots
<1>3. CASE Management_worker
  <2>1. UNCHANGED <<up, disk, mem, store, task, admin>>
    BY <1>3 DEF Management_worker, ReloadConfig, ReadCache, FetchBest, FetchFails, Refresh,
                SaveCache, SaveCacheFails, Apply, others
  <2> QED
    BY <1>1, <2>1, CredentialFrame
<1>4. CASE \E s \in Sources : Publish(s)
  BY <1>1, <1>4, CredentialFrame DEF Publish
<1>5. CASE UNCHANGED vars
  BY <1>1, <1>5, CredentialFrame DEF vars
<1> QED
  BY <1>1, <1>2, <1>3, <1>4, <1>5, CredentialTask, CredentialCrash DEF Next

(* Wherever an enrollment, an unenrollment or a repository update fails or *)
(* the service stops, no configuration on disk, in memory or in the hands  *)
(* of a running task names a credential that was removed.                  *)
THEOREM ReferencesCorrect == Spec => []NoDanglingReference
<1>1. CredentialInv => NoDanglingReference
  <2> SUFFICES ASSUME CredentialInv PROVE NoDanglingReference
    OBVIOUS
  <2>1. Held(disk, store) /\ Held(mem, store) /\ disk \in Config /\ mem \in Config
    BY DEF CredentialInv, TypeOK, ConfigInv, CandidateInv, Open, Saved
  <2>2. Secrets(mem) \subseteq References(mem)
    BY DEF Secrets, References
  <2> QED
    BY <2>1, <2>2, HeldReferences DEF NoDanglingReference, CredentialInv, TaskInv
<1> QED
  BY <1>1, CredentialInit, CredentialStep, PTL DEF Spec

-----------------------------------------------------------------------------
(* The policy invariant                                                    *)

(* It holds at the first start.                                            *)
LEMMA PolicyInit == Init => PolicyInv
BY Defaults DEF Init, PolicyInv, Open

(* The management thread keeps it: a policy it carries names the source it *)
(* was fetched from, and is applied only while that is the current one.    *)
LEMMA PolicyManagement ==
    ASSUME TypeOK, PolicyInv, Management_worker
    PROVE  PolicyInv'
<1>1. UNCHANGED <<mem, admin>>
  BY DEF Management_worker, ReloadConfig, ReadCache, FetchBest, FetchFails, Refresh,
         SaveCache, SaveCacheFails, Apply, others
<1>2. worker \in Thread /\ mem \in Config /\ worker.loaded \in PolicyRecord
  BY DEF TypeOK, Thread
<1>3. policy'.source \in {mem.source, NoSource}
  <2>1. CASE policy' = policy
    BY <2>1 DEF PolicyInv
  <2>2. CASE policy' # policy
    <3>1. Apply /\ SourceIsCurrent /\ policy' = worker.loaded
      BY <2>2 DEF Management_worker, ReloadConfig, ReadCache, FetchBest, FetchFails, Refresh,
                  SaveCache, SaveCacheFails, Apply, others
    <3>2. mem.source = worker.local.source
      BY <1>2, <3>1, RecordShapes DEF SourceIsCurrent
    <3> QED
      BY <3>1, <3>2 DEF PolicyInv, Apply
  <2> QED
    BY <2>1, <2>2
<1>4. worker'.pc \in {"save", "apply"} => worker'.loaded.source = worker'.local.source
  <2>1. ASSUME NEW n \in Nat, NEW m \in ManagementRecord, Sleep(n, m) PROVE worker'.pc = "top"
    BY <2>1, SleepShape
  <2>2. ASSUME NEW n, NEW pc, worker' = [worker EXCEPT !.pc = pc, !.loaded = Policy(worker.local.source, n)]
        PROVE  worker'.loaded.source = worker'.local.source
    BY <1>2, <2>2 DEF Thread, Policy
  <2>3. worker.sequence \in Nat /\ worker.local \in ManagementRecord
        /\ worker.identity \in ManagementRecord /\ worker.loaded.sequence \in Nat
    BY <1>2 DEF Thread, PolicyRecord
  <2>4. CASE ReloadConfig \/ ReadCache
    <3>1. worker'.pc \in {"top", "refresh", "activate", "fetch"}
      BY <1>2, <2>4, Defaults, ZenonT(30) DEF ReloadConfig, ReadCache, Thread
    <3> QED
      BY <3>1
  <2>5. CASE FetchBest
    BY <2>1, <2>2, <2>3, <2>5, Zenon DEF FetchBest
  <2>6. CASE FetchFails
    BY <2>1, <2>2, <2>3, <2>6, ZenonT(30) DEF FetchFails
  <2>7. CASE Refresh
    BY <2>1, <2>2, <2>3, <2>7, Zenon DEF Refresh
  <2>8. CASE SaveCache
    BY <1>2, <2>8 DEF SaveCache, PolicyInv, Thread
  <2>9. CASE SaveCacheFails
    BY <2>1, <2>3, <2>9 DEF SaveCacheFails
  <2>10. CASE Apply
    BY <2>1, <2>3, <2>10 DEF Apply
  <2> QED
    BY <2>4, <2>5, <2>6, <2>7, <2>8, <2>9, <2>10 DEF Management_worker
<1> QED
  BY <1>1, <1>3, <1>4 DEF PolicyInv, Open

(* A request keeps it: memory changes source and policy together.          *)
LEMMA PolicyAdministration ==
    ASSUME CredentialInv, PolicyInv, Administration
    PROVE  PolicyInv'
<1>1. TypeOK /\ admin \in Request /\ mem \in Config
  BY DEF CredentialInv, TypeOK
<1>2. worker' = worker
  BY ZenonT(30)
     DEF Administration, Enroll, EnrollmentFails, EnrollmentAnswer, Unenroll,
         UpdateRepository, Put, PutFails, Save, SaveFails, Cleanup, UpdateCache, Memory, Retire
<1>3. ASSUME UNCHANGED <<mem, policy>>,
             admin'.pc \notin {"put", "save", "cache", "memory"}
             \/ /\ Open /\ admin'.kind = admin.kind /\ admin'.policy = admin.policy
                /\ admin'.candidate.source = admin.candidate.source
      PROVE  PolicyInv'
  BY <1>2, <1>3 DEF PolicyInv, Open
<1>4. CASE Enroll
  <2>1. admin'.pc = "network"
    BY <1>1, <1>4, EnterShape DEF Enroll
  <2> QED
    BY <1>3, <1>4, <2>1 DEF Enroll
<1>5. CASE EnrollmentFails \/ Cleanup
  BY <1>3, <1>5, Defaults DEF EnrollmentFails, Cleanup
<1>6. ASSUME NEW s \in Sources, NEW vs \in SUBSET Variables, EnrollmentAnswer(s, vs)
      PROVE  PolicyInv'
  <2>1. /\ admin'.kind = "enroll" /\ admin'.candidate = [mem EXCEPT !.source = s]
        /\ admin'.policy = Policy(s, server[s])
    BY <1>1, <1>6 DEF EnrollmentAnswer, Request
  <2>2. [mem EXCEPT !.source = s].source = s /\ Policy(s, server[s]).source = s
    BY <1>1 DEF Config, Policy
  <2> QED
    BY <1>2, <1>6, <2>1, <2>2, ZenonT(30) DEF EnrollmentAnswer, PolicyInv
<1>7. CASE Unenroll
  <2>1. [mem EXCEPT !.source = NoSource, !.token = 0, !.key = 0] \in Config
    BY <1>1, Zenon DEF Config, MaybeSource
  <2>2. admin'.kind = "unenroll"
    BY <1>7, <2>1, EnterShape DEF Unenroll
  <2> QED
    BY <1>2, <1>7, <2>2 DEF Unenroll, PolicyInv
<1>8. ASSUME NEW set \in SUBSET Variables, NEW removed \in SUBSET Variables,
             UpdateRepository(set, removed)
      PROVE  PolicyInv'
  <2> DEFINE c == [mem EXCEPT !.secrets = [v \in Variables |-> IF v \in removed THEN 0 ELSE @[v]]]
             pc == IF set = {} THEN "save" ELSE "put"
  <2>1. c \in Config /\ c.source = mem.source
    BY <1>1 DEF Config
  <2>2. Enter("update", pc, c, set) /\ pc \in {"put", "save"} /\ UNCHANGED <<mem, policy>>
    BY <1>8 DEF UpdateRepository
  <2>3. set \in SUBSET Slots
    BY DEF Slots
  <2> HIDE DEF c, pc
  <2>4. admin'.kind = "update" /\ admin'.candidate = c
    BY <2>1, <2>2, <2>3, EnterShape
  <2> QED
    BY <1>2, <2>1, <2>2, <2>4 DEF PolicyInv
<1>9. ASSUME NEW slot \in Slots, Put(slot) PROVE PolicyInv'
  <2>1. admin.candidate \in Config /\ issued + 1 \in Nat
    BY <1>1 DEF TypeOK, Request
  <2>2. admin'.candidate.source = admin.candidate.source
    BY <1>1, <1>9, <2>1, PutShape, WithReferenceShape
  <2>3. admin'.kind = admin.kind /\ admin'.policy = admin.policy
    BY <1>1, <1>9, PutShape
  <2> QED
    BY <1>3, <1>9, <2>2, <2>3 DEF Put, Open
<1>10. CASE PutFails \/ SaveFails
  <2>1. admin'.pc = "cleanup"
    BY <1>1, <1>10 DEF PutFails, SaveFails, Request
  <2> QED
    BY <1>3, <1>10, <2>1 DEF PutFails, SaveFails
<1>11. CASE Save \/ UpdateCache
  <2>1. admin'.kind = admin.kind /\ admin'.policy = admin.policy
        /\ admin'.candidate = admin.candidate
    BY <1>1, <1>11 DEF Save, UpdateCache, Request
  <2> QED
    BY <1>3, <1>11, <2>1 DEF Save, UpdateCache, Open
<1>12. CASE Memory
  <2>1. admin'.pc = "retire"
    BY <1>1, <1>12 DEF Memory, Request
  <2>2. admin.kind \in {"enroll", "unenroll", "update"}
    BY <1>1, <1>12 DEF Memory, TypeOK, Request
  <2>3. policy'.source \in {mem'.source, NoSource}
    BY <1>12, <2>2, Defaults DEF Memory, PolicyInv, Open
  <2> QED
    BY <1>2, <2>1, <2>3 DEF PolicyInv, Open
<1>13. CASE Retire
  <2>1. admin'.pc \in {"retire", "idle"}
    BY <1>1, <1>13, Defaults DEF Retire, Request
  <2> QED
    BY <1>3, <1>13, <2>1 DEF Retire
<1> QED
  BY <1>4, <1>5, <1>6, <1>7, <1>8, <1>9, <1>10, <1>11, <1>12, <1>13 DEF Administration, Slots

(* Whatever the management thread fetched and however long it took, the    *)
(* policy in force is one of the source the device is enrolled with.       *)
THEOREM PolicyCorrect == Spec => []PolicyOfCurrentSource
<1>1. CredentialInv /\ PolicyInv /\ [Next]_vars => PolicyInv'
  <2> SUFFICES ASSUME CredentialInv, PolicyInv, [Next]_vars PROVE PolicyInv'
    OBVIOUS
  <2>1. ASSUME UNCHANGED <<mem, policy, worker, admin>> PROVE PolicyInv'
    BY <2>1 DEF PolicyInv, Open
  <2>2. CASE StartTask \/ ReadConfig \/ EndTask \/ (\E s \in Sources : Publish(s)) \/ UNCHANGED vars
    BY <2>1, <2>2 DEF StartTask, ReadConfig, EndTask, Publish, vars
  <2>3. CASE Crash
    BY <2>3, Defaults DEF Crash, PolicyInv, Open
  <2>4. CASE Start
    <3>1. admin' = admin /\ admin.pc = "idle" /\ worker' = worker /\ mem' = disk
      BY <2>4 DEF Start, CredentialInv, RequestInv
    <3>2. policy'.source \in {disk.source, NoSource}
      BY <2>4, Defaults DEF Start, Policy
    <3> QED
      BY <3>1, <3>2 DEF PolicyInv, Open
  <2> QED
    BY <2>2, <2>3, <2>4, PolicyManagement, PolicyAdministration DEF Next, CredentialInv
<1>2. PolicyInv => PolicyOfCurrentSource
  BY DEF PolicyInv, PolicyOfCurrentSource
<1> QED
  BY <1>1, <1>2, PolicyInit, CredentialInit, CredentialStep, PTL DEF Spec

-----------------------------------------------------------------------------
(* As long as nothing fails the credential store holds what the            *)
(* configuration names, and during a request also the credentials it has   *)
(* written or is about to remove.  The argument is that every credential a *)
(* request wrote is in a slot it will not write again, and that Retired    *)
(* names every slot of the old configuration that the new one gave up.     *)

Placed(created, c, todo) == \A r \in created : \E s \in Slots \ todo : Slot(c, s) = r

LeakInv ==
    /\ faults \in Nat
    /\ faults = 0 =>
        /\ admin.pc # "cleanup"
        /\ admin.pc \in {"idle", "network"} => store = References(mem)
        /\ Open => /\ store = References(mem) \cup admin.created
                   /\ Placed(admin.created, admin.candidate, admin.todo)
                   /\ admin.kind = "update" =>
                        /\ admin.todo \subseteq Variables
                        /\ admin.candidate.token = mem.token /\ admin.candidate.key = mem.key
        /\ admin.pc = "retire" => store = References(mem) \cup admin.retired

(* A step that leaves the configuration, the credentials and the request   *)
(* alone, or counts a fault, keeps it.                                     *)
LEMMA LeakFrame ==
    ASSUME LeakInv,
           UNCHANGED <<mem, store, admin, faults>> \/ Fault
    PROVE  LeakInv'
BY DEF LeakInv, Open, Fault

(* Nothing given up is forgotten: the old references and the new ones are  *)
(* those of the candidate and the retired ones.                            *)
LEMMA RetiredComplete ==
    ASSUME NEW kind \in {"enroll", "unenroll", "update"}, NEW old \in Config, NEW new \in Config,
           NEW created \in SUBSET Nat, 0 \notin created,
           From(new, old, created), Placed(created, new, {}),
           kind = "unenroll" => new.secrets = old.secrets,
           kind = "unenroll" => new.token = 0 /\ new.key = 0,
           kind = "update" => new.token = old.token /\ new.key = old.key
    PROVE  References(old) \cup created = References(new) \cup (Retired(kind, old, new) \ {0})
<1> USE DEF Slots
<1> DEFINE retired == Retired(kind, old, new) \ {0}
<1>1. created \subseteq References(new)
  BY SlotReferences DEF Placed
<1>2. References(new) \subseteq References(old) \cup created
  BY SlotReferences DEF From
<1>3. retired \subseteq References(old)
  <2>1. kind = "enroll" => retired \subseteq References(old)
    BY DEF Retired, References, Secrets
  <2>2. kind = "unenroll" => retired \subseteq References(old)
    BY DEF Retired, References
  <2>3. kind = "update" => retired \subseteq References(old)
    BY DEF Retired, References, Secrets
  <2> QED
    BY <2>1, <2>2, <2>3
<1>4. ASSUME NEW r \in References(old) PROVE r \in References(new) \cup retired
  <2>1. r # 0 /\ (r = old.token \/ r = old.key \/ \E v \in Variables : r = old.secrets[v])
    BY <1>4 DEF References, Secrets
  <2>2. CASE r = old.token \/ r = old.key
    BY <2>1, <2>2 DEF Retired, References
  <2>3. ASSUME NEW v \in Variables, r = old.secrets[v]
        PROVE  r \in References(new) \cup retired
    <3>1. new.secrets[v] = r => r \in References(new)
      BY <2>1 DEF References, Secrets
    <3>2. CASE kind = "enroll"
      BY <2>1, <2>3, <3>1, <3>2 DEF Retired
    <3>3. CASE kind = "unenroll"
      BY <2>3, <3>1, <3>3
    <3>4. CASE kind = "update"
      BY <2>1, <2>3, <3>4 DEF Retired, References, Secrets
    <3> QED
      BY <3>2, <3>3, <3>4
  <2> QED
    BY <2>1, <2>2, <2>3
<1> QED
  BY <1>1, <1>2, <1>3, <1>4, Zenon

(* Requests keep it.                                                       *)
LEMMA LeakAdministration ==
    ASSUME CredentialInv, LeakInv, Administration
    PROVE  LeakInv'
<1> USE DEF LeakInv
<1>0. TypeOK /\ admin \in Request /\ mem \in Config /\ admin.candidate \in Config
  BY DEF CredentialInv, TypeOK, Request
<1>1. CASE Enroll
  <2>1. Enter("enroll", "network", mem, {})
    BY <1>1, Zenon DEF Enroll
  <2>2. admin'.pc = "network"
    BY <1>0, <2>1, EnterShape
  <2> QED
    BY <1>1, <2>2, ZenonT(30) DEF Enroll, Open
<1>2. CASE EnrollmentFails
  BY <1>2, Defaults DEF EnrollmentFails, Open
<1>3. ASSUME NEW s \in Sources, NEW vs \in SUBSET Variables, EnrollmentAnswer(s, vs)
      PROVE  LeakInv'
  <2>1. admin'.kind = "enroll" /\ admin'.pc = "put" /\ admin'.created = admin.created
    BY <1>0, <1>3 DEF EnrollmentAnswer, Request
  <2>2. admin.created = {} /\ admin.pc = "network"
    BY <1>3 DEF EnrollmentAnswer, CredentialInv, RequestInv
  <2> QED
    BY <1>3, <2>1, <2>2 DEF EnrollmentAnswer, Open, Placed
<1>4. CASE Unenroll
  <2>1. [mem EXCEPT !.source = NoSource, !.token = 0, !.key = 0] \in Config
    BY <1>0, Zenon DEF Config, MaybeSource
  <2>2. admin'.kind = "unenroll" /\ admin'.pc = "save" /\ admin'.created = {}
    BY <1>4, <2>1, EnterShape DEF Unenroll
  <2> QED
    BY <1>4, <2>2 DEF Unenroll, Open, Placed
<1>5. ASSUME NEW set \in SUBSET Variables, NEW removed \in SUBSET Variables,
             UpdateRepository(set, removed)
      PROVE  LeakInv'
  <2> DEFINE c == [mem EXCEPT !.secrets = [v \in Variables |-> IF v \in removed THEN 0 ELSE @[v]]]
             pc == IF set = {} THEN "save" ELSE "put"
  <2>1. c \in Config /\ c.token = mem.token /\ c.key = mem.key
    BY <1>0 DEF Config
  <2>2. Enter("update", pc, c, set) /\ pc \in {"put", "save"} /\ admin.pc = "idle"
        /\ UNCHANGED <<mem, store, faults>>
    BY <1>5 DEF UpdateRepository
  <2>3. set \in SUBSET Slots
    BY DEF Slots
  <2> HIDE DEF c, pc
  <2>4. /\ admin'.candidate = c /\ admin'.pc \in {"put", "save"}
        /\ admin'.created = {} /\ admin'.todo = set
    BY <2>1, <2>2, <2>3, EnterShape
  <2> QED
    BY <2>1, <2>2, <2>4, Zenon DEF Open, Placed
<1>6. ASSUME NEW slot \in Slots, Put(slot) PROVE LeakInv'
  <2> DEFINE r == issued + 1
             d == WithReference(admin.candidate, slot, r)
  <2>1. r \in Nat
    BY <1>0 DEF TypeOK
  <2>2. /\ admin'.pc \in {"put", "save"} /\ admin'.kind = admin.kind /\ admin'.candidate = d
        /\ admin'.created = admin.created \cup {r} /\ admin'.todo = admin.todo \ {slot}
    BY <1>0, <1>6, PutShape
  <2>3. /\ d.token = IF slot = "token" THEN r ELSE admin.candidate.token
        /\ d.key = IF slot = "key" THEN r ELSE admin.candidate.key
        /\ \A s \in Slots : Slot(d, s) = IF s = slot THEN r ELSE Slot(admin.candidate, s)
    <3>1. /\ d.token = IF slot = "token" THEN r ELSE admin.candidate.token
          /\ d.key = IF slot = "key" THEN r ELSE admin.candidate.key
      BY <1>0, <2>1, WithReferenceShape
    <3> QED
      BY <1>0, <2>1, <3>1, SlotWithReference
  <2>4. slot \in admin.todo /\ admin.pc = "put" /\ UNCHANGED <<mem, faults>>
        /\ store' = store \cup {r}
    BY <1>6 DEF Put, NextSlots
  <2> HIDE DEF r, d
  <2>5. Placed(admin.created, admin.candidate, admin.todo)
        => Placed(admin.created \cup {r}, d, admin.todo \ {slot})
    BY <2>3, <2>4 DEF Placed
  <2>6. admin.kind = "update" /\ admin.todo \subseteq Variables => slot \notin {"token", "key"}
    BY <2>4, DeviceAssumption
  <2> QED
    BY <2>2, <2>3, <2>4, <2>5, <2>6 DEF Open
<1>7. CASE PutFails \/ SaveFails
  BY <1>7, LeakFrame DEF PutFails, SaveFails
<1>8. CASE Cleanup
  <2>1. faults # 0
    BY <1>8, Zenon DEF Cleanup
  <2>2. faults' \in {faults, faults + 1}
    BY <1>8, Zenon DEF Cleanup, Fault
  <2>3. faults' \in Nat /\ faults' # 0
    BY <2>1, <2>2
  <2> QED
    BY <2>3, Zenon
<1>9. CASE Save \/ UpdateCache
  <2>1. /\ admin'.kind = admin.kind /\ admin'.pc \in {"cache", "memory"}
        /\ admin'.created = admin.created /\ admin'.candidate = admin.candidate
        /\ admin'.todo = admin.todo
    BY <1>0, <1>9 DEF Save, UpdateCache, Request
  <2> QED
    BY <1>9, <2>1 DEF Save, UpdateCache, Open, Fault
<1>10. CASE Memory
  <2> DEFINE retired == Retired(admin.kind, mem, admin.candidate) \ {0}
  <2>1. admin.pc = "memory" /\ mem' = admin.candidate /\ UNCHANGED <<store, faults>>
    BY <1>10 DEF Memory
  <2>2. retired \in SUBSET Nat /\ admin.kind \in {"enroll", "unenroll", "update"}
    BY <1>0, <2>1 DEF Retired, Request, Config, Secrets, TypeOK
  <2>3. admin'.pc = "retire" /\ admin'.retired = retired
    BY <1>0, <1>10, <2>2 DEF Memory, Request
  <2>4. /\ From(admin.candidate, mem, admin.created) /\ admin.todo = {}
        /\ admin.kind = "unenroll" => admin.candidate.secrets = mem.secrets
        /\ IdentityOf(admin.kind, admin.candidate, admin.todo, admin.created)
    BY <2>1 DEF CredentialInv, CandidateInv, Open
  <2>5. admin.kind = "unenroll" => admin.candidate.token = 0 /\ admin.candidate.key = 0
    BY <1>0, <2>4, SlotReferences DEF IdentityOf
  <2>6. ASSUME faults = 0 PROVE store = References(mem') \cup retired
    <3>1. store = References(mem) \cup admin.created
          /\ Placed(admin.created, admin.candidate, {})
          /\ (admin.kind = "update" =>
                 admin.candidate.token = mem.token /\ admin.candidate.key = mem.key)
      BY <2>1, <2>4, <2>6 DEF Open
    <3>2. 0 \notin admin.created /\ admin.created \in SUBSET Nat
      BY <1>0, <3>1 DEF TypeOK, Request
    <3> QED
      BY <1>0, <2>1, <2>2, <2>4, <2>5, <3>1, <3>2, RetiredComplete
  <2> HIDE DEF retired
  <2> QED
    BY <2>1, <2>3, <2>6 DEF Open
<1>11. CASE Retire
  <2>1. admin.pc = "retire" /\ mem' = mem
    BY <1>11 DEF Retire
  <2>2. CASE admin.retired = {} /\ admin' = AdminIdle /\ UNCHANGED <<store, faults>>
    BY <2>1, <2>2, Defaults DEF Open
  <2>3. ASSUME NEW r \in admin.retired, store' = store \ {r}, UNCHANGED faults,
               admin' = [admin EXCEPT !.retired = @ \ {r}]
        PROVE  LeakInv'
    <3>1. admin'.pc = "retire" /\ admin'.retired = admin.retired \ {r}
      BY <1>0, <2>1, <2>3 DEF Request
    <3>2. r \notin References(mem)
      BY <1>0, <2>1, SlotReferences DEF CredentialInv, RequestInv, Apart
    <3> QED
      BY <2>1, <2>3, <3>1, <3>2 DEF Open
  <2> QED
    BY <1>11, <2>2, <2>3, LeakFrame DEF Retire
<1> QED
  BY <1>1, <1>2, <1>3, <1>4, <1>5, <1>6, <1>7, <1>8, <1>9, <1>10, <1>11,
     ZenonT(30) DEF Administration, Slots

(* As long as nothing failed, every credential file is named by the        *)
(* configuration when no request is being served.                          *)
THEOREM LeaksCorrect == Spec => []NothingLeaks
<1>1. Init => LeakInv
  <2> SUFFICES ASSUME Init PROVE LeakInv
    OBVIOUS
  <2>1. References(mem) = Secrets(disk)
    <3>1. mem = disk /\ mem.token = 0 /\ mem.key = 0
      <4>1. PICK secrets : disk = [source |-> NoSource, token |-> 0, key |-> 0, secrets |-> secrets]
        BY Zenon DEF Init
      <4>2. disk.token = 0 /\ disk.key = 0
        BY <4>1, Zenon
      <4> QED
        BY <4>2, Zenon DEF Init
    <3>2. ({mem.token, mem.key} \cup Secrets(mem)) \ {0} = Secrets(mem)
      BY <3>1 DEF Secrets
    <3> QED
      BY <3>1, <3>2, Zenon DEF References
  <2> QED
    BY <2>1, Defaults DEF Init, LeakInv, Open
<1>2. CredentialInv /\ LeakInv /\ [Next]_vars => LeakInv'
  <2> SUFFICES ASSUME CredentialInv, LeakInv, [Next]_vars PROVE LeakInv'
    OBVIOUS
  <2>1. CASE Management_worker
    BY <2>1, LeakFrame
       DEF Management_worker, ReloadConfig, ReadCache, FetchBest, FetchFails, Refresh,
           SaveCache, SaveCacheFails, Apply, others
  <2>2. CASE StartTask \/ ReadConfig \/ EndTask \/ (\E s \in Sources : Publish(s)) \/ UNCHANGED vars
    BY <2>2, LeakFrame DEF StartTask, ReadConfig, EndTask, Publish, vars
  <2>3. CASE Crash
    BY <2>3, LeakFrame DEF Crash
  <2>4. CASE Start
    <3>1. mem' = mem /\ UNCHANGED <<store, admin>>
      BY <2>4, ZenonT(30) DEF Start, CredentialInv, ConfigInv, RequestInv, Saved
    <3>2. UNCHANGED faults \/ Fault
      BY <2>4, ZenonT(30) DEF Start
    <3> QED
      BY <3>1, <3>2, LeakFrame
  <2> QED
    BY <2>1, <2>2, <2>3, <2>4, LeakAdministration DEF Next
<1>3. CredentialInv /\ LeakInv => NothingLeaks
  BY DEF LeakInv, NothingLeaks, CredentialInv, ConfigInv, Saved
<1> QED
  BY <1>1, <1>2, <1>3, CredentialInit, CredentialStep, PTL DEF Spec
=============================================================================
