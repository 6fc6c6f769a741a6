---------------------------- MODULE RecordsProofs ----------------------------
(***************************************************************************)
(* Proofs about what a finished backup leaves behind, for every limit and  *)
(* every number of runs, entries, archives and failed items.  The history: *)
(* the migrations never leave a schema that cannot be migrated, and the    *)
(* table holds the newest runs.  The failure details: every item that was  *)
(* read is stored or counted, which is shown for one pass over any list of *)
(* items and then for the passes that push, merge and normalize make.  The *)
(* log: what can be read of it is in order and lost only from its old end, *)
(* but for what a broken write took with it; which is shown file by file,  *)
(* as a rotation moves them.                                               *)
(***************************************************************************)
EXTENDS Records, TLAPS, FiniteSetTheorems, WellFoundedInduction

(* The provers that try a leaf which names none, in this order.            *)
USE SMT, Zenon, Z3T(30)

(* The runs have distinct ids that were handed out in order. *)
RunsInv ==
    /\ lastId \in Nat
    /\ IsFiniteSet(rows)
    /\ \A r \in ever : r.id \in 1 .. lastId /\ r.completed \in Nat
    /\ \A r, q \in ever : r.id = q.id => r = q
    /\ NewestRunsKept

-----------------------------------------------------------------------------
(* The schema                                                              *)

Schemas == [version : Nat, file : BOOLEAN, runs : BOOLEAN, omitted : BOOLEAN]

(* The database can always be brought to the current schema: neither a     *)
(* stop between two steps nor a second connection leaves a version without *)
(* what its migration needs (initialize_schema, migrate_legacy_schema).    *)
THEOREM SchemaCorrect == Spec => []SchemaNeverStuck
<1> DEFINE Inv == schema \in Schemas /\ SchemaNeverStuck
<1>1. Init => Inv
  <2>1. Init => schema \in {NoFile, Release(0, FALSE), Release(0, TRUE), Release(1, FALSE),
                            Release(2, TRUE), Release(3, TRUE)}
    BY ZenonT(30) DEF Init, HInit, Current
  <2>2. ASSUME NEW s \in {NoFile, Release(0, FALSE), Release(0, TRUE), Release(1, FALSE),
                         Release(2, TRUE), Release(3, TRUE)}
        PROVE  /\ s \in Schemas
               /\ s.version = 1 => s.runs /\ ~s.omitted
               /\ s.version = 2 => s.runs /\ s.omitted
    <3>1. CASE s = NoFile
      <4>1. s.version = 0
        BY <3>1 DEF NoFile
      <4>2. s \in Schemas
        BY <3>1 DEF NoFile, Schemas
      <4> QED
        BY <4>1, <4>2
    <3>2. CASE s = Release(0, FALSE)
      <4>1. s.version = 0
        BY <3>2 DEF Release
      <4>2. s \in Schemas
        BY <3>2 DEF Release, Schemas
      <4> QED
        BY <4>1, <4>2
    <3>3. CASE s = Release(0, TRUE)
      <4>1. s.version = 0
        BY <3>3 DEF Release
      <4>2. s \in Schemas
        BY <3>3 DEF Release, Schemas
      <4> QED
        BY <4>1, <4>2
    <3>4. CASE s = Release(1, FALSE)
      <4>1. s.version = 1 /\ s.runs /\ ~s.omitted
        BY <3>4 DEF Release
      <4>2. s \in Schemas
        BY <3>4 DEF Release, Schemas
      <4> QED
        BY <4>1, <4>2
    <3>5. CASE s = Release(2, TRUE)
      <4>1. s.version = 2 /\ s.runs /\ s.omitted
        BY <3>5 DEF Release
      <4>2. s \in Schemas
        BY <3>5 DEF Release, Schemas
      <4> QED
        BY <4>1, <4>2
    <3>6. CASE s = Release(3, TRUE)
      <4>1. s.version = 3
        BY <3>6 DEF Release
      <4>2. s \in Schemas
        BY <3>6 DEF Release, Schemas
      <4> QED
        BY <4>1, <4>2
    <3> QED
      BY <3>1, <3>2, <3>3, <3>4, <3>5, <3>6, Zenon
  <2> QED
    BY <2>1, <2>2, Zenon DEF SchemaNeverStuck
<1>2. ASSUME Inv, [Next]_vars
      PROVE  Inv'
  <2>1. schema' = schema \/ schema' = [schema EXCEPT !.file = TRUE] \/ schema' = Current
    BY <1>2, Zenon
       DEF Next, BeginFinish, StepAppend, BeginRecord, OtherRecord, Record, Ipc, Stop, Open, ReadVersion,
           LookAtTables, Migrate, Fail, AppendRun, Read, StopService, vars, hvars
  <2>2. \A s \in Schemas : LET e == [s EXCEPT !.file = TRUE]
                           IN  /\ e \in Schemas /\ e.version = s.version
                               /\ e.runs = s.runs /\ e.omitted = s.omitted
    BY Zenon DEF Schemas
  <2>3. Current \in Schemas /\ Current.version = 2 /\ Current.runs /\ Current.omitted
    BY DEF Schemas, Current, Release
  <2>4. /\ schema' \in Schemas
        /\ \/ schema'.version = 2 /\ schema'.runs /\ schema'.omitted
           \/ /\ schema'.version = schema.version /\ schema'.runs = schema.runs
              /\ schema'.omitted = schema.omitted
    BY <1>2, <2>1, <2>2, <2>3, Zenon
  <2> QED
    BY <1>2, <2>4 DEF SchemaNeverStuck
<1> QED
  BY <1>1, <1>2, PTL DEF Spec

-----------------------------------------------------------------------------
(* The newest runs                                                         *)

(* A set of natural numbers that has an element has a least one. *)
LEMMA LeastNumber ==
    ASSUME NEW T \in SUBSET Nat, T # {}
    PROVE  \E m \in T : \A k \in T : m <= k
<1> DEFINE R == OpToRel(<, Nat)
<1>1. IsWellFoundedOn(R, Nat)
  BY NatLessThanWellFounded
<1>2. \A x, y \in Nat : y < x => <<y, x>> \in R
  BY DEF OpToRel
<1> HIDE DEF R
<1>3. PICK m \in T : \A y \in T : ~ (<<y, m>> \in R)
  BY <1>1, WFMin, Zenon
<1>4. ASSUME NEW k \in T PROVE m <= k
  <2>1. ~(k < m)
    BY <1>2, <1>3, Zenon
  <2> QED
    BY <2>1
<1> QED
  BY <1>4

(* Runs that the order of the table can compare. *)
Comparable(S) ==
    /\ \A r \in S : r.id \in Nat /\ r.completed \in Nat
    /\ \A r, q \in S : r.id = q.id => r = q

(* The order is total, irreflexive and transitive. *)
LEMMA NewerOrder ==
    ASSUME NEW S, Comparable(S)
    PROVE  /\ \A r, q \in S : r = q \/ Newer(r, q) \/ Newer(q, r)
           /\ \A r, q \in S : Newer(r, q) => ~Newer(q, r)
           /\ \A r, q, p \in S : Newer(r, q) /\ Newer(q, p) => Newer(r, p)
<1>1. ASSUME NEW r \in S, NEW q \in S
      PROVE  r = q \/ Newer(r, q) \/ Newer(q, r)
  BY DEF Comparable, Newer
<1>2. ASSUME NEW r \in S, NEW q \in S, Newer(r, q)
      PROVE  ~Newer(q, r)
  BY <1>2 DEF Comparable, Newer
<1>3. ASSUME NEW r \in S, NEW q \in S, NEW p \in S, Newer(r, q), Newer(q, p)
      PROVE  Newer(r, p)
  BY <1>3 DEF Comparable, Newer
<1> QED
  BY <1>1, <1>2, <1>3

(* There is an oldest run. *)
LEMMA OldestExists ==
    ASSUME NEW S, Comparable(S), S # {}
    PROVE  \E m \in S : \A r \in S \ {m} : Newer(r, m)
<1> DEFINE C == {r.completed : r \in S}
<1>1. PICK c \in C : \A k \in C : c <= k
  <2>1. C \in SUBSET Nat /\ C # {}
    BY DEF Comparable
  <2> HIDE DEF C
  <2> QED
    BY <2>1, LeastNumber
<1> DEFINE D == {r.id : r \in {q \in S : q.completed = c}}
<1>2. PICK i \in D : \A k \in D : i <= k
  <2>1. D \in SUBSET Nat /\ D # {}
    BY DEF Comparable
  <2> HIDE DEF D
  <2> QED
    BY <2>1, LeastNumber
<1>3. PICK m \in S : m.completed = c /\ m.id = i
  OBVIOUS
<1>4. ASSUME NEW r \in S \ {m}
      PROVE  Newer(r, m)
  <2>1. m.completed <= r.completed /\ (r.completed = m.completed => m.id <= r.id)
    BY <1>1, <1>2, <1>3, Zenon
  <2>2. r.id # m.id /\ {r.id, m.id, r.completed, m.completed} \subseteq Nat
    BY DEF Comparable
  <2> QED
    BY <2>1, <2>2 DEF Newer
<1> QED
  BY <1>4

(* Of at most MaxStoredRuns runs none is dropped. *)
LEMMA NewestOfFew ==
    ASSUME NEW S, IsFiniteSet(S), Comparable(S), Cardinality(S) <= MaxStoredRuns
    PROVE  Newest(S) = S
<1>1. ASSUME NEW r \in S
      PROVE  Cardinality({q \in S : Newer(q, r)}) < MaxStoredRuns
  <2> DEFINE N == {q \in S : Newer(q, r)}
  <2>1. N \in SUBSET (S \ {r})
    BY NewerOrder
  <2> HIDE DEF N
  <2>2. IsFiniteSet(S \ {r}) /\ Cardinality(S \ {r}) = Cardinality(S) - 1
    BY FS_RemoveElement
  <2>3. /\ IsFiniteSet(N) /\ Cardinality(N) <= Cardinality(S \ {r})
        /\ Cardinality(N) \in Nat /\ Cardinality(S) \in Nat
    BY <2>1, <2>2, FS_Subset, FS_CardinalityType
  <2>4. Cardinality(N) < MaxStoredRuns
    BY <2>2, <2>3, HistoryAssumption
  <2> QED
    BY <2>4 DEF N
<1> QED
  BY <1>1, Zenon DEF Newest

(* Of one more than MaxStoredRuns the oldest is dropped. *)
LEMMA NewestOfOneMore ==
    ASSUME NEW S, IsFiniteSet(S), Comparable(S), Cardinality(S) = MaxStoredRuns + 1
    PROVE  \E m \in S : /\ Newest(S) = S \ {m}
                        /\ \A r \in S \ {m} : Newer(r, m)
<1>1. MaxStoredRuns \in Nat
  BY HistoryAssumption
<1>2. S # {}
  BY <1>1, FS_EmptySet
<1>3. PICK m \in S : \A r \in S \ {m} : Newer(r, m)
  BY <1>2, OldestExists
<1>4. IsFiniteSet(S \ {m}) /\ Cardinality(S \ {m}) = MaxStoredRuns
  <2>1. IsFiniteSet(S \ {m}) /\ Cardinality(S \ {m}) = Cardinality(S) - 1
    BY FS_RemoveElement
  <2> QED
    BY <1>1, <2>1
<1>5. m \notin Newest(S)
  <2>1. {q \in S : Newer(q, m)} = S \ {m}
    BY <1>3, NewerOrder
  <2> QED
    BY <1>1, <1>4, <2>1 DEF Newest
<1>6. ASSUME NEW r \in S \ {m}
      PROVE  r \in Newest(S)
  <2> DEFINE N == {q \in S : Newer(q, r)}
  <2>1. N \in SUBSET ((S \ {m}) \ {r})
    BY <1>3, NewerOrder
  <2> HIDE DEF N
  <2>2. /\ IsFiniteSet((S \ {m}) \ {r})
        /\ Cardinality((S \ {m}) \ {r}) = MaxStoredRuns - 1
    BY <1>1, <1>4, FS_RemoveElement
  <2>3. IsFiniteSet(N) /\ Cardinality(N) <= MaxStoredRuns - 1
    BY <2>1, <2>2, FS_Subset
  <2>4. Cardinality(N) < MaxStoredRuns
    BY <1>1, <2>3, FS_CardinalityType
  <2> QED
    BY <2>4 DEF N, Newest
<1>7. Newest(S) \subseteq S
  BY DEF Newest
<1> QED
  BY <1>3, <1>5, <1>6, <1>7

(* What an append writes. *)
Appended(now, x, outcome) ==
    /\ rows' = Newest(rows \cup {[id |-> lastId + 1, completed |-> now]})
    /\ lastId' = lastId + 1
    /\ ever' = ever \cup {[id |-> lastId + 1, completed |-> now]}
    /\ details' = Extend(details, [kind |-> outcome.kind,
                                   failures |-> Normalize(outcome.failures)])
    /\ said' = Extend(said, x)

(* A run is appended, or the tables stay as they are. *)
LEMMA Appends ==
    ASSUME [Next]_vars
    PROVE  \/ UNCHANGED <<rows, details, lastId, ever, said>>
           \/ \E now \in Nat, x \in Executions :
                \E outcome \in {Outcome(x), WithWarning(Outcome(x))} : Appended(now, x, outcome)
<1>1. ASSUME NEW now \in 0 .. MaxTime, NEW x \in Executions, NEW outcome,
             AppendRun(now, x, outcome)
      PROVE  now \in Nat /\ Appended(now, x, outcome)
  <2>1. now \in Nat
    BY HistoryAssumption
  <2>2. [id |-> lastId + 1, completed |-> now].id = lastId + 1
    BY Zenon
  <2> QED
    BY <1>1, <2>1, <2>2, ZenonT(30) DEF AppendRun, Appended
<1>2. CASE StepAppend
  <2>1. \/ UNCHANGED <<rows, details, lastId, ever, said>>
        \/ \E now \in 0 .. MaxTime, x \in Executions :
             \E outcome \in {Outcome(x), WithWarning(Outcome(x))} : AppendRun(now, x, outcome)
    BY <1>2, Zenon DEF StepAppend, ReadVersion, LookAtTables, Migrate, Fail, tables
  <2> QED
    BY <1>1, <2>1, Zenon
<1>3. CASE BeginFinish \/ BeginRecord \/ OtherRecord \/ Record \/ Ipc \/ Stop \/ UNCHANGED vars
  BY <1>3, Zenon DEF BeginFinish, BeginRecord, OtherRecord, Record, Ipc, Stop, Open, ReadVersion,
     LookAtTables, Migrate, Fail, Read, StopService, vars, hvars, tables
<1> QED
  BY <1>2, <1>3, Zenon DEF Next

(* An append keeps the newest runs. *)
LEMMA AppendKeepsNewest ==
    ASSUME RunsInv, NEW run, run.id = lastId + 1, run.completed \in Nat,
           rows' = Newest(rows \cup {run}), lastId' = lastId + 1, ever' = ever \cup {run}
    PROVE  RunsInv'
<1> DEFINE S == rows \cup {run}
<1>1. /\ lastId \in Nat /\ IsFiniteSet(rows) /\ rows \subseteq ever
      /\ \A r \in ever : r.id \in 1 .. lastId /\ r.completed \in Nat
      /\ \A r, q \in ever : r.id = q.id => r = q
      /\ \A r \in ever \ rows :
           Cardinality(rows) = MaxStoredRuns /\ \A q \in rows : Newer(q, r)
      /\ Cardinality(rows) <= MaxStoredRuns
      /\ MaxStoredRuns \in Nat
  BY HistoryAssumption DEF RunsInv, NewestRunsKept
<1>2. run \notin ever
  BY <1>1
<1>3. Comparable(ever \cup {run})
  BY <1>1, <1>2 DEF Comparable
<1>4. Comparable(S)
  BY <1>1, <1>3 DEF Comparable
<1>5. IsFiniteSet(S) /\ Cardinality(S) = Cardinality(rows) + 1 /\ Cardinality(rows) \in Nat
  <2>1. run \notin rows
    BY <1>1, <1>2
  <2> QED
    BY <1>1, <2>1, FS_AddElement, FS_CardinalityType
<1>6. /\ lastId' \in Nat
      /\ \A r \in ever' : r.id \in 1 .. lastId' /\ r.completed \in Nat
      /\ \A r, q \in ever' : r.id = q.id => r = q
  <2>1. ASSUME NEW r \in ever \cup {run}
        PROVE  r.id \in 1 .. lastId + 1 /\ r.completed \in Nat
    BY <1>1
  <2> QED
    BY <1>1, <1>3, <2>1 DEF Comparable
<1> HIDE DEF S
<1>7. rows' = Newest(S) /\ S = rows \cup {run}
  BY DEF S
<1>8. CASE Cardinality(rows) < MaxStoredRuns
  <2>1. rows' = S
    BY <1>1, <1>4, <1>5, <1>7, <1>8, NewestOfFew
  <2>2. ever = rows
    BY <1>1, <1>8
  <2>3. rows' = ever'
    BY <1>7, <2>1, <2>2
  <2>4. IsFiniteSet(rows') /\ Cardinality(rows') <= MaxStoredRuns
    BY <1>1, <1>5, <1>8, <2>1
  <2> QED
    BY <1>6, <2>3, <2>4, Zenon DEF RunsInv, NewestRunsKept
<1>9. CASE Cardinality(rows) = MaxStoredRuns
  <2>1. PICK m \in S : rows' = S \ {m} /\ \A r \in S \ {m} : Newer(r, m)
    BY <1>4, <1>5, <1>7, <1>9, NewestOfOneMore
  <2>2. IsFiniteSet(rows') /\ Cardinality(rows') = MaxStoredRuns
    <3>1. IsFiniteSet(S \ {m}) /\ Cardinality(S \ {m}) = Cardinality(S) - 1
      BY <1>5, FS_RemoveElement
    <3>2. MaxStoredRuns \in Nat /\ Cardinality(S) = MaxStoredRuns + 1
      BY <1>1, <1>5, <1>9
    <3>3. Cardinality(S) - 1 = MaxStoredRuns
      BY <3>2
    <3> QED
      BY <2>1, <3>1, <3>3, ZenonT(30)
  <2>3. rows' \subseteq ever'
    BY <1>1, <1>7, <2>1, ZenonT(30)
  <2>4. ASSUME NEW r \in ever' \ rows', NEW q \in rows'
        PROVE  Newer(q, r)
    <3>1. r = m \/ r \in ever \ rows
      BY <1>7, <2>1, <2>4
    <3>2. CASE r = m
      BY <2>1, <2>4, <3>2, Zenon
    <3>3. CASE r \in ever \ rows
      <4>1. CASE q \in rows
        BY <1>1, <3>3, <4>1
      <4>2. CASE q = run
        <5>1. m \in rows /\ Newer(run, m) /\ Newer(m, r)
          BY <1>1, <1>7, <2>1, <2>4, <3>3, <4>2, ZenonT(30)
        <5> QED
          BY <1>1, <1>3, <3>3, <4>2, <5>1, NewerOrder
      <4> QED
        BY <1>7, <2>1, <2>4, <4>1, <4>2, ZenonT(30)
    <3> QED
      BY <3>1, <3>2, <3>3
  <2>5. Cardinality(rows') <= MaxStoredRuns
    BY <1>1, <2>2
  <2> QED
    BY <1>6, <2>2, <2>3, <2>4, <2>5, Zenon DEF RunsInv, NewestRunsKept
<1> QED
  BY <1>1, <1>5, <1>8, <1>9

(* Whatever order the clock puts the runs in, the table holds the newest   *)
(* MaxStoredRuns of all runs ever committed: pruning after every append    *)
(* loses none that a later prune would have kept (prune), for every limit  *)
(* and any number of runs.                                                 *)
THEOREM NewestRunsCorrect == Spec => []NewestRunsKept
<1>1. Init => RunsInv
  BY FS_EmptySet, HistoryAssumption DEF Init, HInit, RunsInv, NewestRunsKept
<1>2. ASSUME RunsInv, [Next]_vars
      PROVE  RunsInv'
  <2>1. CASE UNCHANGED <<rows, details, lastId, ever, said>>
    BY <1>2, <2>1, Zenon DEF RunsInv, NewestRunsKept
  <2>2. ASSUME NEW now \in Nat, NEW x, NEW outcome, Appended(now, x, outcome)
        PROVE  RunsInv'
    <3> DEFINE run == [id |-> lastId + 1, completed |-> now]
    <3>1. run.id = lastId + 1 /\ run.completed \in Nat
      OBVIOUS
    <3>2. rows' = Newest(rows \cup {run}) /\ lastId' = lastId + 1 /\ ever' = ever \cup {run}
      BY <2>2, Zenon DEF Appended
    <3> HIDE DEF run
    <3> QED
      BY <1>2, <3>1, <3>2, AppendKeepsNewest
  <2> QED
    BY <1>2, <2>1, <2>2, Appends, Zenon
<1>3. RunsInv => NewestRunsKept
  BY DEF RunsInv
<1> QED
  BY <1>1, <1>2, <1>3, PTL DEF Spec

-----------------------------------------------------------------------------
(* Recursion along a sequence                                              *)

(* f holds the values of an iteration up to its k-th step. *)
Iterates(f, k, S, base, op) ==
    /\ f \in [0 .. k -> S] /\ f[0] = base
    /\ \A i \in 1 .. k : f[i] = op[<<i, f[i - 1]>>]

(* Every iteration has values.  The recursive functions of the model are   *)
(* instances.                                                              *)
LEMMA Iteration ==
    ASSUME NEW n \in Nat, NEW S, NEW base \in S, NEW op \in [(1 .. n) \X S -> S]
    PROVE  \E f : Iterates(f, n, S, base, op)
<1> DEFINE T == {k \in 0 .. n : ~ \E f : Iterates(f, k, S, base, op)}
<1> SUFFICES ASSUME T # {} PROVE FALSE
  <2>1. n \in 0 .. n
    OBVIOUS
  <2> QED
    BY <2>1, Zenon
<1>1. PICK m \in T : \A k \in T : m <= k
  <2>1. T \in SUBSET Nat
    OBVIOUS
  <2> HIDE DEF T
  <2> QED
    BY <2>1, LeastNumber
<1>2. m \in 0 .. n /\ ~ \E f : Iterates(f, m, S, base, op)
  OBVIOUS
<1>3. m # 0
  <2> SUFFICES ASSUME m = 0 PROVE FALSE
    OBVIOUS
  <2> DEFINE g == [i \in 0 .. 0 |-> base]
  <2>1. g \in [0 .. 0 -> S] /\ g[0] = base
    OBVIOUS
  <2> HIDE DEF g
  <2>2. Iterates(g, 0, S, base, op)
    BY <2>1 DEF Iterates
  <2> QED
    BY <1>2, <2>2, Zenon
<1>4. m - 1 \in 0 .. n /\ ~(m <= m - 1) /\ m \in 1 .. n
  BY <1>2, <1>3
<1>5. PICK f : Iterates(f, m - 1, S, base, op)
  BY <1>1, <1>4, Zenon
<1>6. f \in [0 .. m - 1 -> S] /\ f[m - 1] \in S
  BY <1>2, <1>3, <1>5 DEF Iterates
<1>7. op[<<m, f[m - 1]>>] \in S
  <2>1. <<m, f[m - 1]>> \in (1 .. n) \X S
    BY <1>4, <1>6
  <2> QED
    BY <2>1
<1> DEFINE h == [i \in 0 .. m |-> IF i = m THEN op[<<m, f[m - 1]>>] ELSE f[i]]
<1>8. /\ h \in [0 .. m -> S] /\ h[m] = op[<<m, f[m - 1]>>]
      /\ \A i \in 0 .. m - 1 : h[i] = f[i]
  BY <1>2, <1>3, <1>6, <1>7
<1> HIDE DEF h
<1>9. h[0] = base
  BY <1>2, <1>3, <1>5, <1>8 DEF Iterates
<1>10. ASSUME NEW i \in 1 .. m
       PROVE  h[i] = op[<<i, h[i - 1]>>]
  <2>1. i - 1 \in 0 .. m - 1 /\ h[i - 1] = f[i - 1]
    BY <1>2, <1>3, <1>8
  <2>2. CASE i = m
    BY <1>8, <2>1, <2>2
  <2>3. CASE i # m
    <3>1. i \in 1 .. m - 1 /\ i \in 0 .. m - 1
      BY <1>2, <2>3
    <3>2. f[i] = op[<<i, f[i - 1]>>]
      BY <1>5, <3>1, Zenon DEF Iterates
    <3> QED
      BY <1>8, <2>1, <3>1, <3>2, Zenon
  <2> QED
    BY <2>2, <2>3
<1>11. Iterates(h, m, S, base, op)
  BY <1>8, <1>9, <1>10, Zenon DEF Iterates
<1> QED
  BY <1>2, <1>11, Zenon

-----------------------------------------------------------------------------
(* The failed items                                                        *)

Names == Items \cup {Nameless}
Details == [items : Seq(Names), omitted : Nat]

(* What pushing one item does. *)
LEMMA PushCases ==
    ASSUME NEW d \in Details, NEW x \in Names
    PROVE  /\ Push(d, x) \in Details
           /\ \/ Push(d, x) = d /\ x \in Range(d.items)
              \/ Push(d, x).items = d.items /\ Push(d, x).omitted = d.omitted + 1
              \/ /\ Push(d, x).items = Append(d.items, x) /\ Push(d, x).omitted = d.omitted
                 /\ x \notin Range(d.items) /\ x # Nameless /\ x \notin UnsafeItems
                 /\ Len(d.items) < MaxFailedItems
<1>1. d.items \in Seq(Names) /\ d.omitted \in Nat /\ Len(d.items) \in Nat
  BY DEF Details
<1>2. CASE x # Nameless /\ x \in Range(d.items)
  BY <1>2, Zenon DEF Push
<1>3. CASE /\ ~(x # Nameless /\ x \in Range(d.items))
           /\ x = Nameless \/ x \in UnsafeItems \/ Len(d.items) >= MaxFailedItems
  <2>1. Push(d, x) = [d EXCEPT !.omitted = @ + 1]
    BY <1>3, Zenon DEF Push
  <2>2. [d EXCEPT !.omitted = @ + 1] \in Details
    BY <1>1 DEF Details
  <2>3. /\ [d EXCEPT !.omitted = @ + 1].items = d.items
        /\ [d EXCEPT !.omitted = @ + 1].omitted = d.omitted + 1
    BY <1>1 DEF Details
  <2> QED
    BY <2>1, <2>2, <2>3, Zenon
<1>4. CASE /\ ~(x # Nameless /\ x \in Range(d.items))
           /\ ~(x = Nameless \/ x \in UnsafeItems \/ Len(d.items) >= MaxFailedItems)
  <2>1. Push(d, x) = [d EXCEPT !.items = Append(@, x)]
    BY <1>4, Zenon DEF Push
  <2>2. [d EXCEPT !.items = Append(@, x)] \in Details
    BY <1>1 DEF Details
  <2>3. /\ [d EXCEPT !.items = Append(@, x)].items = Append(d.items, x)
        /\ [d EXCEPT !.items = Append(@, x)].omitted = d.omitted
    BY <1>1 DEF Details
  <2>4. Len(d.items) < MaxFailedItems
    BY <1>1, <1>4, HistoryAssumption
  <2> QED
    BY <1>4, <2>1, <2>2, <2>3, <2>4, Zenon
<1> QED
  BY <1>2, <1>3, <1>4, Zenon

(* PushAll pushes one item after the other. *)
LEMMA PushAllSteps ==
    ASSUME NEW d \in Details, NEW items \in Seq(Names)
    PROVE  \E f \in [0 .. Len(items) -> Details] :
             /\ f[0] = d
             /\ \A i \in 1 .. Len(items) : f[i] = Push(f[i - 1], items[i])
             /\ PushAll(d, items) = f[Len(items)]
<1> DEFINE n == Len(items)
           op == [p \in (1 .. n) \X Details |-> Push(p[2], items[p[1]])]
           Solves(f) == f = [k \in 0 .. n |-> IF k = 0 THEN d ELSE Push(f[k - 1], items[k])]
<1>1. n \in Nat /\ \A i \in 1 .. n : items[i] \in Names
  OBVIOUS
<1>2. op \in [(1 .. n) \X Details -> Details]
  BY <1>1, PushCases
<1>3. \A i \in 1 .. n, e \in Details : op[<<i, e>>] = Push(e, items[i])
  OBVIOUS
<1>4. PICK g : Iterates(g, n, Details, d, op)
  <2> HIDE DEF op, n
  <2> QED
    BY <1>1, <1>2, Iteration, Zenon
<1>5. Solves(g)
  <2>1. g \in [0 .. n -> Details] /\ g[0] = d /\ \A i \in 1 .. n : g[i] = op[<<i, g[i - 1]>>]
    BY <1>4, ZenonT(30) DEF Iterates
  <2> HIDE DEF op
  <2>2. ASSUME NEW k \in 0 .. n
        PROVE  g[k] = IF k = 0 THEN d ELSE Push(g[k - 1], items[k])
    <3>1. CASE k = 0
      BY <2>1, <3>1
    <3>2. CASE k # 0
      <4>1. k \in 1 .. n /\ k - 1 \in 0 .. n
        BY <1>1, <3>2
      <4>2. g[k - 1] \in Details
        BY <2>1, <4>1
      <4> QED
        BY <1>3, <2>1, <3>2, <4>1, <4>2, Zenon
    <3> QED
      BY <3>1, <3>2
  <2> QED
    BY <2>1, <2>2
<1>6. PICK f : Solves(f) /\ PushAll(d, items) = f[n]
  BY <1>5, Zenon DEF PushAll
<1>7. /\ f[0] = d
      /\ \A i \in 1 .. n : f[i] = Push(f[i - 1], items[i])
      /\ f = [k \in 0 .. n |-> f[k]]
  <2>1. 0 \in 0 .. n /\ \A i \in 1 .. n : i \in 0 .. n /\ i # 0
    BY <1>1
  <2>2. \A k \in 0 .. n : f[k] = IF k = 0 THEN d ELSE Push(f[k - 1], items[k])
    BY <1>6, Zenon
  <2>3. f = [k \in 0 .. n |-> f[k]]
    BY <1>6, Zenon
  <2> QED
    BY <2>1, <2>2, <2>3, Zenon
<1> HIDE DEF n, Solves
<1>8. \A k \in 0 .. n : f[k] \in Details
  <2> DEFINE T == {k \in 0 .. n : f[k] \notin Details}
  <2> SUFFICES ASSUME T # {} PROVE FALSE
    OBVIOUS
  <2>1. PICK m \in T : \A k \in T : m <= k
    <3>1. T \in SUBSET Nat
      BY <1>1
    <3> HIDE DEF T
    <3> QED
      BY <3>1, LeastNumber
  <2>2. m \in 0 .. n /\ f[m] \notin Details
    OBVIOUS
  <2>3. m # 0
    BY <1>7, <2>2
  <2>4. m \in 1 .. n /\ m - 1 \in 0 .. n /\ ~(m <= m - 1)
    BY <1>1, <2>2, <2>3
  <2>5. f[m - 1] \in Details
    BY <2>1, <2>4, Zenon
  <2>6. items[m] \in Names /\ f[m] = Push(f[m - 1], items[m])
    BY <1>1, <1>7, <2>4, Zenon
  <2>7. Push(f[m - 1], items[m]) \in Details
    BY <2>5, <2>6, PushCases, Zenon
  <2> QED
    BY <2>2, <2>6, <2>7, Zenon
<1>9. f \in [0 .. n -> Details]
  BY <1>7, <1>8
<1> QED
  BY <1>6, <1>7, <1>9, Zenon DEF n

(* The names of S that are not among the stored items. *)
Unstored(S, d) == (S \ {Nameless}) \ Range(d.items)

(* r is what k pushes of the names S make of d. *)
Pass(d, S, k, r) ==
  /\ r \in Details
  /\ Range(d.items) \subseteq Range(r.items)
  /\ Range(r.items) \subseteq Range(d.items) \cup (S \ ({Nameless} \cup UnsafeItems))
  /\ IsInjective(d.items) => IsInjective(r.items)
  /\ Len(d.items) <= MaxFailedItems => Len(r.items) <= MaxFailedItems
  /\ Cardinality(Unstored(S, r)) + d.omitted <= r.omitted
  /\ Len(r.items) + r.omitted <= Len(d.items) + d.omitted + k

(* Appending adds one element to the range of a sequence. *)
LEMMA AppendRange ==
    ASSUME NEW S, NEW s \in Seq(S), NEW x \in S
    PROVE  /\ Range(Append(s, x)) = Range(s) \cup {x}
           /\ IsInjective(s) /\ x \notin Range(s) => IsInjective(Append(s, x))
<1> DEFINE t == Append(s, x)
<1>1. /\ t \in Seq(S) /\ Len(t) = Len(s) + 1 /\ Len(s) \in Nat
      /\ \A i \in 1 .. Len(s) : t[i] = s[i]
      /\ t[Len(s) + 1] = x
      /\ DOMAIN t = 1 .. (Len(s) + 1) /\ DOMAIN s = 1 .. Len(s)
  OBVIOUS
<1> HIDE DEF t
<1>2. ASSUME NEW y PROVE y \in Range(t) <=> y \in Range(s) \cup {x}
  <2>1. ASSUME y \in Range(t) PROVE y \in Range(s) \cup {x}
    <3>1. PICK i \in 1 .. (Len(s) + 1) : y = t[i]
      BY <1>1, <2>1 DEF Range
    <3>2. i \in 1 .. Len(s) \/ i = Len(s) + 1
      BY <1>1
    <3> QED
      BY <1>1, <3>1, <3>2 DEF Range
  <2>2. ASSUME y \in Range(s) PROVE y \in Range(t)
    <3>1. PICK i \in 1 .. Len(s) : y = s[i]
      BY <1>1, <2>2 DEF Range
    <3>2. i \in 1 .. (Len(s) + 1) /\ t[i] = y
      BY <1>1, <3>1
    <3> QED
      BY <1>1, <3>2 DEF Range
  <2>3. x \in Range(t)
    <3>1. Len(s) + 1 \in 1 .. (Len(s) + 1)
      BY <1>1
    <3> QED
      BY <1>1, <3>1 DEF Range
  <2> QED
    BY <2>1, <2>2, <2>3
<1>3. ASSUME IsInjective(s), x \notin Range(s) PROVE IsInjective(t)
  <2> SUFFICES ASSUME NEW i \in 1 .. (Len(s) + 1), NEW j \in 1 .. (Len(s) + 1), t[i] = t[j]
               PROVE  i = j
    BY <1>1 DEF IsInjective
  <2>1. \A k \in 1 .. Len(s) : s[k] # x
    BY <1>1, <1>3 DEF Range
  <2>2. \A k, l \in 1 .. Len(s) : s[k] = s[l] => k = l
    BY <1>1, <1>3 DEF IsInjective
  <2>3. /\ i \in 1 .. Len(s) \/ i = Len(s) + 1
        /\ j \in 1 .. Len(s) \/ j = Len(s) + 1
    BY <1>1
  <2> QED
    BY <1>1, <2>1, <2>2, <2>3
<1>4. Range(t) = Range(s) \cup {x}
  BY <1>2
<1> QED
  BY <1>3, <1>4 DEF t

(* A sequence has at most as many elements as entries. *)
LEMMA RangeSize ==
    ASSUME NEW S, NEW s \in Seq(S)
    PROVE  /\ IsFiniteSet(Range(s))
           /\ Cardinality(Range(s)) \in Nat
           /\ Cardinality(Range(s)) <= Len(s)
           /\ Range(s) \subseteq S
<1>1. Len(s) \in Nat /\ DOMAIN s = 1 .. Len(s) /\ s \in [1 .. Len(s) -> S]
  OBVIOUS
<1>2. s \in Surjection(1 .. Len(s), Range(s))
  BY <1>1 DEF Surjection, Range
<1>3. IsFiniteSet(1 .. Len(s)) /\ Cardinality(1 .. Len(s)) = Len(s)
  <2>1. /\ IsFiniteSet(1 .. Len(s))
        /\ Cardinality(1 .. Len(s)) = IF 1 > Len(s) THEN 0 ELSE Len(s) - 1 + 1
    BY <1>1, FS_Interval
  <2> QED
    BY <1>1, <2>1
<1>4. IsFiniteSet(Range(s)) /\ Cardinality(Range(s)) <= Cardinality(1 .. Len(s))
  BY <1>2, <1>3, FS_Surjection
<1>5. Range(s) \subseteq S
  BY <1>1 DEF Range
<1> QED
  BY <1>3, <1>4, <1>5, FS_CardinalityType

(* A set inside a finite one is finite and no larger. *)
LEMMA SmallerSet ==
    ASSUME NEW S, IsFiniteSet(S), NEW T \in SUBSET S
    PROVE  IsFiniteSet(T) /\ Cardinality(T) \in Nat /\ Cardinality(T) <= Cardinality(S)
BY FS_Subset, FS_CardinalityType

(* No push at all. *)
LEMMA PassNone ==
    ASSUME NEW d \in Details
    PROVE  Pass(d, {}, 0, d)
<1>1. d.items \in Seq(Names) /\ d.omitted \in Nat /\ Len(d.items) \in Nat
  BY DEF Details
<1>2. Unstored({}, d) = {}
  BY DEF Unstored
<1>3. Cardinality({}) = 0
  BY FS_EmptySet
<1>4. Cardinality(Unstored({}, d)) + d.omitted <= d.omitted
  <2>1. 0 + d.omitted <= d.omitted
    BY <1>1
  <2> QED
    BY <1>2, <1>3, <2>1, Zenon
<1>5. Len(d.items) + d.omitted <= Len(d.items) + d.omitted + 0
  BY <1>1
<1> QED
  BY <1>4, <1>5, Zenon DEF Pass

(* One push more: the name is stored, or was, or is counted. *)
LEMMA PassPush ==
    ASSUME NEW d \in Details, NEW S \in SUBSET Names, IsFiniteSet(S), NEW k \in Nat,
           NEW e, Pass(d, S, k, e), NEW x \in Names
    PROVE  Pass(d, S \cup {x}, k + 1, Push(e, x))
<1> DEFINE r == Push(e, x)
           old == Unstored(S, e)
           new == Unstored(S \cup {x}, r)
<1>1. /\ d.items \in Seq(Names) /\ d.omitted \in Nat /\ Len(d.items) \in Nat
      /\ e \in Details /\ e.items \in Seq(Names) /\ e.omitted \in Nat /\ Len(e.items) \in Nat
  BY DEF Details, Pass
<1>2. /\ Range(d.items) \subseteq Range(e.items)
      /\ Range(e.items) \subseteq Range(d.items) \cup (S \ ({Nameless} \cup UnsafeItems))
      /\ IsInjective(d.items) => IsInjective(e.items)
      /\ Len(d.items) <= MaxFailedItems => Len(e.items) <= MaxFailedItems
      /\ Cardinality(old) + d.omitted <= e.omitted
      /\ Len(e.items) + e.omitted <= Len(d.items) + d.omitted + k
  BY DEF Pass
<1>3. /\ r \in Details
      /\ \/ r = e /\ x \in Range(e.items)
         \/ r.items = e.items /\ r.omitted = e.omitted + 1
         \/ /\ r.items = Append(e.items, x) /\ r.omitted = e.omitted
            /\ x \notin Range(e.items) /\ x # Nameless /\ x \notin UnsafeItems
            /\ Len(e.items) < MaxFailedItems
  BY <1>1, PushCases, Zenon
<1>4. IsFiniteSet(old) /\ Cardinality(old) \in Nat
  <2>1. old \in SUBSET S
    BY DEF Unstored
  <2> HIDE DEF old
  <2> QED
    BY <2>1, SmallerSet
<1> HIDE DEF r
<1> SUFFICES Pass(d, S \cup {x}, k + 1, r)
  BY DEF r
<1>5. CASE r = e /\ x \in Range(e.items)
  <2>1. x \in Range(e.items)
    BY <1>5
  <2>2. new = old
    BY <1>5, <2>1 DEF Unstored
  <2>3. Cardinality(new) + d.omitted <= r.omitted
    BY <1>2, <1>5, <2>2, Zenon
  <2>4. Range(r.items) \subseteq Range(d.items) \cup ((S \cup {x}) \ ({Nameless} \cup UnsafeItems))
    BY <1>2, <1>5, Zenon
  <2>5. Len(r.items) + r.omitted <= Len(d.items) + d.omitted + (k + 1)
    BY <1>1, <1>2, <1>5
  <2> QED
    BY <1>2, <1>3, <1>5, <2>3, <2>4, <2>5, Zenon DEF Pass
<1>6. CASE r.items = e.items /\ r.omitted = e.omitted + 1
  <2>1. new \in SUBSET (old \cup {x})
    BY <1>6 DEF Unstored
  <2>2. IsFiniteSet(old \cup {x}) /\ Cardinality(old \cup {x}) <= Cardinality(old) + 1
    <3> HIDE DEF old
    <3>1. /\ IsFiniteSet(old \cup {x})
          /\ Cardinality(old \cup {x}) = IF x \in old THEN Cardinality(old) ELSE Cardinality(old) + 1
      BY <1>4, FS_AddElement
    <3> QED
      BY <1>4, <3>1
  <2>3. Cardinality(new) \in Nat /\ Cardinality(new) <= Cardinality(old \cup {x})
        /\ Cardinality(old \cup {x}) \in Nat
    <3> HIDE DEF old, new
    <3> QED
      BY <2>1, <2>2, SmallerSet, FS_CardinalityType
  <2>4. Cardinality(new) + d.omitted <= r.omitted
    <3> HIDE DEF old, new
    <3> QED
      BY <1>1, <1>2, <1>4, <1>6, <2>2, <2>3
  <2>5. Range(r.items) \subseteq Range(d.items) \cup ((S \cup {x}) \ ({Nameless} \cup UnsafeItems))
    BY <1>2, <1>6, Zenon
  <2>6. Len(r.items) + r.omitted <= Len(d.items) + d.omitted + (k + 1)
    <3>1. \A le, oe, ld, od, j \in Nat :
             le + oe <= ld + od + j => le + (oe + 1) <= ld + od + (j + 1)
      OBVIOUS
    <3> QED
      BY <1>1, <1>2, <1>6, <3>1, Zenon
  <2> QED
    BY <1>2, <1>3, <1>6, <2>4, <2>5, <2>6, Zenon DEF Pass
<1>7. CASE /\ r.items = Append(e.items, x) /\ r.omitted = e.omitted
           /\ x \notin Range(e.items) /\ x # Nameless /\ x \notin UnsafeItems
           /\ Len(e.items) < MaxFailedItems
  <2>1. /\ Range(r.items) = Range(e.items) \cup {x}
        /\ IsInjective(e.items) => IsInjective(r.items)
    BY <1>1, <1>7, AppendRange
  <2>2. new \in SUBSET old
    BY <2>1 DEF Unstored
  <2>3. Cardinality(new) + d.omitted <= r.omitted
    <3> HIDE DEF old, new
    <3>1. Cardinality(new) \in Nat /\ Cardinality(new) <= Cardinality(old)
      BY <1>4, <2>2, SmallerSet
    <3> QED
      BY <1>1, <1>2, <1>4, <1>7, <3>1
  <2>4. Len(r.items) = Len(e.items) + 1
    BY <1>1, <1>7
  <2>5. Len(r.items) + r.omitted <= Len(d.items) + d.omitted + (k + 1)
    <3>1. \A le, oe, ld, od, j \in Nat :
             le + oe <= ld + od + j => (le + 1) + oe <= ld + od + (j + 1)
      OBVIOUS
    <3> QED
      BY <1>1, <1>2, <1>7, <2>4, <3>1, ZenonT(30)
  <2>6. Len(r.items) <= MaxFailedItems
    BY <1>1, <1>7, <2>4, HistoryAssumption
  <2>7. /\ Range(r.items) \subseteq Range(d.items) \cup ((S \cup {x}) \ ({Nameless} \cup UnsafeItems))
        /\ Range(d.items) \subseteq Range(r.items)
    BY <1>2, <1>7, <2>1, Zenon
  <2> QED
    BY <1>2, <1>3, <2>1, <2>3, <2>5, <2>6, <2>7, ZenonT(30) DEF Pass
<1> QED
  BY <1>3, <1>5, <1>6, <1>7, Zenon

(* All of them. *)
LEMMA PassAll ==
    ASSUME NEW d \in Details, NEW items \in Seq(Names)
    PROVE  Pass(d, Range(items), Len(items), PushAll(d, items))
<1> DEFINE n == Len(items)
           upto(k) == {items[i] : i \in 1 .. k}
<1>1. n \in Nat /\ DOMAIN items = 1 .. n /\ \A i \in 1 .. n : items[i] \in Names
  OBVIOUS
<1>2. PICK f \in [0 .. n -> Details] :
         /\ f[0] = d
         /\ \A i \in 1 .. n : f[i] = Push(f[i - 1], items[i])
         /\ PushAll(d, items) = f[n]
  BY PushAllSteps
<1>3. IsFiniteSet(Range(items))
  BY RangeSize
<1>4. upto(n) = Range(items)
  BY <1>1 DEF Range
<1>5. \A k \in 0 .. n : Pass(d, upto(k), k, f[k])
  <2> DEFINE T == {k \in 0 .. n : ~Pass(d, upto(k), k, f[k])}
  <2> SUFFICES ASSUME T # {} PROVE FALSE
    BY Zenon
  <2>1. PICK m \in T : \A k \in T : m <= k
    <3>1. T \in SUBSET Nat
      BY <1>1
    <3> HIDE DEF T
    <3> QED
      BY <3>1, LeastNumber
  <2>2. m \in 0 .. n /\ ~Pass(d, upto(m), m, f[m])
    OBVIOUS
  <2>3. m # 0
    <3>1. upto(0) = {}
      OBVIOUS
    <3> HIDE DEF upto
    <3> QED
      BY <1>2, <2>2, <3>1, PassNone, Zenon
  <2> DEFINE j == m - 1
  <2>4. m \in 1 .. n /\ j \in 0 .. n /\ ~(m <= j) /\ j \in Nat /\ m = j + 1
    BY <1>1, <2>2, <2>3
  <2>5. Pass(d, upto(j), j, f[j])
    <3>1. j \notin T
      <4> HIDE DEF j, T
      <4> QED
        BY <2>1, <2>4, Zenon
    <3> QED
      BY <2>4, <3>1, Zenon
  <2>6. upto(m) = upto(j) \cup {items[m]} /\ items[m] \in Names
    BY <1>1, <2>4
  <2>7. upto(j) \in SUBSET Range(items) /\ upto(j) \in SUBSET Names
    BY <1>1, <2>4 DEF Range
  <2>8. IsFiniteSet(upto(j))
    <3> HIDE DEF upto
    <3> QED
      BY <1>3, <2>7, SmallerSet, Zenon
  <2>9. f[m] = Push(f[j], items[m])
    BY <1>2, <2>4, Zenon
  <2> HIDE DEF j, T, upto
  <2>10. Pass(d, upto(j) \cup {items[m]}, j + 1, Push(f[j], items[m]))
    BY <2>4, <2>5, <2>6, <2>7, <2>8, PassPush, Zenon
  <2> QED
    BY <2>2, <2>4, <2>6, <2>9, <2>10, Zenon
<1>6. n \in 0 .. n
  BY <1>1
<1> HIDE DEF upto
<1> QED
  BY <1>2, <1>4, <1>5, <1>6, Zenon

(* The names of both pipes that end up neither stored nor counted: none.   *)
(* What the first readings left out, what the merge left out and what the  *)
(* normalisation left out are counted separately, so they cover the names. *)
LEMMA CountedOnce ==
    ASSUME NEW N, IsFiniteSet(N), NEW A, IsFiniteSet(A), NEW B, IsFiniteSet(B),
           NEW C, IsFiniteSet(C), NEW D, IsFiniteSet(D), NEW E, IsFiniteSet(E),
           N \subseteq A \cup B \cup C \cup D \cup E
    PROVE  /\ Cardinality(N) \in Nat
           /\ Cardinality(N) <= Cardinality(A) + Cardinality(B) + Cardinality(C)
                                  + Cardinality(D) + Cardinality(E)
<1>1. ASSUME NEW X, IsFiniteSet(X), NEW Y, IsFiniteSet(Y)
      PROVE  /\ IsFiniteSet(X \cup Y)
             /\ Cardinality(X) \in Nat /\ Cardinality(Y) \in Nat /\ Cardinality(X \cup Y) \in Nat
             /\ Cardinality(X \cup Y) <= Cardinality(X) + Cardinality(Y)
  <2>1. IsFiniteSet(X \cup Y) /\ IsFiniteSet(X \cap Y)
    BY <1>1, FS_Union, FS_Intersection, ZenonT(30)
  <2>2. Cardinality(X \cup Y) = Cardinality(X) + Cardinality(Y) - Cardinality(X \cap Y)
    BY <1>1, FS_Union
  <2>3. /\ Cardinality(X) \in Nat /\ Cardinality(Y) \in Nat /\ Cardinality(X \cup Y) \in Nat
        /\ Cardinality(X \cap Y) \in Nat
    BY <1>1, <2>1, FS_CardinalityType
  <2> QED
    BY <2>1, <2>2, <2>3
<1> DEFINE AB == A \cup B
           ABC == AB \cup C
           ABCD == ABC \cup D
           All == ABCD \cup E
<1>2. IsFiniteSet(AB) /\ IsFiniteSet(ABC) /\ IsFiniteSet(ABCD) /\ IsFiniteSet(All)
  BY <1>1, Zenon
<1>3. Cardinality(N) \in Nat /\ Cardinality(N) <= Cardinality(All)
  <2>1. N \in SUBSET All
    OBVIOUS
  <2> HIDE DEF All
  <2> QED
    BY <1>2, <2>1, SmallerSet
<1>4. /\ Cardinality(AB) <= Cardinality(A) + Cardinality(B)
      /\ Cardinality(A) \in Nat /\ Cardinality(B) \in Nat /\ Cardinality(AB) \in Nat
  BY <1>1, Zenon
<1>5. /\ Cardinality(ABC) <= Cardinality(AB) + Cardinality(C)
      /\ Cardinality(C) \in Nat /\ Cardinality(ABC) \in Nat
  BY <1>1, <1>2, Zenon
<1>6. /\ Cardinality(ABCD) <= Cardinality(ABC) + Cardinality(D)
      /\ Cardinality(D) \in Nat /\ Cardinality(ABCD) \in Nat
  BY <1>1, <1>2, Zenon
<1>7. /\ Cardinality(All) <= Cardinality(ABCD) + Cardinality(E)
      /\ Cardinality(E) \in Nat /\ Cardinality(All) \in Nat
  BY <1>1, <1>2, Zenon
<1> HIDE DEF AB, ABC, ABCD, All
<1> QED
  BY <1>3, <1>4, <1>5, <1>6, <1>7

(* What is stored of two pipes, whatever they carry. *)
LEMMA TwoPipes ==
    ASSUME NEW out \in Seq(Names), NEW err \in Seq(Names), NEW named,
           named = (Range(out) \cup Range(err)) \ {Nameless},
           NEW d, d = Normalize(Merge(ReadFailures(out), ReadFailures(err)))
    PROVE  /\ Range(d.items) \subseteq named \ UnsafeItems
           /\ IsInjective(d.items)
           /\ Len(d.items) <= MaxFailedItems
           /\ Cardinality(named) <= Len(d.items) + d.omitted
           /\ Len(d.items) + d.omitted <= Len(out) + Len(err)
<1> DEFINE o == PushAll(NoDetails, out)
           e == PushAll(NoDetails, err)
           p == PushAll(o, e.items)
           m == [p EXCEPT !.omitted = @ + e.omitted]
           q == PushAll(NoDetails, p.items)
<1>1. /\ NoDetails \in Details /\ NoDetails.items = <<>> /\ NoDetails.omitted = 0
      /\ Len(<<>>) = 0 /\ Range(<<>>) = {} /\ IsInjective(<<>>)
  BY DEF NoDetails, Details, Range, IsInjective
<1>2. Pass(NoDetails, Range(out), Len(out), o)
  BY <1>1, PassAll, Zenon
<1>3. Pass(NoDetails, Range(err), Len(err), e)
  BY <1>1, PassAll, Zenon
<1>4. /\ o \in Details /\ o.items \in Seq(Names) /\ o.omitted \in Nat /\ Len(o.items) \in Nat
      /\ e \in Details /\ e.items \in Seq(Names) /\ e.omitted \in Nat /\ Len(e.items) \in Nat
  <2>1. o \in Details /\ e \in Details
    BY <1>2, <1>3, Zenon DEF Pass
  <2> HIDE DEF o, e
  <2> QED
    BY <2>1 DEF Details
<1>5. Pass(o, Range(e.items), Len(e.items), p)
  BY <1>4, PassAll, Zenon
<1>6. p \in Details /\ p.items \in Seq(Names) /\ p.omitted \in Nat /\ Len(p.items) \in Nat
  <2>1. p \in Details
    BY <1>5, Zenon DEF Pass
  <2> HIDE DEF p
  <2> QED
    BY <2>1 DEF Details
<1>7. Pass(NoDetails, Range(p.items), Len(p.items), q)
  BY <1>1, <1>6, PassAll, Zenon
<1>8. q \in Details /\ q.items \in Seq(Names) /\ q.omitted \in Nat /\ Len(q.items) \in Nat
  <2>1. q \in Details
    BY <1>7, Zenon DEF Pass
  <2> HIDE DEF q
  <2> QED
    BY <2>1 DEF Details
<1>9. m.items = p.items /\ m.omitted = p.omitted + e.omitted
  <2> HIDE DEF p, e
  <2> QED
    BY <1>4, <1>6 DEF Details
<1>10. d.items = q.items /\ d.omitted = q.omitted + (p.omitted + e.omitted)
  <2>1. d = [q EXCEPT !.omitted = @ + m.omitted]
    BY <1>9, Zenon DEF Normalize, Merge, ReadFailures
  <2> HIDE DEF q, p, e, m
  <2> QED
    BY <1>4, <1>6, <1>8, <1>9, <2>1 DEF Details
<1> HIDE DEF o, e, p, m, q
<1>11. /\ Range(o.items) \subseteq Range(out) \ ({Nameless} \cup UnsafeItems)
       /\ Cardinality(Unstored(Range(out), o)) + 0 <= o.omitted
       /\ Len(o.items) + o.omitted <= 0 + 0 + Len(out)
  BY <1>1, <1>2, Zenon DEF Pass
<1>12. /\ Range(e.items) \subseteq Range(err) \ ({Nameless} \cup UnsafeItems)
       /\ Cardinality(Unstored(Range(err), e)) + 0 <= e.omitted
       /\ Len(e.items) + e.omitted <= 0 + 0 + Len(err)
  BY <1>1, <1>3, Zenon DEF Pass
<1>13. /\ Range(o.items) \subseteq Range(p.items)
       /\ Range(p.items) \subseteq Range(o.items) \cup (Range(e.items) \ ({Nameless} \cup UnsafeItems))
       /\ Cardinality(Unstored(Range(e.items), p)) + o.omitted <= p.omitted
       /\ Len(p.items) + p.omitted <= Len(o.items) + o.omitted + Len(e.items)
  BY <1>5, Zenon DEF Pass
<1>14. 0 <= MaxFailedItems
  BY HistoryAssumption
<1>15. /\ Range(q.items) \subseteq Range(p.items) \ ({Nameless} \cup UnsafeItems)
       /\ IsInjective(q.items)
       /\ Len(q.items) <= MaxFailedItems
       /\ Cardinality(Unstored(Range(p.items), q)) + 0 <= q.omitted
       /\ Len(q.items) + q.omitted <= 0 + 0 + Len(p.items)
  BY <1>1, <1>7, <1>14, Zenon DEF Pass
<1>16. Range(d.items) \subseteq named \ UnsafeItems
  BY <1>10, <1>11, <1>12, <1>13, <1>15, Zenon
<1>17. Cardinality(named) <= Len(d.items) + d.omitted
  <2>1. /\ IsFiniteSet(Range(out)) /\ IsFiniteSet(Range(err))
        /\ IsFiniteSet(Range(e.items)) /\ IsFiniteSet(Range(p.items)) /\ IsFiniteSet(Range(q.items))
        /\ Cardinality(Range(q.items)) \in Nat /\ Cardinality(Range(q.items)) <= Len(q.items)
    BY <1>4, <1>6, <1>8, RangeSize, Zenon
  <2>2. \A S, x : IsFiniteSet(S) => /\ IsFiniteSet(Unstored(S, x))
                                    /\ Cardinality(Unstored(S, x)) \in Nat
    <3> TAKE S, x
    <3> HAVE IsFiniteSet(S)
    <3>1. Unstored(S, x) \in SUBSET S
      BY DEF Unstored
    <3> QED
      BY <3>1, SmallerSet, Zenon
  <2>3. named \subseteq Range(q.items) \cup Unstored(Range(out), o) \cup Unstored(Range(err), e)
                          \cup Unstored(Range(e.items), p) \cup Unstored(Range(p.items), q)
    <3> SUFFICES ASSUME NEW x \in named, x \notin Range(q.items),
                        x \notin Unstored(Range(out), o), x \notin Unstored(Range(err), e),
                        x \notin Unstored(Range(e.items), p)
                 PROVE  x \in Unstored(Range(p.items), q)
      BY Zenon
    <3>1. x \in Range(o.items) \/ x \in Range(e.items)
      BY DEF Unstored
    <3>2. x \in Range(p.items)
      BY <1>13, <3>1 DEF Unstored
    <3> QED
      BY <3>2 DEF Unstored
  <2>4. IsFiniteSet(named)
    <3>1. IsFiniteSet(Range(out) \cup Range(err))
      BY <2>1, FS_Union, ZenonT(30)
    <3>2. named \in SUBSET (Range(out) \cup Range(err))
      OBVIOUS
    <3> QED
      BY <3>1, <3>2, SmallerSet, Zenon
  <2> DEFINE a == Cardinality(Range(q.items))
             b == Cardinality(Unstored(Range(out), o))
             c == Cardinality(Unstored(Range(err), e))
             g == Cardinality(Unstored(Range(e.items), p))
             h == Cardinality(Unstored(Range(p.items), q))
             total == Cardinality(named)
  <2>5. total \in Nat /\ total <= a + b + c + g + h
    BY <2>1, <2>2, <2>3, <2>4, CountedOnce, Zenon
  <2>6. a \in Nat /\ b \in Nat /\ c \in Nat /\ g \in Nat /\ h \in Nat
    BY <2>1, <2>2, Zenon
  <2>7. /\ a <= Len(q.items) /\ b + 0 <= o.omitted /\ c + 0 <= e.omitted
        /\ g + o.omitted <= p.omitted /\ h + 0 <= q.omitted
    BY <1>11, <1>12, <1>13, <1>15, <2>1, Zenon
  <2> HIDE DEF a, b, c, g, h, total
  <2>8. total <= Len(q.items) + (q.omitted + (p.omitted + e.omitted))
    <3>1. /\ Len(q.items) \in Nat /\ q.omitted \in Nat /\ p.omitted \in Nat
          /\ e.omitted \in Nat /\ o.omitted \in Nat
      BY <1>4, <1>6, <1>8, Zenon
    <3>2. \A t, u, v, w, x, y, lq, oo, oe, op, oq \in Nat :
             /\ t <= u + v + w + x + y
             /\ u <= lq /\ v + 0 <= oo /\ w + 0 <= oe /\ x + oo <= op /\ y + 0 <= oq
             => t <= lq + (oq + (op + oe))
      OBVIOUS
    <3> QED
      BY <2>5, <2>6, <2>7, <3>1, <3>2, ZenonT(30)
  <2> QED
    BY <1>10, <2>8, Zenon DEF total
<1>18. Len(d.items) + d.omitted <= Len(out) + Len(err)
  <2>1. Len(out) \in Nat /\ Len(err) \in Nat
    OBVIOUS
  <2>2. Len(q.items) + (q.omitted + (p.omitted + e.omitted)) <= Len(out) + Len(err)
    <3>1. /\ Len(q.items) \in Nat /\ Len(p.items) \in Nat /\ Len(o.items) \in Nat
          /\ Len(e.items) \in Nat /\ q.omitted \in Nat /\ p.omitted \in Nat
          /\ e.omitted \in Nat /\ o.omitted \in Nat
      BY <1>4, <1>6, <1>8, Zenon
    <3>2. /\ Len(o.items) + o.omitted <= 0 + 0 + Len(out)
          /\ Len(e.items) + e.omitted <= 0 + 0 + Len(err)
          /\ Len(p.items) + p.omitted <= Len(o.items) + o.omitted + Len(e.items)
          /\ Len(q.items) + q.omitted <= 0 + 0 + Len(p.items)
      BY <1>11, <1>12, <1>13, <1>15, ZenonT(30)
    <3>3. Len(p.items) + p.omitted <= Len(out) + Len(e.items)
      <4>1. \A lo, le, lp, oo, op, so \in Nat :
               lo + oo <= 0 + 0 + so /\ lp + op <= lo + oo + le => lp + op <= so + le
        OBVIOUS
      <4> QED
        BY <2>1, <3>1, <3>2, <4>1, ZenonT(30)
    <3>4. p.omitted + e.omitted + Len(p.items) <= Len(out) + Len(err)
      <4>1. \A le, lp, oe, op, so, se \in Nat :
               lp + op <= so + le /\ le + oe <= 0 + 0 + se => op + oe + lp <= so + se
        OBVIOUS
      <4> QED
        BY <2>1, <3>1, <3>2, <3>3, <4>1, ZenonT(30)
    <3>5. \A lp, lq, oe, op, oq, so, se \in Nat :
             op + oe + lp <= so + se /\ lq + oq <= 0 + 0 + lp
             => lq + (oq + (op + oe)) <= so + se
      OBVIOUS
    <3> QED
      BY <2>1, <3>1, <3>2, <3>4, <3>5, ZenonT(30)
  <2> QED
    BY <1>10, <2>2, Zenon
<1> QED
  BY <1>10, <1>15, <1>16, <1>17, <1>18, ZenonT(30)

(* Pushing nothing changes nothing. *)
LEMMA PushNothing ==
    ASSUME NEW d \in Details
    PROVE  PushAll(d, <<>>) = d
<1> DEFINE none == <<>>
<1>1. none \in Seq(Names) /\ Len(none) = 0
  OBVIOUS
<1> HIDE DEF none
<1>2. PICK f \in [0 .. Len(none) -> Details] : f[0] = d /\ PushAll(d, none) = f[Len(none)]
  <2>1. \A s \in Seq(Names) :
            \E f \in [0 .. Len(s) -> Details] : f[0] = d /\ PushAll(d, s) = f[Len(s)]
    BY PushAllSteps
  <2> QED
    BY <1>1, <2>1, Zenon
<1>3. PushAll(d, none) = d
  BY <1>1, <1>2, Zenon
<1> QED
  BY <1>3 DEF none

(* Merging nothing changes nothing. *)
LEMMA MergeNothing ==
    ASSUME NEW d \in Details
    PROVE  Merge(d, ReadFailures(<<>>)) = d
<1>1. NoDetails \in Details /\ NoDetails.items = <<>> /\ NoDetails.omitted = 0
  BY DEF NoDetails, Details
<1>2. ReadFailures(<<>>) = NoDetails
  BY <1>1, PushNothing DEF ReadFailures
<1>3. Merge(d, NoDetails) = [d EXCEPT !.omitted = @ + 0]
  BY <1>1, PushNothing DEF Merge
<1>4. [d EXCEPT !.omitted = @ + 0] = d
  BY DEF Details
<1> QED
  BY <1>2, <1>3, <1>4

(* A concatenation has the elements and the lengths of its parts. *)
LEMMA ConcatRange ==
    ASSUME NEW S, NEW s \in Seq(S), NEW t \in Seq(S)
    PROVE  /\ s \o t \in Seq(S) /\ Len(s \o t) = Len(s) + Len(t)
           /\ Range(s \o t) = Range(s) \cup Range(t)
<1> DEFINE u == s \o t
<1>1. /\ u \in Seq(S) /\ Len(u) = Len(s) + Len(t) /\ Len(s) \in Nat /\ Len(t) \in Nat
      /\ DOMAIN s = 1 .. Len(s) /\ DOMAIN t = 1 .. Len(t) /\ DOMAIN u = 1 .. (Len(s) + Len(t))
      /\ \A i \in 1 .. Len(s) : u[i] = s[i]
      /\ \A i \in 1 .. (Len(s) + Len(t)) : i > Len(s) => u[i] = t[i - Len(s)]
  OBVIOUS
<1> HIDE DEF u
<1>2. Range(u) \subseteq Range(s) \cup Range(t)
  <2> SUFFICES ASSUME NEW i \in 1 .. (Len(s) + Len(t)) PROVE u[i] \in Range(s) \cup Range(t)
    BY <1>1 DEF Range
  <2>1. i \in 1 .. Len(s) \/ (i > Len(s) /\ i - Len(s) \in 1 .. Len(t))
    BY <1>1
  <2> QED
    BY <1>1, <2>1 DEF Range
<1>3. ASSUME NEW i \in 1 .. Len(s) PROVE s[i] \in Range(u)
  <2>1. i \in DOMAIN u /\ u[i] = s[i]
    BY <1>1
  <2> QED
    BY <2>1, Zenon DEF Range
<1>4. ASSUME NEW i \in 1 .. Len(t) PROVE t[i] \in Range(u)
  <2>1. Len(s) + i \in DOMAIN u /\ Len(s) + i > Len(s) /\ (Len(s) + i) - Len(s) = i
    BY <1>1
  <2>2. u[Len(s) + i] = t[i]
    BY <1>1, <2>1
  <2> QED
    BY <2>1, <2>2, Zenon DEF Range
<1>5. Range(s) \cup Range(t) \subseteq Range(u)
  BY <1>1, <1>3, <1>4 DEF Range
<1> QED
  BY <1>1, <1>2, <1>5 DEF u

(* What is stored of an execution that ends with a warning. *)
LEMMA WarningAccounted ==
    ASSUME NEW x \in Executions, NEW heard, NEW named, NEW d,
           heard = IF x.stderr.read THEN x.stdout.lines \o x.stderr.lines ELSE x.stdout.lines,
           named = Range(heard) \ {Nameless},
           d = Normalize(FailureDetails(x))
    PROVE  /\ Range(d.items) \subseteq named \ UnsafeItems
           /\ IsInjective(d.items)
           /\ Len(d.items) <= MaxFailedItems
           /\ Cardinality(named) <= Len(d.items) + d.omitted
           /\ Len(d.items) + d.omitted <= Len(heard)
<1> DEFINE out == x.stdout.lines
           err == IF x.stderr.read THEN x.stderr.lines ELSE <<>>
<1>1. out \in Seq(Names) /\ x.stderr.lines \in Seq(Names) /\ x.stderr.read \in BOOLEAN
  BY ExecutionsAssumption DEF Pipes, Names
<1>2. err \in Seq(Names)
  BY <1>1
<1>3. out \o <<>> = out
  BY <1>1
<1>4. heard = out \o err
  BY <1>1, <1>3, Zenon
<1>5. /\ Len(heard) = Len(out) + Len(err)
      /\ named = (Range(out) \cup Range(err)) \ {Nameless}
  <2> HIDE DEF out, err
  <2>1. /\ Len(out \o err) = Len(out) + Len(err)
        /\ Range(out \o err) = Range(out) \cup Range(err)
    BY <1>1, <1>2, ConcatRange
  <2> QED
    BY <1>4, <2>1, Zenon
<1>6. ReadFailures(out) \in Details
  <2>1. NoDetails \in Details
    BY DEF NoDetails, Details
  <2>2. PushAll(NoDetails, out) \in Details
    <3> HIDE DEF out
    <3>1. Pass(NoDetails, Range(out), Len(out), PushAll(NoDetails, out))
      BY <1>1, <2>1, PassAll, Zenon
    <3> QED
      BY <3>1, Zenon DEF Pass
  <2> QED
    BY <2>2, Zenon DEF ReadFailures
<1>7. FailureDetails(x) = Merge(ReadFailures(out), ReadFailures(err))
  <2>1. CASE x.stderr.read
    BY <2>1, Zenon DEF FailureDetails
  <2>2. CASE ~x.stderr.read
    <3>1. Merge(ReadFailures(out), ReadFailures(<<>>)) = ReadFailures(out)
      BY <1>6, MergeNothing, Zenon
    <3> QED
      BY <2>2, <3>1, Zenon DEF FailureDetails
  <2> QED
    BY <2>1, <2>2, Zenon
<1>8. d = Normalize(Merge(ReadFailures(out), ReadFailures(err)))
  BY <1>7, Zenon
<1> HIDE DEF out, err
<1>9. /\ Range(d.items) \subseteq named \ UnsafeItems
      /\ IsInjective(d.items)
      /\ Len(d.items) <= MaxFailedItems
      /\ Cardinality(named) <= Len(d.items) + d.omitted
      /\ Len(d.items) + d.omitted <= Len(out) + Len(err)
  <2>1. \A n, e : /\ n = (Range(out) \cup Range(err)) \ {Nameless}
                  /\ e = Normalize(Merge(ReadFailures(out), ReadFailures(err)))
                  => /\ Range(e.items) \subseteq n \ UnsafeItems
                     /\ IsInjective(e.items)
                     /\ Len(e.items) <= MaxFailedItems
                     /\ Cardinality(n) <= Len(e.items) + e.omitted
                     /\ Len(e.items) + e.omitted <= Len(out) + Len(err)
    BY <1>1, <1>2, TwoPipes, Zenon
  <2> QED
    BY <1>5, <1>8, <2>1, Zenon
<1> QED
  BY <1>5, <1>9, Zenon

(* What is stored of any execution, retention's warning included. *)
LEMMA OutcomeAccounted ==
    ASSUME NEW x \in Executions, NEW o \in {Outcome(x), WithWarning(Outcome(x))}
    PROVE  Accounted([kind |-> o.kind, failures |-> Normalize(o.failures)], x)
<1> DEFINE r == [kind |-> o.kind, failures |-> Normalize(o.failures)]
           heard == IF x.stderr.read THEN x.stdout.lines \o x.stderr.lines ELSE x.stdout.lines
           named == Range(heard) \ {Nameless}
<1>1. /\ Outcome(x).failures = IF Warns(x) THEN FailureDetails(x) ELSE NoDetails
      /\ Warns(x) => Outcome(x).kind = "succeeded_with_warnings"
  <2>1. Warns(x) => x.exit # "interrupted" /\ ~(x.exit = "ok" /\ x.stdout.read /\ x.summary /\ ~Warns(x))
    BY DEF Warns
  <2>2. Outcome(x).failures = IF Warns(x) THEN FailureDetails(x) ELSE NoDetails
    BY Zenon DEF Outcome
  <2>3. ASSUME Warns(x) PROVE Outcome(x).kind = "succeeded_with_warnings"
    BY <2>1, <2>3, Zenon DEF Outcome
  <2> QED
    BY <2>2, <2>3
<1>2. /\ o.failures = IF Warns(x) THEN FailureDetails(x) ELSE NoDetails
      /\ Warns(x) => o.kind = "succeeded_with_warnings"
  <2>1. \A k : /\ [Outcome(x) EXCEPT !.kind = k].failures = Outcome(x).failures
               /\ [Outcome(x) EXCEPT !.kind = k].kind = k
    BY Zenon DEF Outcome
  <2>2. CASE o = Outcome(x)
    BY <1>1, <2>2, Zenon
  <2>3. CASE o = WithWarning(Outcome(x))
    BY <1>1, <2>1, <2>3, Zenon DEF WithWarning
  <2> QED
    BY <2>2, <2>3
<1>3. r.kind = o.kind /\ r.failures = Normalize(o.failures)
  BY Zenon
<1>4. CASE Warns(x)
  <2>1. r.kind = "succeeded_with_warnings" /\ r.failures = Normalize(FailureDetails(x))
    BY <1>2, <1>3, <1>4, Zenon
  <2> DEFINE d == r.failures
  <2> HIDE DEF r, heard, named, d
  <2>2. /\ Range(d.items) \subseteq named \ UnsafeItems
        /\ IsInjective(d.items)
        /\ Len(d.items) <= MaxFailedItems
        /\ Cardinality(named) <= Len(d.items) + d.omitted
        /\ Len(d.items) + d.omitted <= Len(heard)
    <3>1. /\ heard = IF x.stderr.read THEN x.stdout.lines \o x.stderr.lines ELSE x.stdout.lines
          /\ named = Range(heard) \ {Nameless}
          /\ d = Normalize(FailureDetails(x))
      BY <2>1, Zenon DEF heard, named, d
    <3>2. \A h, n, e :
             /\ h = IF x.stderr.read THEN x.stdout.lines \o x.stderr.lines ELSE x.stdout.lines
             /\ n = Range(h) \ {Nameless}
             /\ e = Normalize(FailureDetails(x))
             => /\ Range(e.items) \subseteq n \ UnsafeItems
                /\ IsInjective(e.items)
                /\ Len(e.items) <= MaxFailedItems
                /\ Cardinality(n) <= Len(e.items) + e.omitted
                /\ Len(e.items) + e.omitted <= Len(h)
      BY WarningAccounted, Zenon
    <3> QED
      BY <3>1, <3>2, Zenon
  <2>3. Accounted(r, x)
    BY <1>4, <2>1, <2>2, Zenon DEF Accounted, heard, named, d
  <2> QED
    BY <2>3 DEF r
<1>5. CASE ~Warns(x)
  <2>1. /\ NoDetails \in Details /\ NoDetails.items = <<>> /\ NoDetails.omitted = 0
        /\ Len(<<>>) = 0 /\ Range(<<>>) = {} /\ IsInjective(<<>>)
        /\ [NoDetails EXCEPT !.omitted = @ + 0] = NoDetails
    BY DEF NoDetails, Details, Range, IsInjective
  <2>2. r.failures = NoDetails
    <3>1. Normalize(NoDetails) = NoDetails
      BY <2>1, PushNothing, Zenon DEF Normalize
    <3> QED
      BY <1>2, <1>3, <1>5, <3>1, Zenon
  <2> DEFINE d == r.failures
  <2>3. Len(heard) \in Nat
    <3>1. x.stdout.lines \in Seq(Names) /\ x.stderr.lines \in Seq(Names)
      BY ExecutionsAssumption DEF Pipes, Names
    <3>2. x.stdout.lines \o x.stderr.lines \in Seq(Names)
      BY <3>1
    <3>3. heard \in Seq(Names)
      BY <3>1, <3>2, Zenon
    <3> HIDE DEF heard
    <3> QED
      BY <3>3
  <2> HIDE DEF r, heard, named, d
  <2>4. /\ Range(d.items) \subseteq named \ UnsafeItems
        /\ IsInjective(d.items)
        /\ Len(d.items) <= MaxFailedItems
        /\ Len(d.items) + d.omitted <= Len(heard)
    <3>1. 0 <= MaxFailedItems /\ 0 + 0 <= Len(heard)
      BY <2>3, HistoryAssumption
    <3> QED
      BY <2>1, <2>2, <3>1, Zenon DEF d
  <2>5. Accounted(r, x)
    BY <1>5, <2>2, <2>4, Zenon DEF Accounted, heard, named, d
  <2> QED
    BY <2>5 DEF r
<1> QED
  BY <1>4, <1>5

(* Every stored run accounts for what restic named, whatever its exit, its *)
(* pipes and their lines, and however retention ended: a warning stores or *)
(* counts every item of the pipes that were read to their end, any other   *)
(* outcome stores none, and the details of a pruned run go with it         *)
(* (finish_outcome, push, merge, normalize_failure_details, append,        *)
(* prune).                                                                 *)
THEOREM FailuresCorrect == Spec => []FailuresAccounted
<1>1. Init => FailuresAccounted
  BY DEF Init, HInit, FailuresAccounted
<1>2. ASSUME FailuresAccounted, [Next]_vars
      PROVE  FailuresAccounted'
  <2>1. CASE UNCHANGED <<rows, details, lastId, ever, said>>
    BY <1>2, <2>1, Zenon DEF FailuresAccounted
  <2>2. ASSUME NEW now \in Nat, NEW x \in Executions,
               NEW o \in {Outcome(x), WithWarning(Outcome(x))}, Appended(now, x, o)
        PROVE  FailuresAccounted'
    <3> DEFINE run == [id |-> lastId + 1, completed |-> now]
               new == [kind |-> o.kind, failures |-> Normalize(o.failures)]
               ids == {r.id : r \in rows'}
    <3>1. /\ details' = [i \in ids |-> IF i = lastId + 1 THEN new ELSE details[i]]
          /\ said' = [i \in ids |-> IF i = lastId + 1 THEN x ELSE said[i]]
          /\ rows' = Newest(rows \cup {run})
      BY <2>2, Zenon DEF Appended, Extend
    <3>2. rows' \subseteq rows \cup {run} /\ run.id = lastId + 1
      BY <3>1, Zenon DEF Newest
    <3>3. Accounted(new, x)
      BY OutcomeAccounted, Zenon
    <3> HIDE DEF run, new
    <3>4. ASSUME NEW i \in ids
          PROVE  Accounted(details'[i], said'[i])
      <4>1. CASE i = lastId + 1
        <5>1. details'[i] = new /\ said'[i] = x
          BY <3>1, <4>1, Zenon
        <5> QED
          BY <3>3, <5>1, Zenon
      <4>2. CASE i # lastId + 1
        <5>1. i \in {r.id : r \in rows}
          BY <3>2, <4>2, Zenon
        <5>2. details'[i] = details[i] /\ said'[i] = said[i]
          BY <3>1, <4>2, Zenon
        <5> QED
          BY <1>2, <5>1, <5>2, Zenon DEF FailuresAccounted
      <4> QED
        BY <4>1, <4>2
    <3>5. DOMAIN details' = ids
      BY <3>1, Zenon
    <3> QED
      BY <3>4, <3>5, Zenon DEF FailuresAccounted
  <2> QED
    BY <1>2, <2>1, <2>2, Appends, Zenon
<1> QED
  BY <1>1, <1>2, PTL DEF Spec

-----------------------------------------------------------------------------
(* The log                                                                 *)

(* Induction from a to b over a set of numbers. *)
LEMMA UpTo ==
    ASSUME NEW a \in Nat, NEW b \in Nat, a <= b, NEW T, a \in T,
           \A i \in (a + 1) .. b : i - 1 \in T => i \in T
    PROVE  b \in T
<1> DEFINE U == {i \in a .. b : i \notin T}
<1> SUFFICES ASSUME U # {} PROVE FALSE
  <2>1. b \in a .. b
    OBVIOUS
  <2> QED
    BY <2>1, Zenon
<1>1. PICK m \in U : \A k \in U : m <= k
  <2>1. U \in SUBSET Nat
    OBVIOUS
  <2> HIDE DEF U
  <2> QED
    BY <2>1, LeastNumber
<1>2. m \in a .. b /\ m \notin T
  OBVIOUS
<1>3. m # a
  BY <1>2
<1>4. m \in (a + 1) .. b /\ m - 1 \in a .. b /\ ~(m <= m - 1)
  BY <1>2, <1>3
<1>5. m - 1 \in T
  BY <1>1, <1>4, Zenon
<1> QED
  BY <1>2, <1>4, <1>5, Zenon

(* What reading one more line adds. *)
WithLine(s, line) == IF line.text # Garbage THEN Append(s, line.text) ELSE s

(* Entries reads one line after the other. *)
LEMMA EntriesSteps ==
    ASSUME NEW file \in Seq(Lines)
    PROVE  \E f \in [0 .. Len(file) -> Seq(Nat)] :
             /\ f[0] = <<>>
             /\ \A i \in 1 .. Len(file) : f[i] = WithLine(f[i - 1], file[i])
             /\ Entries(file) = f[Len(file)]
<1> DEFINE n == Len(file)
           op == [q \in (1 .. n) \X Seq(Nat) |-> WithLine(q[2], file[q[1]])]
           Solves(f) == f = [k \in 0 .. n |-> IF k = 0 THEN <<>>
                                              ELSE IF file[k].text # Garbage
                                              THEN Append(f[k - 1], file[k].text) ELSE f[k - 1]]
<1>1. n \in Nat /\ (\A i \in 1 .. n : file[i] \in Lines) /\ <<>> \in Seq(Nat)
  OBVIOUS
<1>2. op \in [(1 .. n) \X Seq(Nat) -> Seq(Nat)]
  <2>1. \A s \in Seq(Nat), x \in Lines : WithLine(s, x) \in Seq(Nat)
    BY DEF WithLine, Lines
  <2> QED
    BY <1>1, <2>1, Zenon
<1>3. \A i \in 1 .. n, s \in Seq(Nat) : op[<<i, s>>] = WithLine(s, file[i])
  OBVIOUS
<1>4. PICK g : Iterates(g, n, Seq(Nat), <<>>, op)
  <2> HIDE DEF op, n
  <2> QED
    BY <1>1, <1>2, Iteration, ZenonT(30)
<1>5. /\ g \in [0 .. n -> Seq(Nat)] /\ g[0] = <<>>
      /\ \A i \in 1 .. n : g[i] = WithLine(g[i - 1], file[i])
  <2>1. g \in [0 .. n -> Seq(Nat)] /\ g[0] = <<>> /\ \A i \in 1 .. n : g[i] = op[<<i, g[i - 1]>>]
    BY <1>4, Zenon DEF Iterates
  <2>2. \A i \in 1 .. n : i - 1 \in 0 .. n
    BY <1>1
  <2> HIDE DEF op
  <2>3. \A i \in 1 .. n : g[i - 1] \in Seq(Nat)
    BY <2>1, <2>2, Zenon
  <2> QED
    BY <1>3, <2>1, <2>3, Zenon
<1>6. Solves(g)
  <2>1. ASSUME NEW k \in 0 .. n
        PROVE  g[k] = IF k = 0 THEN <<>> ELSE IF file[k].text # Garbage
                                              THEN Append(g[k - 1], file[k].text) ELSE g[k - 1]
    <3>1. k = 0 \/ k \in 1 .. n
      BY <1>1
    <3>2. CASE k = 0
      BY <1>5, <3>2, Zenon
    <3>3. CASE k # 0
      BY <1>5, <3>1, <3>3, Zenon DEF WithLine
    <3> QED
      BY <3>2, <3>3, Zenon
  <2> QED
    BY <1>5, <2>1
<1>7. PICK f : Solves(f) /\ Entries(file) = f[n]
  BY <1>6, Zenon DEF Entries
<1>8. f[0] = <<>> /\ \A i \in 1 .. n : f[i] = WithLine(f[i - 1], file[i])
  <2>1. \A k \in 0 .. n : f[k] = IF k = 0 THEN <<>>
                                ELSE IF file[k].text # Garbage THEN Append(f[k - 1], file[k].text) ELSE f[k - 1]
    BY <1>7, Zenon
  <2>2. 0 \in 0 .. n /\ \A i \in 1 .. n : i \in 0 .. n /\ i # 0
    BY <1>1
  <2> QED
    BY <2>1, <2>2, Zenon DEF WithLine
<1> HIDE DEF n, Solves
<1>9. f[n] = g[n]
  <2> DEFINE T == {k \in 0 .. n : f[k] = g[k]}
  <2>1. 0 \in T
    BY <1>1, <1>5, <1>8
  <2>2. ASSUME NEW i \in (0 + 1) .. n, i - 1 \in T PROVE i \in T
    <3>1. i \in 1 .. n /\ i \in 0 .. n
      BY <1>1
    <3> QED
      BY <1>5, <1>8, <2>2, <3>1, Zenon
  <2>3. 0 \in Nat /\ 0 <= n
    BY <1>1
  <2>4. n \in T
    <3> HIDE DEF T
    <3> QED
      BY <1>1, <2>1, <2>2, <2>3, UpTo
  <2> QED
    BY <2>4
<1> QED
  BY <1>5, <1>7, <1>9, Zenon DEF n

(* In ascending order, each number once. *)
Increasing(s) == \A i, j \in DOMAIN s : i < j => s[i] < s[j]

LEMMA AppendIncreasing ==
    ASSUME NEW s \in Seq(Nat), Increasing(s), NEW x \in Nat, \A y \in Range(s) : y < x
    PROVE  Increasing(Append(s, x))
<1> DEFINE t == Append(s, x)
<1>1. /\ Len(s) \in Nat /\ DOMAIN s = 1 .. Len(s) /\ DOMAIN t = 1 .. (Len(s) + 1)
      /\ t[Len(s) + 1] = x /\ \A i \in 1 .. Len(s) : t[i] = s[i]
  OBVIOUS
<1> HIDE DEF t
<1>2. \A i \in 1 .. Len(s) : s[i] < x
  BY <1>1 DEF Range
<1>3. ASSUME NEW i \in 1 .. (Len(s) + 1), NEW j \in 1 .. (Len(s) + 1), i < j
      PROVE  t[i] < t[j]
  <2>1. i \in 1 .. Len(s) /\ (j \in 1 .. Len(s) \/ j = Len(s) + 1)
    BY <1>1, <1>3
  <2> QED
    BY <1>1, <1>2, <1>3, <2>1 DEF Increasing
<1> QED
  BY <1>1, <1>3 DEF Increasing, t

LEMMA ConcatIncreasing ==
    ASSUME NEW s \in Seq(Nat), NEW t \in Seq(Nat), Increasing(s), Increasing(t),
           \A y \in Range(s), z \in Range(t) : y < z
    PROVE  Increasing(s \o t)
<1> DEFINE u == s \o t
<1>1. /\ Len(s) \in Nat /\ Len(t) \in Nat
      /\ DOMAIN s = 1 .. Len(s) /\ DOMAIN t = 1 .. Len(t) /\ DOMAIN u = 1 .. (Len(s) + Len(t))
      /\ \A i \in 1 .. Len(s) : u[i] = s[i]
      /\ \A i \in 1 .. (Len(s) + Len(t)) : i > Len(s) => u[i] = t[i - Len(s)]
  OBVIOUS
<1> HIDE DEF u
<1>2. \A i \in 1 .. Len(s), j \in 1 .. Len(t) : s[i] < t[j]
  BY <1>1 DEF Range
<1>3. ASSUME NEW i \in 1 .. (Len(s) + Len(t)), NEW j \in 1 .. (Len(s) + Len(t)), i < j
      PROVE  u[i] < u[j]
  <2>1. CASE j <= Len(s)
    <3>1. i \in 1 .. Len(s) /\ j \in 1 .. Len(s)
      BY <1>1, <1>3, <2>1
    <3> QED
      BY <1>1, <1>3, <3>1, Zenon DEF Increasing
  <2>2. CASE i <= Len(s) /\ j > Len(s)
    <3>1. i \in 1 .. Len(s) /\ j - Len(s) \in 1 .. Len(t)
      BY <1>1, <2>2
    <3> QED
      BY <1>1, <1>2, <2>2, <3>1, Zenon
  <2>3. CASE i > Len(s)
    <3>1. /\ i - Len(s) \in 1 .. Len(t) /\ j - Len(s) \in 1 .. Len(t) /\ j > Len(s)
          /\ i - Len(s) < j - Len(s)
      BY <1>1, <1>3, <2>3
    <3> QED
      BY <1>1, <2>3, <3>1, Zenon DEF Increasing
  <2> QED
    BY <1>1, <2>1, <2>2, <2>3
<1> QED
  BY <1>1, <1>3 DEF Increasing, u

(* The entries of a file, and a file that has them in ascending order. *)
Texts(file) == {file[i].text : i \in 1 .. Len(file)} \ {Garbage}
Ordered(file) ==
    \A i, j \in 1 .. Len(file) :
      i < j /\ file[i].text # Garbage /\ file[j].text # Garbage => file[i].text < file[j].text

(* Reading a file shows its entries, in their order. *)
LEMMA EntriesRead ==
    ASSUME NEW file \in Seq(Lines)
    PROVE  /\ Entries(file) \in Seq(Nat)
           /\ Range(Entries(file)) = Texts(file)
           /\ Ordered(file) => Increasing(Entries(file))
<1>1. PICK f \in [0 .. Len(file) -> Seq(Nat)] :
         /\ f[0] = <<>>
         /\ \A i \in 1 .. Len(file) : f[i] = WithLine(f[i - 1], file[i])
         /\ Entries(file) = f[Len(file)]
  BY EntriesSteps
<1>2. Len(file) \in Nat /\ \A i \in 1 .. Len(file) : file[i] \in Lines /\ file[i].text \in Nat
  <2>1. Len(file) \in Nat /\ \A i \in 1 .. Len(file) : file[i] \in Lines
    OBVIOUS
  <2>2. \A line \in Lines : line.text \in Nat
    BY DEF Lines
  <2> QED
    BY <2>1, <2>2, Zenon
<1> DEFINE Upto(k) == {file[i].text : i \in 1 .. k} \ {Garbage}
           T == {k \in 0 .. Len(file) : /\ Range(f[k]) = Upto(k)
                                        /\ Ordered(file) => Increasing(f[k])}
<1>3. 0 \in T
  <2>1. Range(<<>>) = {} /\ Increasing(<<>>)
    BY DEF Range, Increasing
  <2>2. Upto(0) = {}
    OBVIOUS
  <2>3. 0 \in 0 .. Len(file)
    BY <1>2
  <2> QED
    BY <1>1, <2>1, <2>2, <2>3, Zenon
<1>4. ASSUME NEW k \in (0 + 1) .. Len(file), k - 1 \in T
      PROVE  k \in T
  <2>1. k \in 1 .. Len(file) /\ k \in 0 .. Len(file) /\ k - 1 \in 0 .. Len(file)
    BY <1>2
  <2>2. /\ Range(f[k - 1]) = Upto(k - 1) /\ f[k - 1] \in Seq(Nat)
        /\ Ordered(file) => Increasing(f[k - 1])
    BY <1>1, <1>4, <2>1, Zenon
  <2>3. f[k] = WithLine(f[k - 1], file[k]) /\ file[k].text \in Nat
    BY <1>1, <1>2, <2>1, Zenon
  <2>4. 1 .. k = (1 .. (k - 1)) \cup {k}
    BY <1>2, <2>1
  <2>5. Upto(k) = Upto(k - 1) \cup ({file[k].text} \ {Garbage})
    BY <2>4, Zenon
  <2>6. CASE file[k].text = Garbage
    <3>1. f[k] = f[k - 1]
      BY <2>3, <2>6, Zenon DEF WithLine
    <3>2. Upto(k) = Upto(k - 1)
      BY <2>5, <2>6, Zenon
    <3> QED
      BY <2>1, <2>2, <3>1, <3>2, Zenon
  <2>7. CASE file[k].text # Garbage
    <3>1. f[k] = Append(f[k - 1], file[k].text)
      BY <2>3, <2>7, Zenon DEF WithLine
    <3>2. Upto(k) = Upto(k - 1) \cup {file[k].text}
      BY <2>5, <2>7, Zenon
    <3>3. Range(f[k]) = Upto(k)
      <4>1. Range(Append(f[k - 1], file[k].text)) = Range(f[k - 1]) \cup {file[k].text}
        <5> HIDE DEF Upto, T
        <5> QED
          BY <2>2, <2>3, AppendRange
      <4> QED
        BY <2>2, <3>1, <3>2, <4>1, Zenon
    <3>4. ASSUME Ordered(file) PROVE Increasing(f[k])
      <4>1. ASSUME NEW y \in Upto(k - 1) PROVE y < file[k].text
        <5>1. PICK i \in 1 .. (k - 1) : y = file[i].text /\ file[i].text # Garbage
          BY Zenon
        <5>2. i \in 1 .. Len(file) /\ i < k
          BY <1>2, <2>1
        <5> QED
          BY <2>1, <2>7, <3>4, <5>1, <5>2, Zenon DEF Ordered
      <4>2. Increasing(Append(f[k - 1], file[k].text))
        BY <2>2, <2>3, <3>4, <4>1, AppendIncreasing, ZenonT(30)
      <4> QED
        BY <3>1, <4>2, Zenon
    <3> QED
      BY <2>1, <3>3, <3>4, Zenon
  <2> QED
    BY <2>6, <2>7, Zenon
<1>5. Len(file) \in T
  <2>1. 0 \in Nat /\ 0 <= Len(file)
    BY <1>2
  <2> HIDE DEF T
  <2> QED
    BY <1>2, <1>3, <1>4, <2>1, UpTo
<1>6. Len(file) \in 0 .. Len(file)
  BY <1>2
<1> QED
  BY <1>1, <1>5, <1>6, ZenonT(30) DEF Texts

(* The log files, and what the n oldest of them show. *)
Logs == [0 .. MaxArchives -> Seq(Lines)]
IsChain(F, fs) ==
    /\ F[0] = <<>>
    /\ \A n \in 1 .. MaxArchives + 1 : F[n] = F[n - 1] \o Entries(fs[MaxArchives + 1 - n])

(* Readable reads one file after the other. *)
LEMMA ReadableSteps ==
    ASSUME NEW fs \in Logs
    PROVE  \E F : IsChain(F, fs) /\ F \in [0 .. MaxArchives + 1 -> Seq(Nat)] /\ Readable(fs) = F[MaxArchives + 1]
<1> DEFINE n == MaxArchives + 1
           shown == [i \in 1 .. n |-> Entries(fs[MaxArchives + 1 - i])]
           op == [q \in (1 .. n) \X Seq(Nat) |-> q[2] \o shown[q[1]]]
           Solves(f) == f = [i \in 0 .. n |-> IF i = 0 THEN <<>>
                                              ELSE f[i - 1] \o Entries(fs[MaxArchives + 1 - i])]
<1>1. n \in Nat /\ <<>> \in Seq(Nat)
  BY DiagnosticsAssumption
<1>2. \A i \in 1 .. n : shown[i] = Entries(fs[MaxArchives + 1 - i]) /\ shown[i] \in Seq(Nat)
  <2> TAKE i \in 1 .. n
  <2>1. MaxArchives + 1 - i \in 0 .. MaxArchives
    BY DiagnosticsAssumption
  <2>2. fs[MaxArchives + 1 - i] \in Seq(Lines)
    BY <2>1 DEF Logs
  <2> QED
    BY <2>2, EntriesRead, Zenon
<1> HIDE DEF shown
<1>3. op \in [(1 .. n) \X Seq(Nat) -> Seq(Nat)]
  <2>1. \A s, t \in Seq(Nat) : s \o t \in Seq(Nat)
    OBVIOUS
  <2>2. ASSUME NEW q \in (1 .. n) \X Seq(Nat) PROVE q[2] \o shown[q[1]] \in Seq(Nat)
    <3>1. q[1] \in 1 .. n /\ q[2] \in Seq(Nat)
      OBVIOUS
    <3> QED
      BY <1>2, <2>1, <3>1, Zenon
  <2> QED
    BY <2>2
<1>4. PICK F : Iterates(F, n, Seq(Nat), <<>>, op)
  <2> HIDE DEF op, n
  <2> QED
    BY <1>1, <1>3, Iteration, ZenonT(30)
<1>5. /\ F \in [0 .. n -> Seq(Nat)] /\ F[0] = <<>>
      /\ \A i \in 1 .. n : F[i] = F[i - 1] \o shown[i]
  <2>1. F \in [0 .. n -> Seq(Nat)] /\ F[0] = <<>> /\ \A i \in 1 .. n : F[i] = op[<<i, F[i - 1]>>]
    BY <1>4, Zenon DEF Iterates
  <2>2. \A i \in 1 .. n, s \in Seq(Nat) : op[<<i, s>>] = s \o shown[i]
    BY Zenon
  <2>3. \A i \in 1 .. n : i - 1 \in 0 .. n
    BY <1>1
  <2> HIDE DEF op
  <2>4. \A i \in 1 .. n : F[i - 1] \in Seq(Nat)
    BY <2>1, <2>3, Zenon
  <2> QED
    BY <2>1, <2>2, <2>4, Zenon
<1> HIDE DEF op
<1>6. IsChain(F, fs)
  BY <1>2, <1>5, Zenon DEF IsChain
<1>7. Solves(F)
  <2>1. ASSUME NEW i \in 0 .. n
        PROVE  F[i] = IF i = 0 THEN <<>> ELSE F[i - 1] \o Entries(fs[MaxArchives + 1 - i])
    <3>1. i = 0 \/ i \in 1 .. n
      BY <1>1
    <3>2. \A j \in 1 .. n : j # 0
      BY <1>1
    <3> QED
      BY <1>2, <1>5, <3>1, <3>2, ZenonT(30)
  <2> QED
    BY <1>5, <2>1, Zenon
<1>8. PICK f : Solves(f) /\ Readable(fs) = f[n]
  BY <1>7, Zenon DEF Readable
<1>9. f[0] = <<>> /\ \A i \in 1 .. n : f[i] = f[i - 1] \o shown[i]
  <2>1. 0 \in 0 .. n /\ \A i \in 1 .. n : i \in 0 .. n /\ i # 0
    BY <1>1
  <2>2. \A i \in 0 .. n : f[i] = IF i = 0 THEN <<>> ELSE f[i - 1] \o Entries(fs[MaxArchives + 1 - i])
    BY <1>8, Zenon
  <2> QED
    BY <1>2, <2>1, <2>2, ZenonT(30)
<1> HIDE DEF n, Solves
<1>10. f[n] = F[n]
  <2> DEFINE T == {k \in 0 .. n : f[k] = F[k]}
  <2>1. 0 \in T
    BY <1>1, <1>5, <1>9
  <2>2. ASSUME NEW i \in (0 + 1) .. n, i - 1 \in T PROVE i \in T
    <3>1. i \in 1 .. n /\ i \in 0 .. n
      BY <1>1
    <3> QED
      BY <1>5, <1>9, <2>2, <3>1, Zenon
  <2>3. 0 \in Nat /\ 0 <= n
    BY <1>1
  <2>4. n \in T
    <3> HIDE DEF T
    <3> QED
      BY <1>1, <2>1, <2>2, <2>3, UpTo
  <2> QED
    BY <2>4
<1> QED
  BY <1>5, <1>6, <1>8, <1>10, ZenonT(30) DEF n

(* The entries are in ascending order from the oldest archive on. *)
OrderedLog(fs) ==
    /\ \A k \in 0 .. MaxArchives : Ordered(fs[k])
    /\ \A j, k \in 0 .. MaxArchives : j < k =>
         \A y \in Texts(fs[k]), z \in Texts(fs[j]) : y < z

(* A file of the log holds the entry. *)
Holds(fs, e) == \E k \in 0 .. MaxArchives : e \in Texts(fs[k])

(* recent shows the entries of the files, in their order. *)
LEMMA ReadableRead ==
    ASSUME NEW fs \in Logs, OrderedLog(fs)
    PROVE  /\ Increasing(Readable(fs))
           /\ \A e : e \in Range(Readable(fs)) <=> Holds(fs, e)
<1>1. PICK F : /\ IsChain(F, fs) /\ F \in [0 .. MaxArchives + 1 -> Seq(Nat)]
               /\ Readable(fs) = F[MaxArchives + 1]
  BY ReadableSteps
<1>2. MaxArchives \in Nat /\ MaxArchives + 1 \in Nat
  BY DiagnosticsAssumption
<1> DEFINE From(n, e) == \E k \in (MaxArchives + 1 - n) .. MaxArchives : e \in Texts(fs[k])
           T == {n \in 0 .. MaxArchives + 1 : /\ Increasing(F[n])
                                              /\ \A e : e \in Range(F[n]) <=> From(n, e)}
<1>3. 0 \in T
  <2>1. Range(<<>>) = {} /\ Increasing(<<>>)
    BY DEF Range, Increasing
  <2>2. (MaxArchives + 1 - 0) .. MaxArchives = {} /\ 0 \in 0 .. MaxArchives + 1
    BY <1>2
  <2> QED
    BY <1>1, <2>1, <2>2, Zenon DEF IsChain
<1>4. ASSUME NEW n \in (0 + 1) .. MaxArchives + 1, n - 1 \in T
      PROVE  n \in T
  <2> DEFINE m == MaxArchives + 1 - n
  <2>1. /\ n \in 1 .. MaxArchives + 1 /\ n \in 0 .. MaxArchives + 1 /\ n - 1 \in 0 .. MaxArchives + 1
        /\ m \in 0 .. MaxArchives
        /\ m .. MaxArchives = {m} \cup ((MaxArchives + 1 - (n - 1)) .. MaxArchives)
        /\ \A k \in (MaxArchives + 1 - (n - 1)) .. MaxArchives : k \in 0 .. MaxArchives /\ m < k
    BY <1>2
  <2>2. /\ F[n] = F[n - 1] \o Entries(fs[m])
        /\ F[n - 1] \in Seq(Nat) /\ Increasing(F[n - 1])
        /\ \A e : e \in Range(F[n - 1]) <=> From(n - 1, e)
    BY <1>1, <1>4, <2>1, Zenon DEF IsChain
  <2>3. fs[m] \in Seq(Lines) /\ Ordered(fs[m])
    BY <2>1, Zenon DEF Logs, OrderedLog
  <2>4. /\ Entries(fs[m]) \in Seq(Nat) /\ Increasing(Entries(fs[m]))
        /\ Range(Entries(fs[m])) = Texts(fs[m])
    BY <2>3, EntriesRead, Zenon
  <2>5. ASSUME NEW y \in Range(F[n - 1]), NEW z \in Range(Entries(fs[m]))
        PROVE  y < z
    <3>1. PICK k \in (MaxArchives + 1 - (n - 1)) .. MaxArchives : y \in Texts(fs[k])
      BY <2>2, Zenon
    <3> QED
      BY <2>1, <2>4, <3>1, Zenon DEF OrderedLog
  <2> DEFINE s == F[n - 1]
             t == Entries(fs[m])
  <2>6. Increasing(s \o t) /\ Range(s \o t) = Range(s) \cup Range(t)
    <3>1. /\ s \in Seq(Nat) /\ t \in Seq(Nat) /\ Increasing(s) /\ Increasing(t)
          /\ \A y \in Range(s), z \in Range(t) : y < z
      BY <2>2, <2>4, <2>5, Zenon
    <3> HIDE DEF s, t
    <3> QED
      BY <3>1, ConcatIncreasing, ConcatRange
  <2>7. ASSUME NEW e
        PROVE  e \in Range(F[n]) <=> From(n, e)
    <3>1. e \in Range(F[n]) <=> From(n - 1, e) \/ e \in Texts(fs[m])
      BY <2>2, <2>4, <2>6, Zenon
    <3>2. From(n, e) <=> From(n - 1, e) \/ e \in Texts(fs[m])
      BY <2>1, Zenon
    <3> QED
      BY <3>1, <3>2, Zenon
  <2> QED
    BY <2>1, <2>2, <2>6, <2>7, Zenon
<1>5. MaxArchives + 1 \in T
  <2>1. 0 \in Nat /\ 0 <= MaxArchives + 1
    BY <1>2
  <2> HIDE DEF T
  <2> QED
    BY <1>2, <1>3, <1>4, <2>1, UpTo
<1>6. MaxArchives + 1 - (MaxArchives + 1) = 0
  BY <1>2
<1> QED
  BY <1>1, <1>5, <1>6, ZenonT(30) DEF Holds

(* What writing to a file does to its entries: g is the file with the text *)
(* written to it.  A last line without its end takes the text with it.     *)
Extended(file, text, ended, g) ==
    /\ g \in Seq(Lines) /\ g # Missing
    /\ IsOpen(g) <=> ~ended
    /\ ~IsOpen(file) => /\ Texts(g) = Texts(file) \cup ({text} \ {Garbage})
                        /\ g[Len(g)].text = text
    /\ IsOpen(file) => /\ Texts(g) \subseteq Texts(file)
                       /\ Texts(file) \subseteq Texts(g) \cup {file[Len(file)].text}
                       /\ g[Len(g)].text = Garbage
    /\ Ordered(file) /\ (\A y \in Texts(file) : y < text) => Ordered(g)
    /\ Ordered(file) /\ text = Garbage => Ordered(g)

LEMMA TextAppended ==
    ASSUME NEW file \in Seq(Lines), NEW text \in Nat, NEW ended \in BOOLEAN,
           NEW g, g = AppendText(file, text, ended)
    PROVE  Extended(file, text, ended, g)
<1> DEFINE n == Len(file)
<1>1. n \in Nat /\ \A i \in 1 .. n : file[i] \in Lines /\ file[i].text \in Nat
  <2>1. n \in Nat /\ \A i \in 1 .. n : file[i] \in Lines
    OBVIOUS
  <2>2. \A line \in Lines : line.text \in Nat
    BY DEF Lines
  <2> QED
    BY <2>1, <2>2, Zenon
<1>2. CASE ~IsOpen(file)
  <2> DEFINE line == [text |-> text, ended |-> ended]
  <2>1. g = Append(file, line)
    BY <1>2, Zenon DEF AppendText
  <2>2. line \in Lines /\ line.text = text /\ line.ended = ended
    BY DEF Lines
  <2> HIDE DEF line
  <2>3. /\ g \in Seq(Lines) /\ Len(g) = n + 1 /\ g # <<>>
        /\ g[n + 1] = line /\ \A i \in 1 .. n : g[i] = file[i]
    BY <2>1, <2>2
  <2>4. 1 .. Len(g) = (1 .. n) \cup {n + 1}
    BY <1>1, <2>3
  <2>5. Texts(g) = Texts(file) \cup ({text} \ {Garbage})
    <3>1. ASSUME NEW e \in Texts(g) PROVE e \in Texts(file) \cup ({text} \ {Garbage})
      <4>1. PICK i \in (1 .. n) \cup {n + 1} : e = g[i].text /\ e # Garbage
        BY <2>4, Zenon DEF Texts
      <4> QED
        BY <2>2, <2>3, <4>1, Zenon DEF Texts
    <3>2. ASSUME NEW e \in Texts(file) PROVE e \in Texts(g)
      <4>1. PICK i \in 1 .. n : e = file[i].text /\ e # Garbage
        BY Zenon DEF Texts
      <4>2. i \in 1 .. Len(g) /\ e = g[i].text
        BY <2>3, <2>4, <4>1, Zenon
      <4> QED
        BY <4>1, <4>2, Zenon DEF Texts
    <3>3. ASSUME text # Garbage PROVE text \in Texts(g)
      <4>1. n + 1 \in 1 .. Len(g) /\ text = g[n + 1].text
        BY <2>2, <2>3, <2>4, Zenon
      <4> QED
        BY <3>3, <4>1, Zenon DEF Texts
    <3> QED
      BY <3>1, <3>2, <3>3, Zenon
  <2>6. IsOpen(g) <=> ~ended
    BY <2>2, <2>3, Zenon DEF IsOpen, Missing
  <2>7. ASSUME Ordered(file), text # Garbage => \A y \in Texts(file) : y < text
        PROVE  Ordered(g)
    <3> SUFFICES ASSUME NEW i \in 1 .. n + 1, NEW j \in 1 .. n + 1, i < j,
                        g[i].text # Garbage, g[j].text # Garbage
                 PROVE  g[i].text < g[j].text
      BY <2>3, Zenon DEF Ordered
    <3>1. i \in 1 .. n /\ (j \in 1 .. n \/ j = n + 1)
      BY <1>1
    <3>2. g[i] = file[i] /\ file[i].text \in Texts(file)
      BY <2>3, <3>1, Zenon DEF Texts
    <3>3. CASE j \in 1 .. n
      BY <2>3, <2>7, <3>1, <3>2, <3>3, Zenon DEF Ordered
    <3>4. CASE j = n + 1
      BY <2>2, <2>3, <2>7, <3>2, <3>4, Zenon
    <3> QED
      BY <3>1, <3>3, <3>4
  <2>8. g[Len(g)].text = text /\ g # Missing
    BY <2>2, <2>3, Zenon DEF Missing
  <2>9. /\ Ordered(file) /\ (\A y \in Texts(file) : y < text) => Ordered(g)
        /\ Ordered(file) /\ text = Garbage => Ordered(g)
    BY <2>7, Zenon
  <2> QED
    BY <1>2, <2>3, <2>5, <2>6, <2>8, <2>9, Zenon DEF Extended
<1>3. CASE IsOpen(file)
  <2> DEFINE line == [text |-> Garbage, ended |-> ended]
  <2>1. g = [file EXCEPT ![n] = line]
    BY <1>3, Zenon DEF AppendText
  <2>2. line \in Lines /\ line.text = Garbage /\ line.ended = ended
    BY DEF Lines, Garbage
  <2>3. n \in 1 .. n
    <3>1. n # 0
      BY <1>3 DEF IsOpen, Missing
    <3> QED
      BY <1>1, <3>1
  <2> HIDE DEF line
  <2>4. /\ g \in Seq(Lines) /\ Len(g) = n /\ g[n] = line
        /\ \A i \in 1 .. n : i # n => g[i] = file[i]
    BY <2>1, <2>2, <2>3
  <2>5. g # <<>>
    BY <2>3, <2>4
  <2>6. IsOpen(g) <=> ~ended
    BY <2>2, <2>4, <2>5, Zenon DEF IsOpen, Missing
  <2>7. Texts(g) \subseteq Texts(file) /\ Texts(file) \subseteq Texts(g) \cup {file[n].text}
    <3>1. ASSUME NEW e \in Texts(g) PROVE e \in Texts(file)
      <4>1. PICK i \in 1 .. n : e = g[i].text /\ e # Garbage
        BY <2>4, Zenon DEF Texts
      <4>2. i # n
        BY <2>2, <2>4, <4>1, Zenon
      <4> QED
        BY <2>4, <4>1, <4>2, Zenon DEF Texts
    <3>2. ASSUME NEW e \in Texts(file), e # file[n].text PROVE e \in Texts(g)
      <4>1. PICK i \in 1 .. n : e = file[i].text /\ e # Garbage
        BY Zenon DEF Texts
      <4>2. i # n
        BY <3>2, <4>1, Zenon
      <4> QED
        BY <2>4, <4>1, <4>2, Zenon DEF Texts
    <3> QED
      BY <3>1, <3>2, Zenon
  <2>8. ASSUME Ordered(file) PROVE Ordered(g)
    <3> SUFFICES ASSUME NEW i \in 1 .. n, NEW j \in 1 .. n, i < j,
                        g[i].text # Garbage, g[j].text # Garbage
                 PROVE  g[i].text < g[j].text
      BY <2>4, Zenon DEF Ordered
    <3>1. i # n /\ j # n
      BY <2>2, <2>4, Zenon
    <3>2. g[i] = file[i] /\ g[j] = file[j]
      BY <2>4, <3>1, Zenon
    <3> QED
      BY <2>8, <3>2, Zenon DEF Ordered
  <2> HIDE DEF n
  <2> QED
    BY <1>3, <2>2, <2>4, <2>5, <2>6, <2>7, <2>8, ZenonT(30) DEF Missing, n, Extended
<1> QED
  BY <1>2, <1>3, Zenon

(***************************************************************************)
(* The invariant of the log.  While a record is under way its entry is     *)
(* newer than all others; while a rotation is, there is a current file,    *)
(* and the place the next rename goes to is free.  Only a write that broke *)
(* off leaves the current file with an open line, whose entry was not      *)
(* acknowledged.  A recorded entry that is gone from the files is older    *)
(* than the rest or was exposed; the newest is in the current file or, if  *)
(* there is none yet, in the first archive.                                *)
(***************************************************************************)
LogType ==
    /\ files \in Logs /\ clock \in Nat /\ recorded \subseteq Nat \ {Garbage}
    /\ \A e \in recorded : e <= clock
    /\ \A e : Holds(files, e) => e \in Nat /\ e <= clock
    /\ OrderedLog(files)

LogStep ==
    /\ step.at # "none" => /\ stamp = clock /\ clock # Garbage
                           /\ \A e \in recorded : e < clock
                           /\ \A e : Holds(files, e) => e < clock
    /\ step.at \in {"remove", "move"} => files[0] # Missing
    /\ step.at = "move" => /\ step.file \in 0 .. MaxArchives - 1
                           /\ files[step.file + 1] = Missing

LogOpen == IsOpen(files[0]) => broken /\ files[0][Len(files[0])].text \notin recorded

LogGap ==
    \A e \in recorded \ exposed : Holds(files, e) \/ \A other : Holds(files, other) => e < other

LogNewest ==
    ~broken => \A e \in recorded \ exposed :
      (\A other \in recorded : other <= e)
      => e \in Texts(files[0]) \/ (files[0] = Missing /\ e \in Texts(files[1]))

LogInv == LogType /\ LogStep /\ LogOpen /\ LogGap /\ LogNewest

(* The invariant is what the property says. *)
LEMMA LogShown ==
    ASSUME LogInv
    PROVE  LogLosesOldest
<1> DEFINE shown == Readable(files)
<1>1. /\ \A i, j \in DOMAIN shown : i < j => shown[i] < shown[j]
      /\ \A e : e \in Range(shown) <=> Holds(files, e)
  BY ReadableRead, Zenon DEF LogInv, LogType, Increasing
<1> HIDE DEF shown
<1>2. ASSUME NEW e \in recorded \ (exposed \cup Range(shown)), NEW other \in Range(shown)
      PROVE  e < other
  BY <1>1, Zenon DEF LogInv, LogGap
<1>3. ASSUME ~broken, NEW e \in recorded,
             e \notin exposed \cup Range(shown)
      PROVE  \E newer \in recorded : e < newer
  <2> SUFFICES ASSUME \A newer \in recorded : ~(e < newer) PROVE FALSE
    OBVIOUS
  <2>1. \A other \in recorded : other <= e
    BY DEF LogInv, LogType
  <2>2. \E k \in {0, 1} : e \in Texts(files[k])
    BY <1>3, <2>1, Zenon DEF LogInv, LogNewest
  <2>3. {0, 1} \subseteq 0 .. MaxArchives
    BY DiagnosticsAssumption
  <2> QED
    BY <1>1, <1>3, <2>2, <2>3, Zenon DEF Holds
<1> QED
  BY <1>1, <1>2, <1>3, Zenon DEF LogLosesOldest, shown

LEMMA LogInit ==
    ASSUME DInit
    PROVE  LogInv
<1>1. /\ files \in Logs /\ \A k \in 0 .. MaxArchives : files[k] = <<>>
      /\ 0 \in 0 .. MaxArchives
  BY DiagnosticsAssumption DEF DInit, Logs, Missing
<1>2. Texts(<<>>) = {} /\ Ordered(<<>>) /\ ~IsOpen(<<>>)
  BY DEF Texts, Ordered, IsOpen, Missing
<1>3. OrderedLog(files) /\ \A e : ~Holds(files, e)
  BY <1>1, <1>2, Zenon DEF OrderedLog, Holds
<1>4. /\ clock = 0 /\ recorded = {} /\ step.at = "none"
      /\ "none" \notin {"remove", "move"} /\ "none" # "move"
  BY DEF DInit
<1>5. LogType
  BY <1>1, <1>3, <1>4 DEF LogType
<1> QED
  BY <1>1, <1>2, <1>3, <1>4, <1>5, ZenonT(30) DEF LogInv, LogStep, LogOpen, LogGap, LogNewest

LEMMA LogStart ==
    ASSUME LogInv, NEW t, StartRecord(t)
    PROVE  LogInv'
<1>1. /\ clock' = clock + 1 /\ stamp' = clock' /\ step'.at = "check"
      /\ UNCHANGED <<files, recorded, broken, exposed>>
  BY DEF StartRecord, logged
<1>2. /\ clock \in Nat /\ recorded \subseteq Nat
      /\ \A e \in recorded : e <= clock /\ e \in Nat /\ e # Garbage
      /\ \A e : Holds(files, e) => e \in Nat /\ e <= clock
  BY Zenon DEF LogInv, LogType
<1>3. /\ clock' \in Nat /\ clock' # Garbage
      /\ \A e \in Nat : e <= clock => e < clock' /\ e <= clock'
  BY <1>1, <1>2 DEF Garbage
<1>4. "check" \notin {"remove", "move"} /\ "check" # "move"
  OBVIOUS
<1>5. LogType'
  BY <1>1, <1>2, <1>3, Zenon DEF LogInv, LogType
<1>6. LogStep'
  BY <1>1, <1>2, <1>3, <1>4, Zenon DEF LogStep
<1>7. LogOpen' /\ LogGap' /\ LogNewest'
  BY <1>1, Zenon DEF LogInv, LogOpen, LogGap, LogNewest
<1> QED
  BY <1>5, <1>6, <1>7 DEF LogInv

LEMMA LogCheck ==
    ASSUME LogInv, CheckSize
    PROVE  LogInv'
<1>1. /\ step.at = "check" /\ UNCHANGED <<files, stamp, clock, recorded, broken, exposed>>
      /\ (step'.at = "remove" /\ files[0] # Missing) \/ step'.at = "write"
  <2>1. /\ [at |-> "remove", file |-> MaxArchives].at = "remove"
        /\ [at |-> "write", file |-> 0].at = "write"
    OBVIOUS
  <2> QED
    BY <2>1, Zenon DEF CheckSize, logged
<1>2. /\ "check" # "none" /\ "remove" # "move" /\ "write" \notin {"remove", "move"}
      /\ "write" # "move"
  OBVIOUS
<1>3. LogStep'
  BY <1>1, <1>2, Zenon DEF LogInv, LogStep
<1>4. LogType' /\ LogOpen' /\ LogGap' /\ LogNewest'
  BY <1>1, Zenon DEF LogInv, LogType, LogOpen, LogGap, LogNewest
<1> QED
  BY <1>3, <1>4 DEF LogInv

(* A step that leaves the current file alone leaves the newest entry. *)
LEMMA NewestStays ==
    ASSUME LogOpen, LogNewest, files'[0] = files[0], files[0] # Missing,
           UNCHANGED <<recorded, broken, exposed>>
    PROVE  LogOpen' /\ LogNewest'
<1>1. ASSUME NEW file, file = files[0]
      PROVE  IsOpen(file) => broken /\ file[Len(file)].text \notin recorded
  BY <1>1, Zenon DEF LogOpen
<1>2. LogOpen'
  BY <1>1, Zenon DEF LogOpen
<1>3. ASSUME ~broken, NEW e \in recorded \ exposed, \A other \in recorded : other <= e
      PROVE  e \in Texts(files[0])
  BY <1>3, Zenon DEF LogNewest
<1>4. LogNewest'
  BY <1>3, Zenon DEF LogNewest
<1> QED
  BY <1>2, <1>4

(* The oldest archive goes, and only older entries with it. *)
LEMMA LogRemove ==
    ASSUME LogInv, RemoveOldest
    PROVE  LogInv'
<1>1. /\ step.at = "remove" /\ UNCHANGED <<stamp, clock, recorded, broken, exposed>>
      /\ files' = [files EXCEPT ![MaxArchives] = Missing]
      /\ step'.at = "move" /\ step'.file = MaxArchives - 1
  <2>1. LET s == [at |-> "move", file |-> MaxArchives - 1] IN s.at = "move" /\ s.file = MaxArchives - 1
    OBVIOUS
  <2> QED
    BY <2>1, Zenon DEF RemoveOldest, logged
<1>2. /\ MaxArchives \in 0 .. MaxArchives /\ 0 \in 0 .. MaxArchives /\ MaxArchives # 0
      /\ MaxArchives - 1 \in 0 .. MaxArchives - 1 /\ MaxArchives - 1 + 1 = MaxArchives
      /\ \A k \in 0 .. MaxArchives : k # MaxArchives => k < MaxArchives
      /\ \A k \in 0 .. MaxArchives : ~(MaxArchives < k)
  BY DiagnosticsAssumption
<1>3. /\ files' \in Logs /\ files'[MaxArchives] = Missing
      /\ \A k \in 0 .. MaxArchives : k # MaxArchives => files'[k] = files[k]
  <2>1. files \in Logs /\ Missing \in Seq(Lines)
    BY DEF LogInv, LogType, Missing
  <2> QED
    BY <1>1, <1>2, <2>1, Zenon DEF Logs
<1>4. Texts(Missing) = {} /\ Ordered(Missing)
  BY DEF Texts, Ordered, Missing
<1>5. \A e : Holds(files', e) => Holds(files, e)
  BY <1>3, <1>4, Zenon DEF Holds
<1>6. OrderedLog(files')
  <2>1. \A k \in 0 .. MaxArchives : Ordered(files'[k])
    BY <1>3, <1>4, Zenon DEF LogInv, LogType, OrderedLog
  <2>2. ASSUME NEW j \in 0 .. MaxArchives, NEW k \in 0 .. MaxArchives, j < k,
               NEW y \in Texts(files'[k]), NEW z \in Texts(files'[j])
        PROVE  y < z
    <3>1. files'[k] = files[k] /\ files'[j] = files[j]
      BY <1>3, <1>4, Zenon
    <3> QED
      BY <2>2, <3>1, Zenon DEF LogInv, LogType, OrderedLog
  <2> QED
    BY <2>1, <2>2, Zenon DEF OrderedLog
<1>7. LogType'
  BY <1>1, <1>3, <1>5, <1>6, Zenon DEF LogInv, LogType
<1>8. files'[0] = files[0] /\ files[0] # Missing
  BY <1>1, <1>2, <1>3, Zenon DEF LogInv, LogStep
<1>9. LogStep'
  <2>1. "remove" # "none"
    OBVIOUS
  <2> QED
    BY <1>1, <1>2, <1>3, <1>5, <1>8, <2>1, ZenonT(30) DEF LogInv, LogStep
<1>10. LogOpen' /\ LogNewest'
  <2>1. LogOpen /\ LogNewest /\ UNCHANGED <<recorded, broken, exposed>>
    BY <1>1, Zenon DEF LogInv
  <2> QED
    BY <1>8, <2>1, NewestStays, Zenon
<1>11. LogGap'
  <2> SUFFICES ASSUME NEW e \in recorded \ exposed, ~Holds(files', e),
                      NEW other, Holds(files', other)
               PROVE  e < other
    BY <1>1, Zenon DEF LogGap
  <2>1. CASE Holds(files, e)
    <3>1. e \in Texts(files[MaxArchives])
      BY <1>3, <2>1, Zenon DEF Holds
    <3>2. PICK k \in 0 .. MaxArchives : other \in Texts(files[k]) /\ k # MaxArchives
      BY <1>3, <1>4, Zenon DEF Holds
    <3> QED
      BY <1>2, <3>1, <3>2, Zenon DEF LogInv, LogType, OrderedLog
  <2>2. CASE ~Holds(files, e)
    BY <1>5, <2>2, Zenon DEF LogInv, LogGap
  <2> QED
    BY <2>1, <2>2
<1> QED
  BY <1>7, <1>9, <1>10, <1>11 DEF LogInv

(* A rename moves a file to the free place behind it. *)
LEMMA LogMove ==
    ASSUME LogInv, MoveUp
    PROVE  LogInv'
<1> DEFINE k == step.file
<1>1. /\ step.at = "move" /\ UNCHANGED <<stamp, clock, recorded, broken, exposed>>
      /\ k \in 0 .. MaxArchives - 1 /\ files[k + 1] = Missing /\ files[0] # Missing
      /\ files' = [files EXCEPT ![k + 1] = IF files[k] = Missing THEN @ ELSE files[k],
                                ![k] = Missing]
      /\ step' = IF k = 0 THEN [at |-> "write", file |-> 0] ELSE [at |-> "move", file |-> k - 1]
  BY Zenon DEF MoveUp, logged, LogInv, LogStep
<1> HIDE DEF k
<1>2. /\ k \in 0 .. MaxArchives /\ k + 1 \in 0 .. MaxArchives /\ k # k + 1 /\ 0 \in 0 .. MaxArchives
      /\ k # 0 => k - 1 \in 0 .. MaxArchives - 1 /\ k - 1 + 1 = k
      /\ 0 # k + 1
  BY <1>1, DiagnosticsAssumption
<1>3. /\ files' \in Logs /\ files'[k + 1] = files[k] /\ files'[k] = Missing
      /\ \A j \in 0 .. MaxArchives : j # k /\ j # k + 1 => files'[j] = files[j]
  <2>1. files \in Logs /\ Missing \in Seq(Lines)
    BY DEF LogInv, LogType, Missing
  <2>2. files' = [[files EXCEPT ![k + 1] = files[k]] EXCEPT ![k] = Missing]
    BY <1>1, Zenon
  <2> QED
    BY <1>2, <2>1, <2>2 DEF Logs
<1>4. Texts(Missing) = {} /\ Ordered(Missing) /\ ~IsOpen(Missing)
  BY DEF Texts, Ordered, Missing, IsOpen
<1>5. ASSUME NEW e PROVE Holds(files', e) <=> Holds(files, e)
  <2>1. ASSUME NEW j \in 0 .. MaxArchives, e \in Texts(files'[j]) PROVE Holds(files, e)
    BY <1>2, <1>3, <1>4, <2>1, Zenon DEF Holds
  <2>2. ASSUME NEW j \in 0 .. MaxArchives, e \in Texts(files[j]) PROVE Holds(files', e)
    BY <1>1, <1>2, <1>3, <1>4, <2>2, Zenon DEF Holds
  <2> QED
    BY <2>1, <2>2, Zenon DEF Holds
<1>6. OrderedLog(files')
  <2>1. \A j \in 0 .. MaxArchives : Ordered(files'[j])
    BY <1>2, <1>3, <1>4, Zenon DEF LogInv, LogType, OrderedLog
  <2>2. ASSUME NEW i \in 0 .. MaxArchives, NEW j \in 0 .. MaxArchives, i < j,
               NEW y \in Texts(files'[j]), NEW z \in Texts(files'[i])
        PROVE  y < z
    <3> DEFINE from(n) == IF n = k + 1 THEN k ELSE n
    <3>1. i # k /\ j # k
      BY <1>3, <1>4, Zenon
    <3>2. from(i) \in 0 .. MaxArchives /\ from(j) \in 0 .. MaxArchives /\ from(i) < from(j)
      BY <1>1, <2>2, <3>1, DiagnosticsAssumption
    <3>3. files'[j] = files[from(j)] /\ files'[i] = files[from(i)]
      BY <1>3, <3>1, Zenon
    <3> HIDE DEF from
    <3> QED
      BY <3>2, <3>3, Zenon DEF LogInv, LogType, OrderedLog
  <2> QED
    BY <2>1, <2>2, Zenon DEF OrderedLog
<1>7. LogType'
  BY <1>1, <1>3, <1>5, <1>6, Zenon DEF LogInv, LogType
<1>8. LogGap'
  BY <1>1, <1>5, Zenon DEF LogInv, LogGap
<1>9. /\ step'.at # "none"
      /\ k = 0 => step'.at = "write"
      /\ k # 0 => step'.at = "move" /\ step'.file = k - 1
  BY <1>1
<1>10. "move" # "none" /\ "write" \notin {"remove", "move"} /\ "write" # "move"
  OBVIOUS
<1>11. CASE k = 0
  <2>1. files'[0] = Missing /\ files'[1] = files[0]
    <3>1. k + 1 = 1
      BY <1>11
    <3> QED
      BY <1>3, <1>11, <3>1, Zenon
  <2>2. LogStep'
    BY <1>1, <1>5, <1>9, <1>10, <1>11, Zenon DEF LogInv, LogStep
  <2>3. LogOpen' /\ LogNewest'
    BY <1>1, <1>4, <2>1, Zenon DEF LogInv, LogOpen, LogNewest
  <2> QED
    BY <1>7, <1>8, <2>2, <2>3 DEF LogInv
<1>12. CASE k # 0
  <2>1. files'[0] = files[0]
    BY <1>2, <1>3, <1>12, Zenon
  <2>2. LogStep'
    BY <1>1, <1>2, <1>3, <1>5, <1>9, <1>10, <1>12, <2>1, ZenonT(30) DEF LogInv, LogStep
  <2>3. LogOpen' /\ LogNewest'
    <3>1. LogOpen /\ LogNewest /\ files[0] # Missing /\ UNCHANGED <<recorded, broken, exposed>>
      BY <1>1, Zenon DEF LogInv
    <3> QED
      BY <2>1, <3>1, NewestStays, Zenon
  <2> QED
    BY <1>7, <1>8, <2>2, <2>3 DEF LogInv
<1> QED
  BY <1>11, <1>12

(* A line is written to the current file, whole or in part. *)
LEMMA LogLine ==
    ASSUME LogInv, step.at = "write", NEW text \in {Garbage, stamp}, NEW ended \in BOOLEAN,
           files' = [files EXCEPT ![0] = AppendText(@, text, ended)]
    PROVE  /\ files' \in Logs /\ OrderedLog(files')
           /\ \A e : Holds(files', e) => Holds(files, e) \/ e = clock
           /\ \A e \in recorded : Holds(files, e) => Holds(files', e)
           /\ IsOpen(files'[0]) <=> ~ended
           /\ files'[0][Len(files'[0])].text \in {Garbage, clock}
           /\ ~IsOpen(files[0]) /\ text = stamp => clock \in Texts(files'[0])
<1> DEFINE g == AppendText(files[0], text, ended)
<1>1. /\ stamp = clock /\ clock \in Nat /\ clock # Garbage /\ files \in Logs /\ OrderedLog(files)
      /\ \A e : Holds(files, e) => e < clock
  <2>1. "write" # "none"
    OBVIOUS
  <2> QED
    BY <2>1, Zenon DEF LogInv, LogType, LogStep
<1>2. 0 \in 0 .. MaxArchives /\ \A k \in 0 .. MaxArchives : k # 0 => 0 < k /\ ~(k < 0)
  BY DiagnosticsAssumption
<1>3. text \in Nat /\ files[0] \in Seq(Lines) /\ Ordered(files[0])
  <2>1. text \in Nat
    BY <1>1 DEF Garbage
  <2> QED
    BY <1>1, <1>2, <2>1, Zenon DEF Logs, OrderedLog
<1>4. \A y \in Texts(files[0]) : y < clock
  BY <1>1, <1>2, Zenon DEF Holds
<1>5. /\ g \in Seq(Lines) /\ g # Missing
      /\ IsOpen(g) <=> ~ended
      /\ ~IsOpen(files[0]) => /\ Texts(g) = Texts(files[0]) \cup ({text} \ {Garbage})
                              /\ g[Len(g)].text = text
      /\ IsOpen(files[0]) => /\ Texts(g) \subseteq Texts(files[0])
                             /\ Texts(files[0]) \subseteq Texts(g) \cup {files[0][Len(files[0])].text}
                             /\ g[Len(g)].text = Garbage
      /\ Ordered(files[0]) /\ (\A y \in Texts(files[0]) : y < text) => Ordered(g)
      /\ Ordered(files[0]) /\ text = Garbage => Ordered(g)
  <2>1. Extended(files[0], text, ended, g)
    BY <1>3, TextAppended, Zenon
  <2> QED
    BY <2>1, Zenon DEF Extended
<1> HIDE DEF g
<1>6. Ordered(g)
  BY <1>1, <1>3, <1>4, <1>5, Zenon
<1>7. Texts(g) \subseteq Texts(files[0]) \cup {clock}
  BY <1>1, <1>5, Zenon
<1>8. /\ files' \in Logs /\ files'[0] = g
      /\ \A k \in 0 .. MaxArchives : k # 0 => files'[k] = files[k]
  <2>1. files' = [files EXCEPT ![0] = g]
    BY Zenon DEF g
  <2> QED
    BY <1>1, <1>2, <1>5, <2>1, Zenon DEF Logs
<1>9. OrderedLog(files')
  <2>1. \A k \in 0 .. MaxArchives : Ordered(files'[k])
    BY <1>1, <1>6, <1>8, Zenon DEF OrderedLog
  <2>2. ASSUME NEW j \in 0 .. MaxArchives, NEW k \in 0 .. MaxArchives, j < k,
               NEW y \in Texts(files'[k]), NEW z \in Texts(files'[j])
        PROVE  y < z
    <3>1. k # 0 /\ files'[k] = files[k]
      <4>1. k # 0
        BY <2>2
      <4> QED
        BY <1>8, <4>1, Zenon
    <3>2. CASE z \in Texts(files[j])
      BY <1>1, <2>2, <3>1, <3>2, Zenon DEF OrderedLog
    <3>3. CASE z = clock
      BY <1>1, <3>1, <3>3, Zenon DEF Holds
    <3> QED
      BY <1>7, <1>8, <3>2, <3>3, Zenon
  <2> QED
    BY <2>1, <2>2, Zenon DEF OrderedLog
<1>10. ASSUME NEW e, Holds(files', e) PROVE Holds(files, e) \/ e = clock
  <2>1. PICK k \in 0 .. MaxArchives : e \in Texts(files'[k])
    BY <1>10, Zenon DEF Holds
  <2> QED
    BY <1>2, <1>7, <1>8, <2>1, Zenon DEF Holds
<1>11. ASSUME NEW e \in recorded, Holds(files, e) PROVE Holds(files', e)
  <2>1. PICK k \in 0 .. MaxArchives : e \in Texts(files[k])
    BY <1>11, Zenon DEF Holds
  <2>2. CASE k # 0
    BY <1>8, <2>1, <2>2, Zenon DEF Holds
  <2>3. CASE k = 0
    <3>1. e \in Texts(g)
      BY <1>5, <2>1, <2>3, Zenon DEF LogInv, LogOpen
    <3> QED
      BY <1>2, <1>8, <3>1, Zenon DEF Holds
  <2> QED
    BY <2>2, <2>3
<1>12. g[Len(g)].text \in {Garbage, clock}
  BY <1>1, <1>5, Zenon
<1>13. ~IsOpen(files[0]) /\ text = stamp => clock \in Texts(g)
  BY <1>1, <1>5, Zenon
<1> QED
  BY <1>5, <1>8, <1>9, <1>10, <1>11, <1>12, <1>13, Zenon

LEMMA LogWrite ==
    ASSUME LogInv, WriteEntry
    PROVE  LogInv'
<1>1. /\ step.at = "write" /\ files' = [files EXCEPT ![0] = AppendText(@, stamp, TRUE)]
      /\ recorded' = recorded \cup {stamp} /\ clock' = clock /\ ~broken'
      /\ exposed' = IF broken THEN exposed \cup {stamp} ELSE exposed
      /\ step'.at = "none"
  BY DEF WriteEntry, Unlock
<1>2. /\ stamp = clock /\ clock # Garbage /\ clock \in Nat
      /\ recorded \subseteq Nat \ {Garbage}
      /\ \A e \in recorded : e < clock /\ e <= clock
      /\ \A e : Holds(files, e) => e \in Nat /\ e <= clock
      /\ clock <= clock
  <2>1. "write" # "none"
    OBVIOUS
  <2>2. /\ stamp = clock /\ clock # Garbage /\ clock \in Nat
        /\ recorded \subseteq Nat \ {Garbage}
        /\ \A e \in recorded : e < clock /\ e <= clock
        /\ \A e : Holds(files, e) => e \in Nat /\ e <= clock
    BY <1>1, <2>1, Zenon DEF LogInv, LogType, LogStep
  <2>3. clock <= clock
    BY <2>2
  <2> QED
    BY <2>2, <2>3
<1>3. /\ files' \in Logs /\ OrderedLog(files')
      /\ \A e : Holds(files', e) => Holds(files, e) \/ e = clock
      /\ \A e \in recorded : Holds(files, e) => Holds(files', e)
      /\ IsOpen(files'[0]) <=> ~TRUE
      /\ ~IsOpen(files[0]) => clock \in Texts(files'[0])
  BY <1>1, LogLine, Zenon
<1>4. ~broken => clock \in Texts(files'[0]) /\ Holds(files', clock)
  <2>1. 0 \in 0 .. MaxArchives
    BY DiagnosticsAssumption
  <2> QED
    BY <1>3, <2>1, Zenon DEF LogInv, LogOpen, Holds
<1>5. LogType'
  BY <1>1, <1>2, <1>3, Zenon DEF LogType
<1>6. LogStep' /\ LogOpen'
  <2>1. "none" \notin {"remove", "move"} /\ "none" # "move"
    OBVIOUS
  <2> QED
    BY <1>1, <1>3, <2>1, Zenon DEF LogStep, LogOpen
<1>7. LogGap'
  <2> SUFFICES ASSUME NEW e \in recorded' \ exposed', ~Holds(files', e),
                      NEW other, Holds(files', other)
               PROVE  e < other
    BY Zenon DEF LogGap
  <2>1. e \in recorded \ exposed
    BY <1>1, <1>2, <1>4, Zenon
  <2>2. ~Holds(files, e)
    BY <1>3, <2>1, Zenon
  <2> QED
    BY <1>2, <1>3, <2>1, <2>2, Zenon DEF LogInv, LogGap
<1>8. LogNewest'
  <2> SUFFICES ASSUME NEW e \in recorded' \ exposed', \A other \in recorded' : other <= e
               PROVE  e \in Texts(files'[0])
    BY Zenon DEF LogNewest
  <2>1. clock <= e
    BY <1>1, <1>2, Zenon
  <2>2. e = clock
    <3>1. \A d \in Nat : clock <= d => ~(d < clock)
      BY <1>2
    <3> QED
      BY <1>1, <1>2, <2>1, <3>1, Zenon
  <2>3. ~broken
    BY <1>1, <1>2, <2>2, Zenon
  <2> QED
    BY <1>4, <2>2, <2>3, Zenon
<1> QED
  BY <1>5, <1>6, <1>7, <1>8 DEF LogInv

LEMMA LogBreak ==
    ASSUME LogInv, BreakOff
    PROVE  LogInv'
<1>1. step'.at = "none" /\ UNCHANGED <<clock, recorded, exposed>>
  BY DEF BreakOff, Unlock
<1>2. LogStep'
  <2>1. "none" \notin {"remove", "move"} /\ "none" # "move"
    OBVIOUS
  <2> QED
    BY <1>1, <2>1, Zenon DEF LogStep
<1>3. CASE UNCHANGED <<files, broken>>
  BY <1>1, <1>2, <1>3, Zenon DEF LogInv, LogType, LogOpen, LogGap, LogNewest
<1>4. ASSUME step.at = "write", NEW text \in {Garbage, stamp}, broken' = TRUE,
             files' = [files EXCEPT ![0] = AppendText(@, text, FALSE)]
      PROVE  LogInv'
  <2>1. /\ clock \in Nat /\ clock <= clock
        /\ recorded \subseteq Nat \ {Garbage}
        /\ \A e \in recorded : e < clock /\ e <= clock /\ e # clock
        /\ \A e : Holds(files, e) => e \in Nat /\ e <= clock
    <3>1. "write" # "none"
      OBVIOUS
    <3>2. /\ clock \in Nat /\ recorded \subseteq Nat \ {Garbage}
          /\ \A e \in recorded : e < clock /\ e <= clock
          /\ \A e : Holds(files, e) => e \in Nat /\ e <= clock
      BY <1>4, <3>1, Zenon DEF LogInv, LogType, LogStep
    <3>3. clock <= clock /\ ~(clock < clock)
      BY <3>2
    <3> QED
      BY <3>2, <3>3, Zenon
  <2>2. /\ files' \in Logs /\ OrderedLog(files')
        /\ \A e : Holds(files', e) => Holds(files, e) \/ e = clock
        /\ \A e \in recorded : Holds(files, e) => Holds(files', e)
        /\ files'[0][Len(files'[0])].text \in {Garbage, clock}
    BY <1>4, LogLine, Zenon
  <2>3. LogType'
    BY <1>1, <2>1, <2>2, Zenon DEF LogType
  <2>4. LogOpen' /\ LogNewest'
    BY <1>1, <1>4, <2>1, <2>2, Zenon DEF LogOpen, LogNewest
  <2>5. LogGap'
    BY <1>1, <2>1, <2>2, Zenon DEF LogInv, LogGap
  <2> QED
    BY <1>2, <2>3, <2>4, <2>5 DEF LogInv
<1> QED
  BY <1>3, <1>4, Zenon DEF BreakOff

(* The log shows entries in the order of their records, each once, and     *)
(* loses the oldest first: a recorded entry that is not shown is older     *)
(* than all that are, or was the first after a write that broke off        *)
(* (record, rotate, recent), for any number of archives, any file size,    *)
(* and a failure or a crash at any step of a rotation or a write.          *)
THEOREM LogCorrect == Spec => []LogLosesOldest
<1>1. Init => LogInv
  BY LogInit DEF Init
<1>2. ASSUME LogInv, [Next]_vars
      PROVE  LogInv'
  <2>1. CASE UNCHANGED dvars
    BY <1>2, <2>1, Zenon DEF dvars, LogInv, LogType, LogStep, LogOpen, LogGap, LogNewest
  <2>2. \/ UNCHANGED dvars \/ (\E t : StartRecord(t)) \/ CheckSize \/ RemoveOldest \/ MoveUp
        \/ WriteEntry \/ BreakOff
    BY <1>2, Zenon
       DEF Next, BeginFinish, StepAppend, BeginRecord, OtherRecord, Record, Ipc, Stop, vars,
           RecordFails, CrashRecording
  <2> QED
    BY <1>2, <2>1, <2>2, LogStart, LogCheck, LogRemove, LogMove, LogWrite, LogBreak, Zenon
<1>3. LogInv => LogLosesOldest
  BY LogShown
<1> QED
  BY <1>1, <1>2, <1>3, PTL DEF Spec
=============================================================================
