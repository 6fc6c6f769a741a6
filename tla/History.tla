------------------------------- MODULE History ------------------------------
(***************************************************************************)
(* The SQLite run history (history.rs) and the failure details that go     *)
(* into it (executor.rs).  Every call opens a connection of its own, looks *)
(* at the schema version, migrates if it has to, and works in one          *)
(* transaction, which SQLite makes atomic.  The event loop appends; the    *)
(* IPC thread reads, and may be the one that migrates.                     *)
(***************************************************************************)
EXTENDS Naturals, Sequences, FiniteSets, Functions

CONSTANTS
  MaxStoredRuns,   \* MAX_STORED_RUNS
  MaxFailedItems,  \* MAX_BACKUP_FAILED_ITEMS
  Items,           \* names of source items
  UnsafeItems,     \* those is_safe_backup_failed_item rejects
  Executions,      \* what a backup run of restic may come to, see below
  MaxTime,         \* bound: values of the wall clock
  MaxRuns          \* bound: runs appended

ASSUME HistoryAssumption ==
  /\ MaxStoredRuns \in Nat \ {0}
  /\ MaxFailedItems \in Nat \ {0}
  /\ UnsafeItems \subseteq Items
  /\ MaxTime \in Nat
  /\ MaxRuns \in Nat

VARIABLES
  schema,   \* the file: its user_version and whether the omitted column exists
  rows,     \* backup_runs: the id and the completion time of each
  details,  \* for the id of each run its outcome, backup_run_failed_items and omitted
  lastId,   \* sqlite_sequence: AUTOINCREMENT never reuses an id
  conn,     \* the connection of each thread
  ever,     \* every run ever committed
  said      \* for the id of each stored run the execution it reports

hvars == <<schema, rows, details, lastId, conn, ever, said>>
tables == <<rows, details, lastId, ever, said>>

-----------------------------------------------------------------------------
(***************************************************************************)
(* BackupFailureDetails.  An error without an item name is counted only.   *)
(***************************************************************************)
Nameless == "nameless"
NoDetails == [items |-> <<>>, omitted |-> 0]

\* Mutant: an item over the limit is dropped without being counted.
PushSilently(d, item) ==
  IF item # Nameless /\ item \in Range(d.items) THEN d
  ELSE IF item = Nameless \/ item \in UnsafeItems THEN [d EXCEPT !.omitted = @ + 1]
  ELSE IF Len(d.items) >= MaxFailedItems THEN d ELSE [d EXCEPT !.items = Append(@, item)]

Push(d, item) ==
  IF item # Nameless /\ item \in Range(d.items) THEN d
  ELSE IF item = Nameless \/ item \in UnsafeItems \/ Len(d.items) >= MaxFailedItems
       THEN [d EXCEPT !.omitted = @ + 1]
       ELSE [d EXCEPT !.items = Append(@, item)]

\* One item after the other.
PushAll(d, items) ==
  LET after[n \in 0..Len(items)] == IF n = 0 THEN d ELSE Push(after[n - 1], items[n])
  IN  after[Len(items)]

\* read_json_output over the error lines of one pipe.
ReadFailures(lines) == PushAll(NoDetails, lines)

\* BackupFailureDetails::merge.
Merge(d, other) ==
  LET pushed == PushAll(d, other.items)
  IN  [pushed EXCEPT !.omitted = @ + other.omitted]

\* normalize_failure_details, before the transaction.
Normalize(d) ==
  LET again == PushAll(NoDetails, d.items)
  IN  [again EXCEPT !.omitted = @ + d.omitted]

(***************************************************************************)
(* An execution of restic for a backup: its exit ("ok" is 0, "partial" 3,  *)
(* "interrupted" 130), whether a summary came, and of each pipe whether    *)
(* its reader reached the end, whether a VSS error was in it, and the      *)
(* error lines that parse.  An execution that returns before               *)
(* finish_outcome reports like one that was interrupted or failed.         *)
(***************************************************************************)
Pipes == [read : BOOLEAN, vss : BOOLEAN, lines : Seq(Items \cup {Nameless})]
Exits == {"ok", "partial", "interrupted", "other"}

ASSUME ExecutionsAssumption ==
  \A x \in Executions : /\ x.exit \in Exits /\ x.summary \in BOOLEAN
                        /\ x.stdout \in Pipes /\ x.stderr \in Pipes

\* A reader of stderr that failed takes its items with it.
FailureDetails(x) ==
  IF x.stderr.read THEN Merge(ReadFailures(x.stdout.lines), ReadFailures(x.stderr.lines))
                   ELSE ReadFailures(x.stdout.lines)

\* finish_outcome ends with a warning of the backup itself.
Warns(x) ==
  /\ x.stdout.read /\ x.summary
  /\ \/ x.exit = "partial"
     \/ x.exit = "ok" /\ (x.stdout.vss \/ (x.stderr.read /\ x.stderr.vss))

\* finish_outcome: only a warning takes the failure details with it.
Outcome(x) ==
  [kind |-> CASE x.exit = "interrupted" -> "cancelled"
              [] Warns(x) -> "succeeded_with_warnings"
              [] x.exit = "ok" /\ x.stdout.read /\ x.summary /\ ~Warns(x) -> "succeeded"
              [] OTHER -> "failed",
   failures |-> IF Warns(x) THEN FailureDetails(x) ELSE NoDetails]

\* with_warning: retention may have had a warning of its own.
WithWarning(o) ==
  IF o.kind = "succeeded" THEN [o EXCEPT !.kind = "succeeded_with_warnings"] ELSE o

-----------------------------------------------------------------------------
Threads == {"append", "reader"}
Closed == [pc |-> "closed", plan |-> "none"]
NoFile == [version |-> 0, file |-> FALSE, runs |-> FALSE, omitted |-> FALSE]
Release(version, omitted) ==
  [version |-> version, file |-> TRUE, runs |-> TRUE, omitted |-> omitted]
Current == Release(2, TRUE)

\* ORDER BY completed_at_ms DESC, id DESC
Newer(r, q) == r.completed > q.completed \/ (r.completed = q.completed /\ r.id > q.id)

\* Mutant: one run too many.
NewestAndOne(S) == {r \in S : Cardinality({q \in S : Newer(q, r)}) <= MaxStoredRuns}

\* ... LIMIT MAX_STORED_RUNS
Newest(S) == {r \in S : Cardinality({q \in S : Newer(q, r)}) < MaxStoredRuns}

At(t, place) == conn[t].pc = place
GoTo(t, place, plan) == conn' = [conn EXCEPT ![t] = [pc |-> place, plan |-> plan]]
Close(t) == conn' = [conn EXCEPT ![t] = Closed]

\* connection(): opening creates the file; recent and failure_details return
\* at once when there is none.
Open(t) ==
  /\ At(t, "closed")
  /\ t = "append" => Cardinality(ever) < MaxRuns
  /\ t = "reader" => schema.file
  /\ schema' = [schema EXCEPT !.file = TRUE]
  /\ GoTo(t, "opened", "none")
  /\ UNCHANGED tables

\* initialize_schema, the reads: the version, then the tables it finds.
ReadVersion(t) ==
  /\ At(t, "opened")
  /\ CASE schema.version > 2 -> Close(t)
       [] schema.version = 2 -> GoTo(t, "ready", "none")
       [] schema.version = 1 -> GoTo(t, "migrate", "add_column")
       [] OTHER -> GoTo(t, "look", "none")
  /\ UNCHANGED <<schema, tables>>

LookAtTables(t) ==
  /\ At(t, "look")
  /\ GoTo(t, "migrate", IF ~schema.runs THEN "create"
                        ELSE IF ~schema.omitted THEN "add_column" ELSE "add_items")
  /\ UNCHANGED <<schema, tables>>

\* Mutant: user_version is written after the transaction, and a crash or an
\* error may come first.
MigrateThenVersion(t) ==
  /\ At(t, "migrate")
  /\ IF \/ conn[t].plan = "create" /\ schema.runs
        \/ conn[t].plan = "add_column" /\ schema.omitted
     THEN Close(t) /\ UNCHANGED schema
     ELSE \/ schema' = Current /\ GoTo(t, "ready", "none")
          \/ schema' = Release(schema.version, TRUE) /\ Close(t)
  /\ UNCHANGED tables

\* One transaction with user_version in it.  CREATE TABLE fails when another
\* connection was first, ADD COLUMN when it has added the column.
Migrate(t) ==
  /\ At(t, "migrate")
  /\ IF \/ conn[t].plan = "create" /\ schema.runs
        \/ conn[t].plan = "add_column" /\ schema.omitted
     THEN Close(t) /\ UNCHANGED schema
     ELSE schema' = Current /\ GoTo(t, "ready", "none")
  /\ UNCHANGED tables

\* f with x for the new run, without the runs that were pruned.
Extend(f, x) == [i \in {r.id : r \in rows'} |-> IF i = lastId + 1 THEN x ELSE f[i]]

\* append: the run, its items and prune in one transaction; the items of a
\* pruned run go with it (ON DELETE CASCADE).  The wall clock may have been
\* set back since the last run.
AppendRun(now, x, outcome) ==
  /\ At("append", "ready")
  /\ LET run == [id |-> lastId + 1, completed |-> now]
     IN  /\ rows' = Newest(rows \cup {run})
         /\ lastId' = run.id
         /\ ever' = ever \cup {run}
  /\ details' = Extend(details, [kind |-> outcome.kind, failures |-> Normalize(outcome.failures)])
  /\ said' = Extend(said, x)
  /\ Close("append")
  /\ UNCHANGED schema

\* recent and failure_details only read.
Read ==
  /\ At("reader", "ready")
  /\ Close("reader")
  /\ UNCHANGED <<schema, tables>>

\* Any step of a call may fail (busy, disk, ACL); the transaction rolls back.
Fail(t) ==
  /\ ~At(t, "closed")
  /\ Close(t)
  /\ UNCHANGED <<schema, tables>>

StopService ==
  /\ conn' = [t \in Threads |-> Closed]
  /\ UNCHANGED <<schema, tables>>

-----------------------------------------------------------------------------
\* No database yet, or one an earlier or a later release left behind.
HInit ==
  /\ schema \in {NoFile, Release(0, FALSE), Release(0, TRUE), Release(1, FALSE), Current,
                 Release(3, TRUE)}
  /\ rows = {} /\ ever = {} /\ lastId = 0
  /\ details = <<>> /\ said = <<>>
  /\ conn = [t \in Threads |-> Closed]
=============================================================================
