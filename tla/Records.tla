------------------------------- MODULE Records ------------------------------
(***************************************************************************)
(* What a finished backup leaves behind (finish_backup_at, lifecycle.rs):  *)
(* the event loop appends the run to the history, then saves state.json,   *)
(* then records a diagnostic.  Other records come before: a worker makes   *)
(* its own before it sends the event that ends it, and the next worker     *)
(* starts when the loop is done.  The IPC thread reads the history at any  *)
(* time.  The service may stop anywhere.                                   *)
(***************************************************************************)
EXTENDS History, Diagnostics

VARIABLE finishing  \* where the event loop is in finish_backup_at

vars == <<hvars, dvars, finishing>>

\* A completed backup: the history first.
BeginFinish ==
  /\ finishing = "idle" /\ lock = Nobody
  /\ Open("append")
  /\ finishing' = "append"
  /\ UNCHANGED dvars

StepAppend ==
  /\ finishing = "append"
  /\ \/ ReadVersion("append") \/ LookAtTables("append") \/ Migrate("append")
     \/ Fail("append")
     \/ \E now \in 0..MaxTime, x \in Executions :
          \E outcome \in {Outcome(x), WithWarning(Outcome(x))} : AppendRun(now, x, outcome)
  /\ finishing' = IF conn'["append"] = Closed THEN "record" ELSE "append"
  /\ UNCHANGED dvars

\* ... then the diagnostic, whether or not the history took the run.
BeginRecord ==
  /\ finishing = "record"
  /\ StartRecord("loop")
  /\ finishing' = "recording"
  /\ UNCHANGED hvars

\* A worker, or the loop for another reason.
OtherRecord ==
  /\ finishing = "idle"
  /\ \E t \in Recorders \ {"loop"} : StartRecord(t)
  /\ UNCHANGED <<hvars, finishing>>

Record ==
  /\ CheckSize \/ RemoveOldest \/ MoveUp \/ WriteEntry \/ RecordFails
  /\ finishing' = IF lock = "loop" /\ lock' = Nobody THEN "idle" ELSE finishing
  /\ UNCHANGED hvars

\* The IPC thread: a request that lists runs, one that asks for the details.
Ipc ==
  /\ \/ Open("reader") \/ ReadVersion("reader") \/ LookAtTables("reader")
     \/ Migrate("reader") \/ Fail("reader") \/ Read
  /\ UNCHANGED <<dvars, finishing>>

Stop ==
  /\ StopService
  /\ CrashRecording \/ (lock = Nobody /\ UNCHANGED dvars)
  /\ finishing' = "idle"

Init == HInit /\ DInit /\ finishing = "idle"

Next == BeginFinish \/ StepAppend \/ BeginRecord \/ OtherRecord \/ Record \/ Ipc \/ Stop

Spec == Init /\ [][Next]_vars

-----------------------------------------------------------------------------
(* Whatever order the clock puts the runs in, the table holds the newest   *)
(* MaxStoredRuns of all runs ever committed: pruning after every append    *)
(* loses none that a later prune would have kept (prune).                  *)
NewestRunsKept ==
  /\ rows \subseteq ever
  /\ \A r \in ever \ rows : Cardinality(rows) = MaxStoredRuns /\ \A q \in rows : Newer(q, r)
  /\ Cardinality(rows) <= MaxStoredRuns

(* The database can always be brought to the current schema: no crash and  *)
(* no second connection leaves a version whose migration would fail for    *)
(* ever (initialize_schema, migrate_legacy_schema).                        *)
SchemaNeverStuck ==
  /\ schema.version = 1 => schema.runs /\ ~schema.omitted
  /\ schema.version = 2 => schema.runs /\ schema.omitted

(* What the run of an execution may store.                                 *)
Accounted(run, x) ==
  LET d == run.failures
      heard == IF x.stderr.read THEN x.stdout.lines \o x.stderr.lines ELSE x.stdout.lines
      named == Range(heard) \ {Nameless}
  IN  /\ run.kind # "succeeded_with_warnings" \/ ~Warns(x) => d = NoDetails
      /\ Range(d.items) \subseteq named \ UnsafeItems
      /\ IsInjective(d.items)
      /\ Len(d.items) <= MaxFailedItems
      /\ Warns(x) => Cardinality(named) <= Len(d.items) + d.omitted
      /\ Len(d.items) + d.omitted <= Len(heard)

(* Every stored run has its failure details and no pruned run has any.     *)
(* They are empty unless the run ended with warnings.  When restic left    *)
(* items out (exit 3, or a VSS warning), every item named in a line that   *)
(* parsed on a pipe that was read to its end is stored or counted as       *)
(* omitted, the count never exceeds those lines, and no stored item is     *)
(* unsafe, repeated or unknown to restic (push, merge, finish_outcome,     *)
(* with_warning, normalize_failure_details, append, prune).                *)
FailuresAccounted ==
  /\ DOMAIN details = {r.id : r \in rows}
  /\ \A i \in DOMAIN details : Accounted(details[i], said[i])

(* The log shows entries in the order of their records, each once.  A      *)
(* recorded entry it does not show is older than all it shows, or was the  *)
(* first after a write that broke off, which may join its line to the      *)
(* broken one; and unless a write has broken off since, the newest         *)
(* recorded entry is shown.  So rotation, a rename that fails and a crash  *)
(* between two renames drop the oldest entries only (record, rotate,       *)
(* recent).                                                                *)
LogLosesOldest ==
  LET shown == Readable(files)
  IN  /\ \A i, j \in DOMAIN shown : i < j => shown[i] < shown[j]
      /\ \A e \in recorded \ (exposed \cup Range(shown)) : \A other \in Range(shown) : e < other
      /\ ~broken => \A e \in recorded : \/ e \in exposed \cup Range(shown)
                                        \/ \E newer \in recorded : e < newer
=============================================================================
