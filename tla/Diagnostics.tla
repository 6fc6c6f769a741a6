----------------------------- MODULE Diagnostics ----------------------------
(***************************************************************************)
(* The rotating diagnostic log (diagnostics.rs).  Threads record under one *)
(* lock; a record that would overflow the file first rotates it, one       *)
(* remove and a rename per archive, each of which may fail or be the last  *)
(* thing the process does; a write may break off anywhere.  Entries are    *)
(* numbered in the order of their records.                                 *)
(***************************************************************************)
EXTENDS Naturals, Sequences, Functions

CONSTANTS
  Recorders,   \* the threads that record
  MaxArchives, \* MAX_ARCHIVES
  MaxLog,      \* MAX_LOG_BYTES, in the shortest entries
  MaxEntries   \* bound: entries numbered

ASSUME DiagnosticsAssumption ==
  /\ MaxArchives \in Nat \ {0}
  /\ MaxLog \in Nat \ {0}
  /\ MaxEntries \in Nat

VARIABLES
  files,     \* service.jsonl is file 0, its archives are 1 to MaxArchives
  lock,      \* the thread that holds write_lock
  stamp,     \* the entry that thread is recording
  step,      \* where it is: "check", a file to move up, "write"
  clock,     \* the entries numbered so far
  recorded,  \* the entries whose record() returned Ok
  broken,    \* a write has broken off since the last of them
  exposed    \* the recorded entries that were the first after a broken write

logged == <<recorded, broken, exposed>>
dvars == <<files, lock, stamp, step, clock, recorded, broken, exposed>>

Nobody == "nobody"
Missing == <<>>

\* A line: the entry read_entries parses from it, if any, and whether it has
\* its newline.  What is appended to a line without one becomes part of it,
\* and the whole does not parse.
Garbage == 0
Lines == [text : Nat, ended : BOOLEAN]
IsOpen(file) == file # Missing /\ ~file[Len(file)].ended

AppendText(file, text, ended) ==
  IF IsOpen(file) THEN [file EXCEPT ![Len(file)] = [text |-> Garbage, ended |-> ended]]
                  ELSE Append(file, [text |-> text, ended |-> ended])

\* read_entries: a line that does not parse is skipped.
Entries(file) ==
  LET read[n \in 0..Len(file)] ==
        IF n = 0 THEN <<>>
        ELSE IF file[n].text # Garbage THEN Append(read[n - 1], file[n].text) ELSE read[n - 1]
  IN  read[Len(file)]

\* Mutant: the archives are read from the newest on.
ReadableForward(fs) ==
  LET shown[i \in 0..MaxArchives] ==
        IF i = 0 THEN Entries(fs[i]) ELSE shown[i - 1] \o Entries(fs[i])
  IN  shown[MaxArchives]

\* recent: the archives from the oldest on, then the current file.
Readable(fs) ==
  LET shown[n \in 0..(MaxArchives + 1)] ==  \* by the n oldest files
        IF n = 0 THEN <<>> ELSE shown[n - 1] \o Entries(fs[MaxArchives + 1 - n])
  IN  shown[MaxArchives + 1]

-----------------------------------------------------------------------------
\* The lock comes first, then the timestamp.
StartRecord(t) ==
  /\ lock = Nobody
  /\ clock < MaxEntries
  /\ lock' = t
  /\ clock' = clock + 1
  /\ stamp' = clock + 1
  /\ step' = [at |-> "check", file |-> 0]
  /\ UNCHANGED <<files, logged>>

Unlock == lock' = Nobody /\ step' = [at |-> "none", file |-> 0] /\ stamp' = 0

\* Entries differ in length: a file may be full with any number of lines up
\* to MaxLog, and an empty one has room.
CheckSize ==
  /\ step.at = "check"
  /\ \/ /\ files[0] # Missing
        /\ step' = [at |-> "remove", file |-> MaxArchives]
     \/ /\ Len(AppendText(files[0], stamp, TRUE)) <= MaxLog
        /\ step' = [at |-> "write", file |-> 0]
  /\ UNCHANGED <<files, lock, stamp, clock, logged>>

RemoveOldest ==
  /\ step.at = "remove"
  /\ files' = [files EXCEPT ![MaxArchives] = Missing]
  /\ step' = [at |-> "move", file |-> MaxArchives - 1]
  /\ UNCHANGED <<lock, stamp, clock, logged>>

\* Renaming file k to k + 1; a missing file is skipped.
MoveUp ==
  /\ step.at = "move"
  /\ files' = [files EXCEPT ![step.file + 1] =
                                IF files[step.file] = Missing THEN @ ELSE files[step.file],
                            ![step.file] = Missing]
  /\ step' = IF step.file = 0 THEN [at |-> "write", file |-> 0]
             ELSE [at |-> "move", file |-> step.file - 1]
  /\ UNCHANGED <<lock, stamp, clock, logged>>

\* write_all, and Ok.
WriteEntry ==
  /\ step.at = "write"
  /\ files' = [files EXCEPT ![0] = AppendText(@, stamp, TRUE)]
  /\ recorded' = recorded \cup {stamp}
  /\ exposed' = IF broken THEN exposed \cup {stamp} ELSE exposed
  /\ broken' = FALSE
  /\ Unlock
  /\ UNCHANGED clock

\* The record ends early, in write_all perhaps after part of the line: all of
\* it but the newline, or less.  What was moved stays moved.
BreakOff ==
  /\ lock # Nobody
  /\ \/ UNCHANGED <<files, broken>>
     \/ /\ step.at = "write"
        /\ \E text \in {Garbage, stamp} :
             files' = [files EXCEPT ![0] = AppendText(@, text, FALSE)]
        /\ broken' = TRUE
  /\ Unlock
  /\ UNCHANGED <<clock, recorded, exposed>>

\* An I/O error ends the record.
RecordFails == BreakOff

\* The process ends.
CrashRecording == BreakOff

DInit ==
  /\ files = [i \in 0..MaxArchives |-> Missing]
  /\ lock = Nobody
  /\ stamp = 0
  /\ step = [at |-> "none", file |-> 0]
  /\ clock = 0
  /\ recorded = {} /\ exposed = {} /\ broken = FALSE
=============================================================================
