------------------------------ MODULE MCRecords -----------------------------
EXTENDS Records

CONSTANTS a, b, c

Pipe(read, vss, lines) == [read |-> read, vss |-> vss, lines |-> lines]
Execution(exit, summary, stdout, stderr) ==
  [exit |-> exit, summary |-> summary, stdout |-> stdout, stderr |-> stderr]
Silent == Pipe(TRUE, FALSE, <<>>)

\* Items on both pipes, over the limit and unsafe; a VSS warning with a pipe
\* that was not read; and two that keep nothing of what restic named.
MCExecutions == {
  Execution("partial", TRUE, Pipe(TRUE, FALSE, <<a, c>>), Pipe(TRUE, FALSE, <<a, b>>)),
  Execution("ok", TRUE, Pipe(TRUE, TRUE, <<Nameless>>), Pipe(FALSE, FALSE, <<b>>)),
  Execution("ok", TRUE, Pipe(TRUE, FALSE, <<a>>), Silent),
  Execution("partial", FALSE, Pipe(TRUE, FALSE, <<a>>), Silent)}
=============================================================================
