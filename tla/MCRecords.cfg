SPECIFICATION Spec
CONSTANTS
  MaxStoredRuns = 1
  MaxFailedItems = 1
  a = a
  b = b
  c = c
  Items = {a, b, c}
  Executions <- MCExecutions
  UnsafeItems = {c}
  MaxTime = 1
  MaxRuns = 3
  Recorders = {"loop", "worker"}
  MaxArchives = 2
  MaxLog = 2
  MaxEntries = 4
INVARIANTS
  NewestRunsKept
  SchemaNeverStuck
  FailuresAccounted
  LogLosesOldest
CHECK_DEADLOCK FALSE
