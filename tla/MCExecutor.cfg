SPECIFICATION FairSpec
CONSTANT MaxPendingProgress = 1
INVARIANTS
  KeptMeansSnapshot
  DestructiveOnlyWhenAllowed
  PowerFollowsRestic
PROPERTIES
  RetentionKeepsBackup
  CancelEndsTask
  RepositoryTaskEnds
  ImplementsTask
