\* Two balloon routes, two waiting messages, two attempts, one restart of the service, any number
\* of Explorer's.
SPECIFICATION FairSpec
CONSTANTS
    MaxPendingBalloonRoutes = 2
    RestartsOverlap = FALSE
    FastPollTicks = 1
    MaxAttempts = 2
    MaxRestarts = 1
    MaxMessages = 2
INVARIANTS
    ClickOpensItsPage
    AnnouncesRequestedBackup
PROPERTY
    WatchEnds
CHECK_DEADLOCK FALSE
