CONSTANTS
    None = None
    Configurations <- TwoSchedules
    FailureRetry = 1
    MaxExponent = 1
    ConditionRetry = 1
    LongestSleep = 3
    Deferrals = {4}
    ClockChanges = {}
    Suspensions = {}
    Enrolls = TRUE
    MaxFailures = 4
    MaxNow = 5
SPECIFICATION Spec
INVARIANTS
    DueWithinInterval
    BackoffIsBounded
PROPERTIES
    NoBusySpin
