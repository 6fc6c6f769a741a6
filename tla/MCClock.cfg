CONSTANTS
    None = None
    Configurations <- TwoSchedules
    FailureRetry = 1
    MaxExponent = 0
    ConditionRetry = 1
    LongestSleep = 3
    Deferrals = {3}
    ClockChanges = {0, 2}
    Suspensions = {1}
    Enrolls = FALSE
    MaxFailures = 0
    MaxNow = 3
SPECIFICATION Spec
INVARIANTS
    NeverOversleeps
PROPERTIES
    StartsOnlyWhenDue
