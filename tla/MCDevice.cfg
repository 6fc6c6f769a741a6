SPECIFICATION FairSpec
CONSTANTS
    Sources = {s1, s2}
    NoSource = NoSource
    Variables = {"password"}
    MaxSequence = 2
    MaxReferences = 4
    MaxFaults = 1
CHECK_DEADLOCK FALSE
INVARIANTS
    NoDanglingReference
    NothingLeaks
    PolicyOfCurrentSource
PROPERTIES
    RevisionReachesDevice
