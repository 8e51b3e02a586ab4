CONSTANTS
    Events = {1, 2, 3}
    Group <- MCGroup
    Wired = {1, 2}
    Dispatchers = {d1}
    BatchSize = 2
    MaxAttempts = 2
    MaxRejects = 2
    MaxCrashes = 1
SPECIFICATION FairSpec
INVARIANTS NoSilentStall GroupOrderUntilFailure
PROPERTY EventuallyResolved
CHECK_DEADLOCK FALSE
