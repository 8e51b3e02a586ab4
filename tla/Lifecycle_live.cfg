CONSTANTS
    Segments <- MCSegments
    Nobody = Nobody
    MaxCrashes = 1
    MaxRaises = 0
    MaxLost = 0
SPECIFICATION FairSpec
PROPERTIES
    PendingJobResolved
    DisposableReclaimed
CHECK_DEADLOCK FALSE
