CONSTANTS
    a1 = a1
    a2 = a2
    b1 = b1
    Group <- MCGroup
    Nobody = Nobody
    MaxMessages = 2
    Ids = {a1, a2, b1}
    MaxCopies = 3
    Consumers = {c1}
    MaxRetries = 1
    MaxCrashes = 1
SPECIFICATION FairSpec
INVARIANTS NothingLost 
PROPERTIES  EventuallyDrained
CHECK_DEADLOCK FALSE
