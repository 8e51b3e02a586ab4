CONSTANTS
    Classes = {"speech", "music"}
    Gaps = {0, 2}
    PreKeyword = 2
    SilenceEnd = 2
    MaxDuration = 5
    MaxPreroll = 2
    MaxSegments = 3
    MaxAired = 4
    MaxDropouts = 1
    MaxPending = 2
    MaxRepeats = 1
    AcrossSessions = FALSE
SPECIFICATION Spec
INVARIANTS  NoHitDropped DistinctIds EndsInTime
CHECK_DEADLOCK FALSE
