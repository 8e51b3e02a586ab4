CONSTANTS
    Remotes = 1
    Threshold = 2
    ResetTime = 1
    RetryTime = 1
    Repairs = 1
    Conversations <- MCConversations
    Nobody = Nobody
    Unclippable = {1}
    PageSize = 1
    EvidenceBatch = 1
    HealBatch = 1
    MaxFaults = 1
    MaxChanges = 1
SPECIFICATION FairSpec
INVARIANT ExportedIsWhole
PROPERTIES RealAnalysisStays IdleTicksCatchUp
