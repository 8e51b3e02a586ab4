CONSTANTS
    Campaigns = {c1}
    Stations = {"a"}
    Entities <- MCEntities
    Names <- MCNames
    Starts <- MCStarts
    Results <- MCResults
    Document <- MCDocument
    Absent = Absent
    Keep = Keep
    MaxObjects = 1
    MaxRevision = 2
    MaxVersions = 1
    MaxMishaps = 1
    Said <- MCSaid
    Concepts = {1}
    Texts = {"t1", "t2"}
    Verbatim = "t1"
    GroupsPerCycle = 1
    Batch = 1
    RetryLimit = 2
    NoMention = NoMention
SPECIFICATION FairMentionSpec
INVARIANTS MentionsFollowTheRecord ScanOnce ReadyHasDocument
PROPERTIES EverythingSettles
