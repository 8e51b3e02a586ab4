CONSTANTS
    Stations = {s1}
    Pinned = {p}
    Campaigns = {c1}
    Requests = {r1, r2}
    ActiveLimit = 2
    MaxFaults = 1
    Absent = Absent
SPECIFICATION FairSpec
INVARIANTS  PinnedStaysUp
PROPERTIES CampaignsDecide
CHECK_DEADLOCK FALSE
