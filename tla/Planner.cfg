CONSTANTS
    Stations = {1, 2}
    Campaigns = {"a", "b"}
    Members <- MCMembers
    Unresolvable = {1}
    Grace = 2
    RetryTime = 2
    Budget = 1
    MaxSwitches = 3
    MaxCrashes = 1
SPECIFICATION FairSpec
PROPERTIES GraceHonoured PlanFollowsCampaigns
