CONSTANTS
    Settings <- MCSettings
    Levels = {0, 1, 3, 6}
    SilenceEnd = 2
    MusicDiscard = 2
    JingleMax = 3
    Adjacency = 1
    MaxWindows = 5
    Stations = {s1, s2}
    Contents = {c1, c2}
    MaxVersions = 2
    MaxSegments = 1
    MaxRestarts = 1
    Keywords <- MCKeywords
    Alphabet = {"a", "w", "k", "^", "~", "-"}
    MaxSegment = 2
    MaxKeywords = 2
    Campaigns = {p1, p2}
    Cue <- MCCue
    Surface <- MCSurface
    MinWords = 3
    IdentWords = 4
    LongWords = 6
    MaxRefs = 2
    SpokenParts <- MCParts
    MaxParts = 3
    StoredPolicies <- MCPolicies
    LyricsDefault = FALSE
    Replies <- MCReplies
SYMMETRY MCSymmetry
SPECIFICATION ContentSpec
INVARIANTS DropsOnlyTheDispensable VoiceIsKept MatcherIsCurrent EveryUtteranceOnce StoredWordsWereSaid OwnersAreTold
