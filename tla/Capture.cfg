CONSTANTS
    Capacity = 11
    MaxAppend = 3
    WindowLen = 2
    Chunk = 4
    Overlap = 1
    Lead = 1
    MaxTotal = 13
    MaxGenerations = 2
SPECIFICATION Spec
INVARIANTS SegmentsAreExact SpeechSurvives
CHECK_DEADLOCK FALSE
