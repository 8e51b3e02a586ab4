CONSTANTS
    Segments <- MCSegments
    Nobody = Nobody
    MaxCrashes = 1
    MaxRaises = 1
    MaxLost = 1
SPECIFICATION Spec
INVARIANTS
    NeededAudioKept
    NoStrandedFile
    
    ClipHasEveryHit
PROPERTY DispositionIsFinal
CHECK_DEADLOCK FALSE
