\* One goroutine, two captures, a device that reports anything.
SPECIFICATION FairSpec
CONSTANTS
    c1 = c1
    c2 = c2
    Callers <- OneCaller
    MaxBytes = 3
    Sizes <- WildSizes
    MaxChunk = 4
    MaxFrames = 2
    Honest = FALSE
INVARIANTS
    TypeOK
    NeverOverruns
    ShotIsComplete
PROPERTIES
    CaptureEnds
CHECK_DEADLOCK FALSE
