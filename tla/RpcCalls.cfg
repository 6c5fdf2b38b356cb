\* Two goroutines, two calls, a lossy transport.
SPECIFICATION Spec
CONSTANTS
    c1 = c1
    c2 = c2
    Callers <- TwoCallers
    MaxCalls = 2
    NotifyCap = 1
    MaxEvents = 0
    WireCap = 1
    Lossy = TRUE
    Duplicates = FALSE
SYMMETRY CallerSymmetry
INVARIANTS
    OwnAnswer
    ReaderNeverBlocks
PROPERTIES
    ImplementsService
CHECK_DEADLOCK FALSE
