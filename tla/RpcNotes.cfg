\* One call among four notifications and a queue of two, over a transport that loses
\* nothing: the order of notifications, and every liveness property.
SPECIFICATION FairSpec
CONSTANTS
    c1 = c1
    c2 = c2
    Callers <- OneCaller
    MaxCalls = 1
    NotifyCap = 2
    MaxEvents = 4
    WireCap = 1
    Lossy = FALSE
    Duplicates = FALSE
INVARIANTS
    TypeOK
    NotesInOrder
PROPERTIES
    StopStopsReader
    EndedCallsReturn
    AnsweredCallsReturn
CHECK_DEADLOCK FALSE
