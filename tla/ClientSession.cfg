\* Two sessions, three notifications, one Close, one replaced callback.
SPECIFICATION FairSpec
CONSTANTS
    NoNumber = NoNumber
    Bad = Bad
    Empty = Empty
    Versions <- TwoVersions
    MaxSessions = 2
    MaxCloses = 1
    MaxEvents = 3
    MaxIds = 2
    MaxSets = 1
    NotifyCap = 1
    WireCap = 2
    MaxInputs = 4
INVARIANTS
    TypeOK
    LoopNeverBehind
    StaleAtMostOnce
    NilMeansCompatible
    AnswersAreRead
PROPERTIES
    CallbackCallsReturn
CHECK_DEADLOCK FALSE
