\* A port with read deadlines: two ports, four lines, a channel for one.
SPECIFICATION FairSpec
CONSTANTS
    Token = TRUE
    Deadlines = TRUE
    RecvCap = 1
    MaxPorts = 2
    MaxLines = 4
    WireCap = 2
INVARIANTS
    TypeOK
    NoLineSkipped
    AuthBeforeUse
PROPERTIES
    CloseStops
    LossIsNoticed
CHECK_DEADLOCK FALSE
