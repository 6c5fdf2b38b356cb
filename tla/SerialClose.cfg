\* A port without read deadlines, as go.bug.st opens it, and a device that says nothing.
SPECIFICATION FairSpec
CONSTANTS
    Token = TRUE
    Deadlines = FALSE
    RecvCap = 1
    MaxPorts = 1
    MaxLines = 0
    WireCap = 0
PROPERTIES
    CloseStops
CHECK_DEADLOCK FALSE
