\* One call and a device that may answer it twice: Stop does not stop the reader.
SPECIFICATION FairSpec
CONSTANTS
    c1 = c1
    c2 = c2
    Callers <- OneCaller
    MaxCalls = 1
    NotifyCap = 1
    MaxEvents = 0
    WireCap = 1
    Lossy = FALSE
    Duplicates = TRUE
PROPERTIES
    StopStopsReader
CHECK_DEADLOCK FALSE
