\* One sender and one reconnect goroutine besides the receiver, three connections.
SPECIFICATION FairSpec
CONSTANTS
    s1 = s1
    s2 = s2
    g1 = g1
    g2 = g2
    Receiver = Receiver
    Senders <- OneSender
    Spawned <- OneSpawned
    MaxConns = 3
INVARIANTS
    TypeOK
    OneReconnector
    BackoffSchedule
PROPERTIES
    ConnOnlyGetsNewer
    LastInstall
    CloseEndsAll
    ReconnectEnds
CHECK_DEADLOCK FALSE
