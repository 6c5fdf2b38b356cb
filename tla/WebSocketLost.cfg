\* A goroutine that enters reconnect after another one has reconnected.
SPECIFICATION Spec
CONSTANTS
    s1 = s1
    s2 = s2
    g1 = g1
    g2 = g2
    Receiver = Receiver
    Senders <- TwoSenders
    Spawned <- TwoSpawned
    MaxConns = 3
INVARIANTS
    OnDisconnectMeansLost
CHECK_DEADLOCK FALSE
