\* Two reconnect loops, two losses, one Close, with and without a token.
SPECIFICATION FairSpec
CONSTANTS
    l1 = l1
    l2 = l2
    User = User
    Adapter = Adapter
    Loops <- TwoLoops
    Tokens <- AnyToken
    MaxLosses = 2
    MaxConnects = 2
    MaxCloses = 1
    MaxReports = 2
INVARIANTS
    TypeOK
    LoopsBounded
    RefusalHasLoop
    TokenNeverReconnects
PROPERTIES
    LossIsRepaired
    CloseEndsLoops
CHECK_DEADLOCK FALSE
