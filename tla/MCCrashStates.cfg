SPECIFICATION Spec
CONSTANTS
    NumCalls = 5
    Service <- MCService
    Path <- MCPath
    Trace <- MCTrace
    Pruning = TRUE
INVARIANTS
    TypeOK
    ConsistentCuts
    ServerPrefix
    FlushedBeforePivot
    OneOfEach
    NoImageLost
CHECK_DEADLOCK FALSE
