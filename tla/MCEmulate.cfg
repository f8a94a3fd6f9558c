SPECIFICATION Spec
CONSTANTS
    Call <- MCCall
    Service <- MCService
    svc <- MCSvc
    Tested <- MCTested
    Name <- MCName
    op <- MCOp
    Snapshot <- MCSnapshot
    recorded <- MCRecorded
    InitialDisks <- MCInitialDisks
    None = None
INVARIANTS
    TypeOK
    ServesCrashState
    RemembersDisks
    OnlyGapsRaise
PROPERTIES
    ChecksExactReplay
CHECK_DEADLOCK FALSE
