SPECIFICATION Spec
CONSTANTS
    Call <- MCCall
    Service <- MCService
    svc <- MCSvc
    Tested <- MCTested
    Name <- MCName
    op <- MCOp
    Snapshot <- MCSnapshot
    recorded <- MCRecorded
    InitialDisks <- MCInitialDisks
    None = None
PROPERTIES
    BackupRestored
CHECK_DEADLOCK FALSE
