SPECIFICATION ExploreSpec
CONSTANTS
    NumCalls = 5
    Service <- MCService
    Path <- MCPath
    Trace <- MCTrace
    Pruning = TRUE
    Vulnerability <- MCVulnerability
    OptExplore = FALSE
INVARIANTS
    ExploreTypeOK
    CausesTold
    FailureReported
    GroupsExplained
    EachCallReportedOnce
CHECK_DEADLOCK FALSE
