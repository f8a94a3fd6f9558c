SPECIFICATION ExploreSpec
CONSTANTS
    NumCalls = 5
    Service <- MCService
    Path <- MCPath
    Trace <- MCTrace
    Pruning = TRUE
    Vulnerability <- MCVulnerability
    OptExplore = FALSE
INVARIANTS
    NoBugsInBaseState
CHECK_DEADLOCK FALSE
