SPECIFICATION ExploreSpec
CONSTANTS
    NumCalls = 4
    Service <- MCService
    Path <- MCPath
    Trace <- MCTrace
    Pruning = TRUE
    Vulnerability <- MCVulnerability
    OptExplore = TRUE
INVARIANTS
    OptimalPathReports
CHECK_DEADLOCK FALSE
