SPECIFICATION RootfsSpec
CONSTANTS
    r1 = r1
    r2 = r2
    t1 = t1
    Runs <- MCRuns
    Plans <- MCPlans
    Versions <- MCVersions
    Sources <- MCSources
    Refreshes <- MCRefreshes
    ApiHosts = 2
    AddUrls = 2
    WaitAttempts = 2
    MaxFaults = 1
    None = None
INVARIANTS
    PublishedIsStored
    DeployedWasStored
SYMMETRY Symmetry
CHECK_DEADLOCK FALSE
