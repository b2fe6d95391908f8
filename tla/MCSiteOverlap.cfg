SPECIFICATION SiteSpec
CONSTANTS
    a1 = a1
    a2 = a2
    a3 = a3
    a4 = a4
    a = a
    Runs <- MCRuns
    Sites <- MCSites
    site <- MCSite
    keepCount = 1
    BatchSize = 1
    ApiHosts = 2
    Overlap <- MCOverlap
    MaxFailures = 1
    None = None
INVARIANTS
    AllLinkedStayStored
SYMMETRY Symmetry
CHECK_DEADLOCK FALSE
