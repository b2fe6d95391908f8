SPECIFICATION SiteSpec
CONSTANTS
    a1 = a1
    a2 = a2
    a3 = a3
    a4 = a4
    a = a
    Runs <- MCRuns
    Sites <- MCSites
    site <- MCSite
    keepCount = 2
    BatchSize = 1
    ApiHosts = 2
    Overlap <- MCInTurn
    MaxFailures = 2
    None = None
INVARIANTS
    LinkedStaysStored
    NewestStay
PROPERTIES
    OlderAreForgotten
SYMMETRY Symmetry
CHECK_DEADLOCK FALSE
