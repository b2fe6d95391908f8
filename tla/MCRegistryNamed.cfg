CONSTANTS
    i1 = i1
    i2 = i2
    r1 = r1
    r2 = r2
    Relays = {i1, i2}
    Runs = {r1, r2}
    Guest = Guest
    profileOf <- MCProfiles
    plan <- NamedRefresh
    MaxRunning = 1
    MaxAge = 2
    StaleAge = 1
    MaxMisses = 1
    returning = {}
    MayMissReads = FALSE
    MayRefuse = {}
SPECIFICATION Spec
CHECK_DEADLOCK FALSE
INVARIANT RunKeepsItsOwn
