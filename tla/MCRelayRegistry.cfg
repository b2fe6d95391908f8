CONSTANTS
    i1 = i1
    i2 = i2
    r1 = r1
    r2 = r2
    Relays = {i1, i2}
    Runs = {r1}
    Guest = Guest
    profileOf <- MixedProfiles
    plan <- OneDeploy
    MaxRunning = 1
    MaxAge = 2
    StaleAge = 1
    MaxMisses = 1
    returning = {i2}
    MayMissReads = TRUE
    MayRefuse = {"owner"}
SPECIFICATION FairSpec
CHECK_DEADLOCK FALSE
INVARIANT GuestKeepsListed
PROPERTIES DownIsUnlisted UpIsListed
