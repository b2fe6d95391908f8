SPECIFICATION Spec
CONSTANTS
    Profiles <- MCOrbit
    Configs <- MCConfigs
    Requests = {r1}
    MaxAttempts = 2
    MaxFailures = 1
    MaxReboots = 0
    None = None
INVARIANTS
    FirstPathWins
CHECK_DEADLOCK FALSE
