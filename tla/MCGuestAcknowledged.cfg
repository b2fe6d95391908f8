SPECIFICATION Spec
CONSTANTS
    Profiles <- MCUc
    Configs <- MCConfigs
    Requests = {r1}
    MaxAttempts = 2
    MaxFailures = 1
    MaxReboots = 0
    None = None
INVARIANTS
    PulledIsAcknowledged
CHECK_DEADLOCK FALSE
