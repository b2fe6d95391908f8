CONSTANTS
    a = a
    b = b
    ka = ka
    d = d
    None = None
    Accounts = {a, b}
    Kept = {ka}
    ownerOfKept <- MCOwnerOfKept
    running = {}
    Fresh = d
    profile = "relay"
    MaxInFlight = 1
    MaxActs = 2
    MaxFaults = 1
SPECIFICATION Spec
PROPERTY RunningIsShown
