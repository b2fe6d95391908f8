CONSTANTS
    a = a
    b = b
    ka = ka
    d = d
    None = None
    Accounts = {a, b}
    Kept = {ka}
    ownerOfKept <- MCOwnerOfKept
    running = {ka}
    Fresh = d
    profile = "relay"
    MaxInFlight = 1
    MaxActs = 2
    MaxFaults = 1
SPECIFICATION Spec
INVARIANT CompletedIsKept
PROPERTIES ShowsTheAccount CompletedComesBack
