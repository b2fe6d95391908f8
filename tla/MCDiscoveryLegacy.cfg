SPECIFICATION DiscoverySpec
CONSTANTS
    Writers <- MCLegacyWriters
    Options <- MCLegacyOptions
    MaxPosts = 2
    MaxTime = 1
    MaxAge = 1
    CompactLimit = 2
    Absent = Absent
INVARIANTS
    LegacyDoesNotBlind
CHECK_DEADLOCK FALSE
