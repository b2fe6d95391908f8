SPECIFICATION DiscoverySpec
CONSTANTS
    Writers <- MCWriters
    Options <- MCOptions
    MaxPosts = 3
    MaxTime = 2
    MaxAge = 1
    CompactLimit = 2
    Absent = Absent
INVARIANTS
    EmptyIsComplete
    NothingSuperseded
    PostsAreUsable
CHECK_DEADLOCK FALSE
