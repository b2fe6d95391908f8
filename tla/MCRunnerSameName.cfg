SPECIFICATION Spec
CONSTANTS
    r1 = r1
    r2 = r2
    s1 = s1
    ra = ra
    rb = rb
    n1 = n1
    n2 = n2
    None = None
    Runners <- RunnersDef
    Relays <- RelaysDef
    Repos = {ra, rb}
    repo <- TwoRepos
    prefixed <- OwnPrefix
    name <- SameName
    before <- TwoUps
    keyed <- KeyedDef
    Patience = 1
    Grace = 1
    Ttl = 1
    MaxFaults = 1
INVARIANT
    JobsAreNotSwept
CHECK_DEADLOCK FALSE
