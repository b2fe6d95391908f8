SPECIFICATION FairSpec
CONSTANTS
    MaxCandidates = 2
    Launches <- MCLaunches
    Wallets = {"w1", "w2"}
    NoWallet = "none"
    NoInstance = NoInstance
    MaxSwitches = 1
INVARIANTS
    CompletedIsServing
    PassphraseSpent
PROPERTIES
    ImplementsOwnership
    DeployEnds
CHECK_DEADLOCK FALSE
