SPECIFICATION Spec
CONSTANTS
    MaxCandidates = 2
    Launches <- MCLaunches
    Wallets = {"w1", "w2"}
    NoWallet = "none"
    NoInstance = NoInstance
    MaxSwitches = 1
INVARIANTS
    CompletedIsReachable
    ConfidentialStartHasPassphrase
    ForgottenByOwner
CHECK_DEADLOCK FALSE
