SPECIFICATION Spec
CONSTANTS
    MaxCandidates = 3
    NoInstance = NoInstance
    Plans <- MCPlans
INVARIANTS
    OneUnaccountedInstance
    ResultIsLive
    RegisteredIsLast
    PassphraseOnlyAfterAttestation
PROPERTIES
    ImplementsOwnership
