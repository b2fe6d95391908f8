SPECIFICATION Spec
CONSTANTS
    MaxCandidates = 3
    NoInstance = NoInstance
    Plans <- MCPlans
PROPERTIES
    FailureForgetsProcessed
