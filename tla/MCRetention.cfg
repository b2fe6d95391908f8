SPECIFICATION Spec
CONSTANTS
    MaxRun = 3
    Hashes <- MCHashes
    NoHash = "none"
    Record <- MCRecord
    Extra <- LastExtra
    Keep = 1
    Hosts = 2
    Overlap = FALSE
INVARIANTS
    InstancesFirst
    ErasedBeforeForgotten
    ReportIsHonest
    LedgerUntouched
    NewestSurvives
CHECK_DEADLOCK FALSE
