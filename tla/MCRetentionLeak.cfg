SPECIFICATION Spec
CONSTANTS
    MaxRun = 3
    Hashes <- MCHashes
    NoHash = "none"
    Record <- MCRecord
    Extra <- NoExtra
    Keep = 1
    Hosts = 2
    Overlap = FALSE
INVARIANTS
    OlderAreForgotten
CHECK_DEADLOCK FALSE
