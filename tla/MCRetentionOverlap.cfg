SPECIFICATION Spec
CONSTANTS
    MaxRun = 3
    Hashes <- MCHashes
    NoHash = "none"
    Record <- MCRecord
    Extra <- NoExtra
    Keep = 1
    Hosts = 1
    Overlap = TRUE
INVARIANTS
    RetainedImageKept
CHECK_DEADLOCK FALSE
