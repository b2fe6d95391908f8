SPECIFICATION Spec
CONSTANTS
    Profiles <- MCProfiles
    Configs <- MCConfigs
    Requests = {r1}
    MaxAttempts = 2
    MaxFailures = 1
    MaxReboots = 1
    None = None
INVARIANTS
    OneConfiguration
    AcknowledgedIsApplied
PROPERTIES
    RecordIsApplied
    CertificateIsAnnounced
CHECK_DEADLOCK FALSE
