SPECIFICATION Spec
CONSTANTS
    d1 = d1
    d2 = d2
    web = web
    quic = quic
    ssh = ssh
    Deploys <- MCDeploys
    Ports <- MCPorts
    requiredPortForwards <- MCForwards
    Life = 1
    Retention = 2
    PageSize = 2
    MaxPages = 2
    MaxTime = 2
    MaxPending = 1
    None = None
INVARIANTS
    RecordStaysReadable
    PortsKept
PROPERTIES
    CleanupIsComplete
SYMMETRY Symmetry
CHECK_DEADLOCK FALSE
