SPECIFICATION Spec
CONSTANTS
    Servers = {A}
    MaxConns = 2
    MaxFaults = 2
INVARIANTS
    ClientTypeOK
    DoubleCloseNeedsOverlap
    OpsDownloaded
    NotAhead
PROPERTIES
    ServersEnd
    CancelledEnds
CHECK_DEADLOCK FALSE
