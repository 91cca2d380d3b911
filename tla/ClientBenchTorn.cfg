SPECIFICATION Spec
CONSTANTS
    Servers = {A}
    MaxConns = 1
    MaxFaults = 0
INVARIANT
    OpsDownloadedIntact
CHECK_DEADLOCK FALSE
