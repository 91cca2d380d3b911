SPECIFICATION Spec
CONSTANTS
    Uploaders = {u1, u2}
    Uploads = 2
    Clients = {c1, c2}
    Durations = {1, 2}
    MaxRequests = 3
INVARIANTS
    MonitorTypeOK
    RepliesAreRight
PROPERTIES
    StatusForward
    RunnerReturns
CHECK_DEADLOCK FALSE
