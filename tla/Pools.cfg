SPECIFICATION Spec
CONSTANTS
    Hosts = 2
    Workers = {w1, w2}
    Creates = {2, 3}
    OpLists <- MCOpLists
    MaxOps = 4
    MaxFails = 1
SYMMETRY MCSymmetry
INVARIANTS
    PoolTypeOK
    ObjectsTakenExist
    RunsOutOnlyWhenOverdrawn
    HostsShared
    CleanupDeletesUploads
CHECK_DEADLOCK FALSE
