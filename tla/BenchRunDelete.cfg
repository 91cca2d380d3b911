SPECIFICATION Spec
CONSTANTS
    Workers = {w1, w2}
    Kinds = {"delete"}
    ChanCap = 1
    CreateObjects = 3
    Versions = 1
    NumObjs = 1
    BatchSize = 2
    ClientModes = {TRUE, FALSE}
    MaxOps = 2
    MaxReads = 1
INVARIANT
    CleanupDeletesEverything
CHECK_DEADLOCK FALSE
