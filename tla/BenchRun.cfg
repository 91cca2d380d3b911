SPECIFICATION Spec
CONSTANTS
    Workers = {w1, w2}
    Kinds = {"put", "video", "snowball", "get", "retention", "existing", "list", "delete"}
    ChanCap = 1
    CreateObjects = 2
    Versions = 2
    NumObjs = 2
    BatchSize = 1
    ClientModes = {TRUE, FALSE}
    MaxOps = 2
    MaxReads = 1
INVARIANTS
    BenchTypeOK
    Conservation
    NoSendOnClosedChannel
    ResultComplete
    OvershootBounded
    DeletedOnce
    ReadsHaveObjects
    CleanupLeavesNothing
    OthersKept
PROPERTIES
    CancelledRunReturns
    UsesCollector
CHECK_DEADLOCK FALSE
