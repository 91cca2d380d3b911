SPECIFICATION SpecSizes
CONSTANTS
    N = 1
    T = 1
    Kinds <- MCKinds
    Tick = 3
    MaxTick = 43
    Lengths = {1}
    MaxOps = 42
    StdDurations <- MCStdDurations
    WantAtMost = 12
    MinShare = 5
    Flags <- MCFlags
INVARIANT SizesCountedOnce
CHECK_DEADLOCK FALSE
