SPECIFICATION Spec
CONSTANTS
    N = 2
    T = 1
    Kinds <- MCKinds
    Tick = 3
    MaxTick = 5
    Lengths = {1, 3}
    MaxOps = 4
    StdDurations <- MCStdDurations
    WantAtMost = 12
    MinShare = 5
    Flags <- MCFlags
INVARIANT RatesAreNumbers
CHECK_DEADLOCK FALSE
