SPECIFICATION Spec
CONSTANTS
    N = 2
    MaxFaults = 3
INVARIANTS
    CoordTypeOK
    StageBarrier
    CleanupBarrier
    ResultsComplete
    Released
PROPERTIES
    CoordinatorEnds
    ImplementsStages
CHECK_DEADLOCK FALSE
