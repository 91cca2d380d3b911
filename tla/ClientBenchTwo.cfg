SPECIFICATION Spec
CONSTANTS
    Servers = {A, B}
    MaxConns = 3
    MaxFaults = 1
INVARIANT
    OneServerAtATime
CHECK_DEADLOCK FALSE
