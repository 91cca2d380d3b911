SPECIFICATION Spec
CONSTANTS
    N = 2
    MaxFaults = 2
INVARIANT
    DownloadErrorIgnored
CHECK_DEADLOCK FALSE
