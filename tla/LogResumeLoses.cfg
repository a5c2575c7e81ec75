SPECIFICATION Spec
CONSTANTS
    NumRecords = 3
    Sizes = {1, 4}
    Capacity = 4
    Dumpable = 2
    BlocksPerFile = 2
    MoveMidRecord = TRUE
    MaxFaults = 0
INVARIANT NoSilentLoss
