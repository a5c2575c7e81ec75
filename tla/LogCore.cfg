SPECIFICATION Spec
CONSTANTS
    NumRecords = 2
    Sizes = {1, 4, 7}
    Capacity = 4
    Dumpable = 2
    BlocksPerFile = 3
    MoveMidRecord = FALSE
    MaxFaults = 2
INVARIANTS NoSilentLoss ReturnedWhole SeekFindsRecord
PROPERTY TruncateKeepsPrefix
