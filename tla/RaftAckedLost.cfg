SPECIFICATION Spec
CONSTANTS
    Servers = {s1, s2}
    Values = {v1, v2}
    UninitVotes = {0}
    MaxTerm = 2
    MaxLog = 1
    MaxEntries = 1
    MaxFailures = 0
    MaxRetries = 0
    MaxCrashes = 0
    CrashPoints = {}
SYMMETRY Symmetry
INVARIANTS AckedDataKept
CHECK_DEADLOCK FALSE
