SPECIFICATION Spec
CONSTANTS
    Servers = {s1, s2, s3}
    Values = {v1}
    UninitVotes = {0}
    MaxTerm = 1
    MaxLog = 2
    MaxEntries = 2
    MaxFailures = 0
    MaxRetries = 0
    MaxCrashes = 1
    CrashPoints = {"idle", "save", "append"}
SYMMETRY Symmetry
INVARIANTS CommittedAgree OneLeaderPerTerm CommitsOnMajority
CHECK_DEADLOCK FALSE
