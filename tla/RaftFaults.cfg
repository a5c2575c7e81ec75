SPECIFICATION FaultsSpec
CONSTANTS
    Servers = {s1, s2}
    Values = {v1}
    UninitVotes = {0}
    MaxTerm = 2
    MaxLog = 1
    MaxEntries = 1
    MaxFailures = 1
    MaxRetries = 1
    MaxCrashes = 1
    CrashPoints = {"idle", "save", "append"}
INVARIANT OneAppendInTransfer
PROPERTIES CommitNeverDecreases ReliableCommits
CHECK_DEADLOCK FALSE
