SPECIFICATION FairPoolSpec
CONSTANTS
    NullJob = NULL
    j1 = j1
    j2 = j2
    j3 = j3
    j4 = j4
    NumThreads = 2
    Backlog = 3
    MaxStarts = 1
    Jobs = {j1, j2, j3, j4}
    Children <- TwoSpawners
    Batches = {}
    BatchJobs <- NoBatches
    Blocking = {}
PROPERTIES DestructorTerminates
CHECK_DEADLOCK FALSE
