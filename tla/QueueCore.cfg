SPECIFICATION QueueSpec
CONSTANTS
    Threads = {t1, t2, t3}
    Values = {v1, v2, v3, v4}
    DrainedValues = {v1, v2, v3}
    NULL = NULL
    MaxSize = 2
    FifoPolicy = TRUE
    Ends = {TRUE}
    DrainOps = {}
    j1 = j1
    j2 = j2
    j3 = j3
    b1 = b1
    b2 = b2
    NullJob = NULL
    Jobs = {j1, j2, j3}
    Children <- OneSpawner
    Batches = {b1, b2}
    BatchJobs <- SharedJob
    Blocking = {b1}
    NumThreads = 2
    Backlog = 3
    MaxStarts = 1
INVARIANTS GettersNotStranded PuttersNotStranded Fifo
INVARIANTS SentinelForEachThread CompletionOnce FinishRunsAll BatchNotUsedAfterDelete
PROPERTIES ImplementsBoundedQueue GetterIsServed BatchReturns DestructorTerminates
CHECK_DEADLOCK FALSE
