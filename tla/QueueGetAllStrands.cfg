SPECIFICATION Spec
CONSTANTS
    Threads = {t1, t2, t3}
    Values = {v1, v2, v3, v4}
    NULL = NULL
    MaxSize = 2
    FifoPolicy = TRUE
    Ends = {TRUE}
    DrainOps = {"GetAll", "Clear"}
INVARIANT FreeSpaceTriggersPutter
CHECK_DEADLOCK FALSE
