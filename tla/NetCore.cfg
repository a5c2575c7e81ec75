SPECIFICATION NetSpec
CONSTANTS
    Threads = {t1}
    Jobs = {j1}
    Alarms = {a1}
    Repeating = {a1}
    Timeouts = {1}
    Selectables = {s1, s2}
    ClosuresPerEvent = 2
    WakeUp = 2
    HighPrecision = FALSE
    MaxLag = 1
    MaxQueue = 2
    Clients = {d1, d2, d3}
    Hosts = {h1}
    CancelAllowed = TRUE
    MaxOut = 2
    MaxIn = 2
    NoDescriptors = FALSE
    Careless = FALSE
    Requests = {q1, q2, q3}
    MaxConcurrent = 2
    MaxWaiting = 1
    Retried = {q1, q2}
    Urgent = {q2}
    NumServers = 2
    NumRetries = 2
    MaxPerServer = 2
    KeepAlives = {TRUE, FALSE}
    MaxResets = 1
INVARIANTS NoClosureAsleep NoEventToDeleted ExitRunsClosures QueriesAlive ClosedOnce NoOutputLost
INVARIANTS CalledBackOnce AnswerBelongs RequestInOnePlace
PROPERTIES AlarmFires FlushEnds RequestResolved RequestCompletes
