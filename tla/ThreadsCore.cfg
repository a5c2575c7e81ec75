SPECIFICATION ThreadsSpec
CONSTANTS
    Threads = {t1, t2, t3}
    MaxSignals = 3
    NumProducers = 2
    NumConsumers = 2
    QSizeArg = 2
    MaxOps = 3
INVARIANTS OnePerSignal NoSleeperBesideSignal ReadsOwnPosition NeverOverwritesUnread
PROPERTIES SignalTaken GetReturns
CHECK_DEADLOCK FALSE
