CONSTANTS
    i1 = i1
    i2 = i2
    i3 = i3
    Invocations = {i1, i2}
    Concurrency = 1
    Workers = 1
    QueueSize = 1
SPECIFICATION Spec
INVARIANTS
    HistoryIsKept
PROPERTIES
    ShutdownEnds
CHECK_DEADLOCK FALSE
