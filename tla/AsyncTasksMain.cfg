CONSTANTS
    t1 = t1
    t2 = t2
    w1 = w1
    w2 = w2
    c1 = c1
    NoTask = NoTask
    Tasks = {t1, t2}
    Timed = {t1, t2}
    Workers = {w1, w2}
    Callers = {c1}
    Capacity = 1
    Limit = 1
SPECIFICATION FairSpec
INVARIANTS
    SlotsFollowCalls
    RunsOnce
    RejectedLeavesNoTrace
    NothingLost
    RunningIsOwned
    DrainedMeansFinished
    IInv
PROPERTIES
    TerminalIsFinal
    CancelledInQueueNeverRuns
    AcceptedResolves
    StopReturns
    ImplementsFairLifecycle
CHECK_DEADLOCK FALSE
