CONSTANTS
    r1 = r1
    r2 = r2
    r3 = r3
    w1 = w1
    w2 = w2
    s1 = s1
    s2 = s2
    None = None
    Records = {r1, r2, r3}
    Workers = {w1, w2}
    Stoppers = {s1, s2}
    Capacity = 1
SPECIFICATION FairSpec
INVARIANTS
    WrittenOnce
    AcknowledgedIsKept
    StatsAgree
    StopDrains
PROPERTIES
    RecordsSettle
    StopReturns
CHECK_DEADLOCK FALSE
