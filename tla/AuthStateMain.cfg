CONSTANTS
    a1 = a1
    a2 = a2
    a3 = a3
    r1 = r1
    r2 = r2
    None = None
    Sessions = {a1, a2, a3}
    Requests = {r1, r2}
    MaxVersion = 2
    MaxFaults = 1
SPECIFICATION Spec
SYMMETRY Interchangeable
INVARIANTS
    RotatedOnce
    ReuseEndsTheFamily
    CachesOnlyLag
CONSTRAINT UntilOverwritten
CHECK_DEADLOCK FALSE
