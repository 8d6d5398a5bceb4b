CONSTANTS
    r1 = r1
    r2 = r2
    Requests = {r1, r2}
    Late = Late
    TTL = 1
    Timeout = 1
SPECIFICATION Spec
SYMMETRY Interchangeable
INVARIANTS
    FreshIsRecent
    DeletedIsCutOff
CHECK_DEADLOCK FALSE
