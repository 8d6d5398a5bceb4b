CONSTANTS
    s1 = s1
    r1 = r1
    r2 = r2
    Services = {s1}
    Requests = {r1, r2}
    Threshold = 1
    MaxFailures = 1
    Reconcile = TRUE
SPECIFICATION Spec
SYMMETRY Interchangeable
INVARIANTS
    ClaimsAreOfThisRun
    ConnectingIsOwned
    DeletedIsClean
CHECK_DEADLOCK FALSE
