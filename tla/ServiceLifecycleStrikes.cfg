CONSTANTS
    s1 = s1
    r1 = r1
    Services = {s1}
    Requests = {r1}
    Threshold = 2
    MaxFailures = 2
    Reconcile = TRUE
SPECIFICATION Spec
INVARIANT
    StrikesInSuccession
CHECK_DEADLOCK FALSE
