CONSTANTS
    s1 = s1
    c1 = c1
    c2 = c2
    u1 = u1
    None = None
    Services = {s1}
    Clients = {c1, c2}
    Users = {u1}
    Configs <- Rows
    RowFailures = {1}
    Threshold = 2
SPECIFICATION FairSpec
INVARIANTS
    TransportsAreOwned
    ErrorHasCause
    InFlightCounts
    ExpiredIsRemoved
PROPERTIES
    StrangersSurvive
    ExpiryIsHandled
    ImplementsFairRegistry
CHECK_DEADLOCK FALSE
