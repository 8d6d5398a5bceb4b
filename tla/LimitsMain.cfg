CONSTANTS
    s1 = s1
    s2 = s2
    u1 = u1
    u2 = u2
    n1 = n1
    n2 = n2
    Services = {s1, s2}
    Users = {u1, u2}
    ServiceLimit = 2
    UserLimit = 1
    Window = 3
    Notifiers = {n1, n2}
    Silence = 2
SPECIFICATION Spec
SYMMETRY Interchangeable
INVARIANTS
    BurstIsBounded
    AlertsAreSpaced
CHECK_DEADLOCK FALSE
