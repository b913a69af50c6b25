SPECIFICATION LimiterSpec
CONSTANTS
    Limit = 2
    Window = 3
    c1 = c1
    c2 = c2
    p1 = p1
    Client = {c1, c2}
    Proxy = {p1}
    Key = {1, 2, 3}
    Canonical <- Own
    Attempt = {i1, i2}
    MaxClock = 8
SYMMETRY LimiterSymmetry
CHECK_DEADLOCK FALSE
INVARIANTS
    LimiterTypeOK
    RefusedForOwnFailures
    FailuresBounded
