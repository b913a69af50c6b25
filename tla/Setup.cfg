SPECIFICATION Spec
CONSTANTS
    s1 = s1
    s2 = s2
    c1 = c1
    c2 = c2
    Setups = {s1, s2}
    Calls = {c1, c2}
    SetupOf <- OneEach
    Code = {k1, k2, k3, k4, k5, k6, k7}
    Wrong = Wrong
    Free = Free
    NoFile = NoFile
    Lifetime = 1
    MaxClock = 1
    MaxChmods = 0
    Requests = {"check", "create", "shell"}
    Faulty = FALSE
INVARIANTS
    TypeOK
    AnnouncedHolds
    OneFlock
    CodeStays
