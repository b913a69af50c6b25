SPECIFICATION FairSpec
CONSTANTS
    s1 = s1
    s2 = s2
    c1 = c1
    c2 = c2
    Setups = {s1}
    Calls = {c1, c2}
    SetupOf <- BothOne
    Code = {k1, k2, k3, k4, k5, k6, k7}
    Wrong = Wrong
    Free = Free
    NoFile = NoFile
    Lifetime = 1
    MaxClock = 1
    MaxChmods = 2
    Requests = {"check"}
    Faulty = TRUE
PROPERTIES
    RenewedIsNew
    CallsEnd
