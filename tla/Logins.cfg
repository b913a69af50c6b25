SPECIFICATION LoginSpec
CONSTANTS
    Account = {a1, a2}
    Role = {}
    Password = {p1, p2}
    Hash = {h1, h2, h3}
    Guards <- Unguarded
    Call = {c1, c2}
    SessionTTL = 2
    InviteTTL = 1
    ResetTTL = 1
    ResetLive = 1
    MaxClock = 2
    Lag = 0
    NoAccount = NoAccount
    NoRole = NoRole
    NoPassword = NoPassword
SYMMETRY LoginSymmetry
CHECK_DEADLOCK FALSE
INVARIANTS
    SessionsStand
    TokensMatchAccounts
    InviteStaysOut
