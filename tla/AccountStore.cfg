SPECIFICATION Spec
CONSTANTS
    Account = {a1, a2}
    Role = {admin}
    admin = admin
    Password = {p1, p2}
    Hash = {h1, h2, h3}
    Guards <- AlwaysGuarded
    ResetLive = 1
    MaxClock = 2
    Lag = 1
    NoAccount = NoAccount
    NoRole = NoRole
    NoPassword = NoPassword
SYMMETRY Symmetric
CHECK_DEADLOCK FALSE
INVARIANTS
    TypeOK
    Owned
    ClosedHoldsNoToken
    ConfirmedHoldsPassword
    CapHolds
PROPERTIES
    CoverLostOnlyToSweep
    PasswordChangeSpendsToken
    ResetLeavesNothing
    SweptWasStranded
