SPECIFICATION StoreSpec
CONSTANTS
    Account = {1}
    Role = {admin}
    admin = admin
    Password = {p1}
    Hash = {h1, h2, h3}
    Guards <- OneGuard
    ResetLive = 1
    MaxClock = 1
    NoAccount = NoAccount
    NoRole = NoRole
    NoPassword = NoPassword
    Tx = {x, y}
    NoTx = NoTx
    NoCall = NoCall
    Calls <- Either
    Grants = {}
    NewRoles = {admin}
    LoginsOverlap = FALSE
SYMMETRY Symmetric
CHECK_DEADLOCK FALSE
INVARIANTS
    StoreTypeOK
    RedeemDeadlocksOnlySweeps
PROPERTIES
    Implements
