SPECIFICATION CoveredSpec
CONSTANTS
    Account = {1, 2, 3}
    Role = {admin, member}
    admin = admin
    member = member
    Password = {p1}
    Hash = {}
    Guards <- OneGuard
    ResetLive = 1
    MaxClock = 0
    NoAccount = NoAccount
    NoRole = NoRole
    NoPassword = NoPassword
    Tx = {x, y}
    NoTx = NoTx
    NoCall = NoCall
    Calls <- DemotionsAndPromotions
    Grants = {}
    NewRoles = {}
SYMMETRY Symmetric
INVARIANT
    StaysCovered
