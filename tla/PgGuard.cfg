SPECIFICATION Spec
CONSTANTS
    Account = {1, 2}
    Role = {admin, member}
    admin = admin
    member = member
    Password = {p1}
    Hash = {h1}
    Guards <- OneGuard
    ResetLive = 1
    MaxClock = 0
    NoAccount = NoAccount
    NoRole = NoRole
    NoPassword = NoPassword
    Tx = {x, y}
    NoTx = NoTx
    NoCall = NoCall
    Calls <- Removals
    Grants = {member}
    NewRoles = {admin, NoRole}
SYMMETRY Symmetric
INVARIANTS
    GuardTypeOK
PROPERTIES
    CoverKept
    CheckedWriteLands
