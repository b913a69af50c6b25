SPECIFICATION AdminSpec
CONSTANTS
    Account = {a1, a2, a3}
    Role = {admin, editor, viewer, legacy}
    admin = admin
    editor = editor
    viewer = viewer
    legacy = legacy
    Password = {p1}
    Hash = {}
    Guards <- Guarded
    Privileged <- Administrators
    Declared <- DeclaredRoles
    Commanded = {admin, viewer}
    Carries <- Ranks
    Request = {r1, r2}
    ResetLive = 1
    MaxClock = 0
    Lag = 0
    NoAccount = NoAccount
    NoRole = NoRole
    NoPassword = NoPassword
SYMMETRY AdminSymmetry
CHECK_DEADLOCK FALSE
INVARIANTS
    AdminTypeOK
    AuthorityCeiling
PROPERTIES
    WriteWithinAuthority
    CoverLostOnlyToStaleStamp
