SPECIFICATION ReaperSpec
CONSTANTS
    Account = {a1}
    Role = {}
    Password = {p1}
    Hash = {h1, h2}
    Guards = {}
    ResetLive = 1
    MaxLost = 1
    MaxClock = 2
    Lag = 0
    NoAccount = NoAccount
    NoRole = NoRole
    NoPassword = NoPassword
CHECK_DEADLOCK FALSE
PROPERTIES
    StopReturns
    SessionsCollected
    StrandedCollected
    NothingLiveSwept
