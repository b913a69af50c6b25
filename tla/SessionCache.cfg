SPECIFICATION Spec
CONSTANTS
    Login = {l1, l2}
    Call = {m1, m2}
    NoLogin = NoLogin
    None = None
    Unknown = Unknown
SYMMETRY Symmetric
INVARIANTS
    ListIsOfTheShown
PROPERTIES
    ShownIsHeld
    DroppedForCause
