SPECIFICATION Spec
CONSTANTS
    Tx = {f1, f2, f3, u1, u2}
    First = {f1, f2, f3}
SYMMETRY Symmetric
CHECK_DEADLOCK FALSE
INVARIANT SomeoneProceeds
PROPERTY FirstIsFirst
