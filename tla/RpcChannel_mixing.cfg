CONSTANTS
    c1 = c1
    Calls = {c1, c2, c3}
    maxRetries = 0
    MaxConns = 2
    SendRoom = 2
    None = None
SPECIFICATION Spec
SYMMETRY CallSymmetry
INVARIANT NoMixing
CHECK_DEADLOCK FALSE
