CONSTANTS
    Requests = {r1, r2}
    Other = Other
    Bad = Bad
    Established = Established
SPECIFICATION Spec
INVARIANT AliveInCallback
CHECK_DEADLOCK FALSE
