CONSTANTS
    c1 = c1
    Calls = {c1, c2}
    maxRetries = 1
    MaxConns = 2
    SendRoom = 2
    None = None
SPECIFICATION FairSpec
ACTION_CONSTRAINT Canonical
INVARIANTS
    OwnResponse
    SuccessReported
    ExecutionsBounded
PROPERTY CallReturns
CHECK_DEADLOCK FALSE
