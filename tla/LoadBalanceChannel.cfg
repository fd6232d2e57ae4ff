CONSTANTS
    Nodes = {1, 2, 3}
    Keys = {3, 8}
    NoKey = 8
    Points <- MCPoints
    KeyHash <- MCKeyHash
    Hashing = TRUE
    IndexModulus = 4
SPECIFICATION Spec
INVARIANTS RetryElsewhere FailoverTried DoneOnce
PROPERTY HashStable
