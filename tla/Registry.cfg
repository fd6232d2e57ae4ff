CONSTANTS
    Nodes = {n1}
    HeartbeatTimeout = 3
    Interval = 1
    MaxDelay = 1
    MaxLate = 1
SPECIFICATION FairSpec
INVARIANTS OffStaysOff NoFalseEviction
PROPERTIES GoneIsEvicted StopJoins
