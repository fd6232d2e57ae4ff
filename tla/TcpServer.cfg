CONSTANTS
    Conns = {c1, c2, c3}
    Fds = {f1, f2}
    LoopCount = 2
    None = None
SPECIFICATION FairSpec
INVARIANTS PollerAgrees ActiveAlive
PROPERTIES PollerOwnThread DescriptorReturned
CHECK_DEADLOCK FALSE
