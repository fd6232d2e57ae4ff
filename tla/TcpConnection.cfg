CONSTANTS
    Requests = {r1, r2}
    Other = Other
    Bad = Bad
    Established = Established
SPECIFICATION FairSpec
INVARIANTS BytesInOrder WriteArmed ShutdownWhole
PROPERTIES ResponseWritten PeerCloseNoticed
CHECK_DEADLOCK FALSE
