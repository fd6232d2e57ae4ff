CONSTANTS
    Byte = {0, 1}
    Base = 2
    kInitialSize = 3
    kCheapPrepend = 1
    ExtraSize = 8
    SeqWidth = 2
    LenWidth = 2
    kMagic = 1
    kProtocolVersion = 1
    kMaxBodySize = 2
    Messages <- MCMessages
    MaxMessages = 3
SPECIFICATION FairSpec
INVARIANTS StreamConserved RefusesOversizedOnly GrowthBounded
PROPERTIES ImplementsQueue AllDecoded
CHECK_DEADLOCK FALSE
