SPECIFICATION FairSpec
INVARIANTS TypeOK WindowAccounting WorkConserving
PROPERTIES FlushWithinGrant ImplementsStream Drains
CHECK_DEADLOCK FALSE
CONSTANTS
    Streams = {1, 3}
    Root = 1
    Reply = 3
    DefaultWindow = 4
    DefaultFrame = 2
    HandshakeBytes = 1
    PayloadSizes = {3}
    WindowSizes = {1, 6}
    FrameSizes = {3}
    Increments = {2}
    MaxPayloads = 2
    MaxSettings = 1
    MaxCredit = 8
    MaxConnects = 2
