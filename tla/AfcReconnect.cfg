SPECIFICATION Spec
CONSTANTS
    o1 = o1  o2 = o2   r1 = r1  x1 = x1  NoValue = NoValue
    Ops <- O1
    Reconnects <- R1
    Closes <- NoCalls
    None = NoValue
    MaxSockets = 3
PROPERTIES ReconnectRecovers
CHECK_DEADLOCK FALSE
