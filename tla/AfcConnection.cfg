SPECIFICATION FairSpec
CONSTANTS
    o1 = o1  o2 = o2   r1 = r1  x1 = x1  NoValue = NoValue
    Ops <- O2
    Reconnects <- R1
    Closes <- X1
    None = NoValue
    MaxSockets = 4
INVARIANTS TypeOK ReplyIsRead
PROPERTIES QuietAfterDeath ImplementsOnSocket Settles
CHECK_DEADLOCK FALSE
