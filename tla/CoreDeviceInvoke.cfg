SPECIFICATION FairSpec
INVARIANT TypeOK
PROPERTIES Settles ImplementsRequestReply
CHECK_DEADLOCK FALSE
CONSTANTS
    None = None
    Invokes = {i1, i2}
    Borrows = {b1}
    Closes = {x1}
    MaxConns = 3
