SPECIFICATION FairSpec
INVARIANTS TypeOK PumpServes ReplyOnItsWay
PROPERTIES Settles ImplementsRequestReply
CHECK_DEADLOCK FALSE
CONSTANTS
    Makers = {m1, m2}
    Requesters = {r1}
    Readers = {d1}
    Abortable = {d1}
    Identifiers = {i1}
    NoIdentifier = NoIdentifier
    EventIds = {3}
    MaxEvents = 1
    MaxConns = 2
