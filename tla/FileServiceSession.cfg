SPECIFICATION Spec
INVARIANTS TypeOK RequestsOnOwnSession OneOutstandingRequest OneConnection FailedPushTidies
PROPERTIES CloseCovers
CHECK_DEADLOCK FALSE
CONSTANTS
    None = None
    Requests = {r1}
    Pulls = {}
    Pushes = {w1}
    Closes = {x1}
    MaxConns = 5
