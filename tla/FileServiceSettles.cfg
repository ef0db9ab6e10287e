SPECIFICATION FairSpec
PROPERTIES Settles
CHECK_DEADLOCK FALSE
CONSTANTS
    None = None
    Requests = {r1}
    Pulls = {p1}
    Pushes = {}
    Closes = {x1}
    MaxConns = 3
