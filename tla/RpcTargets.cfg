SPECIFICATION Spec
INVARIANTS TypeOK NoDeadTarget Resumed
SYMMETRY Symmetry
CHECK_DEADLOCK FALSE
CONSTANTS
    Apps = {a1, a2}
    Pages = {p1, p2}
    Selects = {s1, s2}
    AskedBefore = {}
    MaxTargets = 3
    MaxWire = 1
