SPECIFICATION FairSpec
INVARIANTS TypeOK ConfigBeforePlan PassedIsTrue CleanedUp
PROPERTIES Settles
CHECK_DEADLOCK FALSE
CONSTANTS
    MaxNotes = 2
