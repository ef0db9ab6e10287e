SPECIFICATION SilentSpec
PROPERTIES RunEnds
CHECK_DEADLOCK FALSE
CONSTANTS
    MaxNotes = 1
