CONSTANTS
    Calls = {"shell", "read"}
    Exploration = {"read"}
    Troubles = {}
    MaxTroubles = 1
    MaxLines = 3
    MaxCompletions = 2
SPECIFICATION ViewSpec
INVARIANTS TextOnce
CHECK_DEADLOCK FALSE
