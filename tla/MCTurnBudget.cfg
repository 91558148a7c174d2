CONSTANTS
    Branches = {main}
    MaxTurns = 3
    MaxMessages = 2
    MaxSteers = 0
    MaxRequests = 0
    MaxWakes = 1
    Limits = {1, 2}
    NoLimit = NoLimit
    MaxCancels = 1
    MaxClears = 1
    MaxFailures = 0
    MaxPanics = 0
    MaxCrashes = 0
SPECIFICATION ControlSpec
CHECK_DEADLOCK FALSE
INVARIANTS NoTurnOverBudget
