CONSTANTS
    Branches = {main}
    MaxTurns = 3
    MaxMessages = 2
    MaxSteers = 0
    MaxRequests = 0
    MaxWakes = 0
    Limits = {}
    NoLimit = NoLimit
    MaxCancels = 1
    MaxClears = 0
    MaxFailures = 0
    MaxPanics = 0
    MaxCrashes = 0
SPECIFICATION ControlSpec
INVARIANTS CancelWins
CHECK_DEADLOCK FALSE
