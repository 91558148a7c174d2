CONSTANTS
    Branches = {main}
    MaxTurns = 3
    MaxMessages = 1
    MaxSteers = 0
    MaxRequests = 1
    MaxWakes = 0
    Limits = {}
    NoLimit = NoLimit
    MaxCancels = 1
    MaxClears = 0
    MaxFailures = 0
    MaxPanics = 0
    MaxCrashes = 0
SPECIFICATION ControlSpec
INVARIANTS CancelCanBeSuperseded
CHECK_DEADLOCK FALSE
