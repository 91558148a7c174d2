CONSTANTS
    Branches = {main}
    MaxTurns = 4
    MaxMessages = 3
    MaxSteers = 0
    MaxRequests = 1
    MaxWakes = 0
    Limits = {}
    NoLimit = NoLimit
    MaxCancels = 0
    MaxClears = 0
    MaxFailures = 0
    MaxPanics = 0
    MaxCrashes = 0
SPECIFICATION ControlSpec
INVARIANTS RequestsBlock
CHECK_DEADLOCK FALSE
