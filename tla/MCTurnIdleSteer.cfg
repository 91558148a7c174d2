CONSTANTS
    Branches = {main}
    MaxTurns = 3
    MaxMessages = 1
    MaxSteers = 1
    MaxRequests = 0
    MaxWakes = 0
    Limits = {}
    NoLimit = NoLimit
    MaxCancels = 0
    MaxClears = 0
    MaxFailures = 0
    MaxPanics = 0
    MaxCrashes = 0
SPECIFICATION FairSpec
PROPERTIES SteersResolved
CHECK_DEADLOCK FALSE
