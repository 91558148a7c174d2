CONSTANTS
    Branches = {main}
    MaxTurns = 4
    MaxMessages = 2
    MaxSteers = 0
    MaxRequests = 1
    MaxWakes = 1
    Limits = {}
    NoLimit = NoLimit
    MaxCancels = 0
    MaxClears = 0
    MaxFailures = 0
    MaxPanics = 0
    MaxCrashes = 0
SPECIFICATION FairSpec
CHECK_DEADLOCK FALSE
PROPERTIES MessagesAnswered WakesClaimed
