CONSTANTS
    Branches = {main}
    MaxTurns = 3
    MaxMessages = 2
    MaxSteers = 1
    MaxRequests = 1
    MaxWakes = 0
    Limits = {}
    NoLimit = NoLimit
    MaxCancels = 1
    MaxClears = 0
    MaxFailures = 1
    MaxPanics = 1
    MaxCrashes = 1
SPECIFICATION ControlSpec
CHECK_DEADLOCK FALSE
INVARIANTS WorkerOwnsTurn CancelHeard SignalExact PausedHasRequest
PROPERTIES ImplementsStore
