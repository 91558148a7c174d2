CONSTANTS
    Branches = {main}
    MaxTurns = 2
    MaxMessages = 2
    MaxSteers = 1
    MaxRequests = 1
    MaxWakes = 1
    Limits = {1}
    NoLimit = NoLimit
SPECIFICATION StoreSpec
INVARIANTS OneActiveTurn QueueOrder ClaimedOnce CancelAddressed
PROPERTIES TerminalIsFinal
