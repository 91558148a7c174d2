SPECIFICATION StreamSpec
CONSTANTS
    CommitKinds = {"message", "other", "foreign"}
    LateBatch = 2
    ReplayPage = 2
    BusCapacity = 1
    Window = 1
    MaxEvents = 4
    MaxBreaks = 1
    MaxRefreshes = 1
CHECK_DEADLOCK FALSE
INVARIANTS FeedExact
PROPERTIES ImplementsLive
