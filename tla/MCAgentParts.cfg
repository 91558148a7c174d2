SPECIFICATION Spec
CONSTANTS
    Calls = {"c1"}
    Sizes = {1, 3}
    PromptTokens = 7
    TriggerTokens = 7
    UserBudget = 2
    SummaryMin = 1
    SummaryMax = 2
    InputTokens = 3
    DigestLines = 2
    Skews = {2}
    MaxHistory = 5
    MaxTurns = 2
    MaxForced = 1
    Workers = {"w1"}
    Handlers = {"h1"}
    MaxOpenings = 2
    MaxRpc = 4
    MaxReloads = 1
    Kinds = {"local", "cli", "remote", "planned"}
    Models = {"alias", "m1", "m2"}
    KnownModels = {"m1"}
    NoModel = "no_model"
    Selectors <- MCSelectors
    Listings <- MCListings
    MaxMoves = 2
CHECK_DEADLOCK FALSE
INVARIANTS RequestsFit AnswersMatched VerdictsRight
PROPERTIES SessionFreed
