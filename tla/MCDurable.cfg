SPECIFICATION Spec
CONSTANTS
    Replicas = {"r1", "r2"}
    Origin = "r1"
    Branches = {"main", "b1"}
    Main = "main"
    Contents = {"c"}
    Scopes <- MCScopes
    LogBranches = {left, right}
    Calls = {"c1"}
    OperatorCalls = {"o1"}
    Args = {x, y}
    NoCall = "nocall"
    NoArgs = "noargs"
    MaxTurns = 3
    MaxOrdinal = 2
    MaxRequests = 2
    MaxEvents = 10
    MaxDeaths = 1
    MaxLooks = 1
CONSTRAINTS CancelBound CommandBound
SYMMETRY LogSymmetry
CHECK_DEADLOCK FALSE
INVARIANTS BundlesFaithful ReadModelsAgree
PROPERTIES HeadsAppendOnly
