CONSTANTS
    r = r
    a = a
    b = b
    Root = r
    Sessions = {r, a, b}
    MaxDepth = 1
    MaxDescendants = 1
    MaxMessages = 2
    MaxTurns = 3
    Sendable <- Asking
    Ends = {"completed", "exhausted", "awaiting"}
    Troubles = {}
    MaxTroubles = 1
SPECIFICATION RelatedSpec
INVARIANT SettledByItsWork
CHECK_DEADLOCK FALSE
SYMMETRY SessionSymmetry
