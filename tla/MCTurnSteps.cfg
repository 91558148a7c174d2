SPECIFICATION Spec
CONSTANTS
    Dialects = {"anthropic", "openai", "chatgpt", "cli"}
    Fragments = 2
    MaxModelCalls = 2
    Upsets = {"interrupt", "steer", "deliver"}
    MaxUpsets = 2
    Calls = {c1, c2}
    Safe = {read}
    Guarded = {shell, write}
    PolicyApproved = {write}
    Ask = ask
    Immediate = {read}
    HumanDecisions <- AnyDecision
    Approvers = {a1}
    MaxTurns = 3
    MaxRequests = 2
    MaxOperatorTools = 1
    Troubles = {"cancel", "fault", "gone", "auto", "crash"}
    MaxTroubles = 2
    r1 = r1
    r2 = r2
    Runners = {r1, r2, "r3"}
    Files = {"f", "new"}
    Paths = {"f", "alias", "new"}
    FileOf <- MCFileOf
    Checks = {"f"}
    FirstFiles = {"f"}
    Prepared = {r1, r2}
    NoQueue = 0
    MaxQueues = 3
    MaxCalls = 3
CONSTRAINTS OperatorBound AnswerBound
SYMMETRY StepSymmetry
CHECK_DEADLOCK FALSE
INVARIANTS TerminalsSound ApprovedFirst NeverReexecuted GrantsAgree CallsExact RequestsAccepted EditsIntact
