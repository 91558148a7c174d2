SPECIFICATION Spec
CONSTANTS
    Calls = {"shell", "read"}
    Exploration = {"read"}
    Troubles = {"command", "pause", "cancel", "reload"}
    MaxTroubles = 1
    MaxLines = 3
    MaxCompletions = 2
    FirstSessions = {"a", "b"}
    NewSessions = {"c"}
    NoSession = "none"
    SlashCommands = {"render","settings","steer","clear","detach","resume","branch","cancel"}
    Keys = {"refresh","approve","cycle_branch","cycle_session","new"}
    MaxCommands = 2
    MaxSends = 1
    MaxLoads = 1
    Launchers = {"l1","l2"}
    Servers = {"s1","s2","s3"}
    Ports = {"home","p1"}
    Home = "home"
    Shared = "shared"
    Conns = {"local","claude","gone"}
    Local = "local"
    Supported = {"local","claude"}
    FirstDefaults = {"claude","gone"}
    Readiness = {"ready","missing_auth"}
    Explicit = {"l2"}
    NoSetup = {"l2"}
    CargoRun = {"l2"}
    Nobody = "nobody"
    MaxSlow = 1
    MaxAgain = 1
CHECK_DEADLOCK FALSE
INVARIANTS ShownOnceAndWhole AnswersOwnSession LaunchesSafe
PROPERTIES SerialOrder
