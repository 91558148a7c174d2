SPECIFICATION Spec
CONSTANTS
    t1 = t1
    t2 = t2
    u1 = u1
    u2 = u2
    Tasks = {t1, t2, "probe"}
    ProcessOf <- MCProcessOf
    EnvBundle = FALSE
    AuthSources <- MCAuthSources
    Mishaps = {}
    MaxGenerations = 3
    MaxMishaps = 1
    MaxChanges = 2
    Configurations <- MCConfigurations
    FirstSettings <- MCFirst
    Patches <- MCPatches
    Senders = {"s1"}
    Patchers = {u1, u2}
    Keep = "keep"
    Default = "default"
    MaxRetries = 1
    MaxRevisions = 3
    MaxStarts = 2
    MaxRequested = 2
    MaxWakes = 1
    MaxRestarts = 1
SYMMETRY AdmissionSymmetry
CHECK_DEADLOCK FALSE
INVARIANT SpentOnceAnyway
