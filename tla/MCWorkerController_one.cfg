SPECIFICATION Spec
CONSTANTS
    c1 = c1
    c2 = c2
    k1 = k1
    k2 = k2
    d1 = d1
    Nobody = Nobody
    Calls = {c1}
    Operations = {c1}
    Dirs = {d1}
    OutputDir <- SameDir
    BigRequests = {c1}
    Closers = {k1, k2}
    ConcurrentWorkers = 1
    Responses = {"success", "failure", "resource", "malformed", "oversize"}
    Noises = {"some", "flood"}
    Faults = {"prepare", "launch", "memory", "read", "verify", "rename", "discard"}
INVARIANTS TreeOwned HonestSuccess
CHECK_DEADLOCK FALSE
