SPECIFICATION Spec
CONSTANTS
    c1 = c1
    c2 = c2
    k1 = k1
    k2 = k2
    d1 = d1
    Nobody = Nobody
    Calls = {c1}
    Operations = {c1}
    Dirs = {d1}
    OutputDir <- SameDir
    BigRequests = {}
    Closers = {k1}
    ConcurrentWorkers = 1
    Responses = {"success"}
    Noises = {}
    Faults = {"reader_start"}
INVARIANTS TreeOwned
CHECK_DEADLOCK FALSE
