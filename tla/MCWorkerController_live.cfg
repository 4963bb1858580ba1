SPECIFICATION FairSpec
CONSTANTS
    c1 = c1
    c2 = c2
    k1 = k1
    k2 = k2
    d1 = d1
    Nobody = Nobody
    Calls = {c1}
    Operations = {c1}
    Dirs = {d1}
    OutputDir <- SameDir
    BigRequests = {c1}
    Closers = {k1, k2}
    ConcurrentWorkers = 1
    Responses = {"success"}
    Noises = {}
    Faults = {"prepare", "launch", "reader_start", "memory", "read", "join_timeout", "verify", "rename", "discard"}
PROPERTIES EveryCallReturns
CHECK_DEADLOCK FALSE
