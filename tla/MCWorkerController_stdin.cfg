SPECIFICATION ControllerSpec
CONSTANTS
    c1 = c1
    c2 = c2
    k1 = k1
    k2 = k2
    d1 = d1
    Nobody = Nobody
    Calls = {c1}
    Operations = {}
    Dirs = {d1}
    OutputDir <- SameDir
    BigRequests = {c1}
    Closers = {}
    ConcurrentWorkers = 1
    Responses = {"success"}
    Noises = {}
    Faults = {}
PROPERTIES CancelledCallReturns
CHECK_DEADLOCK FALSE
