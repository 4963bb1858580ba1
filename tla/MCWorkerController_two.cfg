SPECIFICATION Spec
CONSTANTS
    c1 = c1
    c2 = c2
    k1 = k1
    k2 = k2
    d1 = d1
    Nobody = Nobody
    Calls = {c1, c2}
    Operations = {c1, c2}
    Dirs = {d1}
    OutputDir <- SameDir
    BigRequests = {}
    Closers = {k1}
    ConcurrentWorkers = 2
    Responses = {"success"}
    Noises = {}
    Faults = {"join_timeout"}
INVARIANTS CapacityConserved CloseLeavesNoTree PublishedAgrees
PROPERTIES NoPublishAfterClose
SYMMETRY CallsSymmetry
CHECK_DEADLOCK FALSE
