SPECIFICATION FairSpec
CONSTANTS
    d1 = d1
    e1 = e1
    e2 = e2
    NoSource = NoSource
    Registrations = {d1}
    Executions = {e1, e2}
    SourceOf <- MCSource
    ConcurrentWorkers = 1
    MaxStores = 2
INVARIANTS OneStore LiveIffAnswered WorkerKeepsStage
PROPERTIES EveryRequestEnds
CHECK_DEADLOCK FALSE
