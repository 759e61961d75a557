SPECIFICATION Spec
CONSTANTS
    r1 = r1
    r2 = r2
    Requests = {r1, r2}
    NWorkers = 1
    MaxConcurrency = 1
    RecycleRequests = 1
    MaxFaults = 1
PROPERTIES
    UnreadHandlerEnds
    KeepsPromise
    FailedWorkerEndsServer
    WorkersObey
CHECK_DEADLOCK FALSE
