SPECIFICATION Spec
CONSTANTS
    r1 = r1
    r2 = r2
    r3 = r3
    Requests = {r1, r2, r3}
    NWorkers = 2
    MaxConcurrency = 2
    RecycleRequests = 2
    MaxFaults = 1
INVARIANTS
    JobKept
    PoolBounds
PROPERTIES
    OnlyFaultsDrop
SYMMETRY RequestSymmetry
CHECK_DEADLOCK FALSE
