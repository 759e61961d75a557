SPECIFICATION TimeSpec
CONSTANTS
    r1 = r1
    r2 = r2
    Striped = {r1, r2}
    Timeout = 2
    Grace = 5
INVARIANTS
    TimeoutPrecedesTrap
PROPERTIES
    BusyTrapIsARunaway
    RunawayEnds
CHECK_DEADLOCK FALSE
