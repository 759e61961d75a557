SPECIFICATION FairSpec
CONSTANTS
    Tests = {t1, t2}
    Keys = {k1}
    Cpus = 2
    MaxCalls = 2
    Slow = {t1}
INVARIANTS
    OneEvaluation
    PanicsSurface
PROPERTIES
    TestsEnd
CHECK_DEADLOCK FALSE
