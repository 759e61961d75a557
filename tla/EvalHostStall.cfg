SPECIFICATION FairSpec
CONSTANTS
    Tests = {t1, t2}
    Keys = {k1}
    Cpus = 1
    MaxCalls = 1
    Slow = {t1}
PROPERTIES
    HangsCannotStall
CHECK_DEADLOCK FALSE
