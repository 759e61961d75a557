SPECIFICATION Spec
CONSTANTS
    t = t
    u = u
    Tests = {t, u}
    Versions = {v1, v2, v3}
    Effectful = {v3}
    EditsInBuild = TRUE
    MaxRuns = 3
    MaxEdits = 3
INVARIANTS
    EntriesAreTrue
SYMMETRY CacheSymmetry
CHECK_DEADLOCK FALSE
