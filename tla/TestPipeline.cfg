SPECIFICATION Spec
CONSTANTS
    Files = {f1, f2, f3}
    MaxTests = 2
    CompileJobs = 1
    LoadJobs = 1
    ExecuteJobs = 1
    Cpus = 1
INVARIANTS
    ModulesBounded
    AllReported
PROPERTIES
    RunEnds
CHECK_DEADLOCK FALSE
