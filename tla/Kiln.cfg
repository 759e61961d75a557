SPECIFICATION Spec
CONSTANTS
    Inv = {a, b}
    Compiles = {p, q}
    Generators = {g, h}
    Versions = {"v1", "v2"}
    Files = {"one", "two"}
    Emits <- MCEmits
    EntryOf <- MCEntryOf
    Projects <- MCProjects
INVARIANTS
    RedirectsResolve
    NeverSilentlyStale
    OrphansGone
PROPERTIES
    StaysUpToDate
SYMMETRY KilnSymmetry
CHECK_DEADLOCK FALSE
