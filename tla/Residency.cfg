SPECIFICATION ResidencySpec
CONSTANTS
    Threads = {t1}
    Names = {a}
    ModelIds = {m, n, o, bad}
    ValidNames = {a, m, n, o}
    Sizes = {0, 1, 2}
    Priorities = {0}
    Costs = {0}
    Timeouts = {"infinite"}
    EvictionLists <- NoEvictionLists
    Capacity = 2
    Policy = "PriorityFifo"
    NoRequest = NoRequest
    FileModels = {o}
    MaxRefs = 1
    Backend = "cuda"
    NoLoad = NoLoad
VIEW View
SYMMETRY ModelSymmetry
INVARIANTS ResidencyTypeOK ResidencyAgrees BackendAgrees ResidentIsAllocated OvercommitBounded RefCountsAgree
PROPERTIES RetainedStays FailedLoadEvictsNothing
