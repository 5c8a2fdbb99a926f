SPECIFICATION ServerSpec
CONSTANTS
    Threads = {s1, s2}
    Names = {a, b}
    ModelIds = {m}
    ValidNames = {a, b, m}
    Sizes = {1}
    Priorities = {0}
    Costs = {0}
    Timeouts = {"finite", "infinite"}
    EvictionLists <- NoEvictionLists
    Capacity = 1
    Policy = "PriorityFifo"
    NoRequest = NoRequest
    FileModels = {}
    MaxRefs = 1
    Backend = "mock"
    NoLoad = NoLoad
    NodeIds = {k}
    Recording = TRUE
    NothingDue = NothingDue
    MaxLines = 3
VIEW View
SYMMETRY SessionSymmetry
INVARIANTS ServerTypeOK MetricsAddUp StoppedIsQuiet
PROPERTIES OtherPathKept
CHECK_DEADLOCK FALSE
