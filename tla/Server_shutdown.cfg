SPECIFICATION FairServerSpec
CONSTANTS
    Threads = {s1, s2}
    Names = {a, b}
    ModelIds = {m}
    ValidNames = {a, b, m}
    Sizes = {1}
    Priorities = {0}
    Costs = {0}
    Timeouts = {"finite"}
    EvictionLists <- NoEvictionLists
    Capacity = 1
    Policy = "PriorityFifo"
    NoRequest = NoRequest
    FileModels = {}
    MaxRefs = 1
    Backend = "metal"
    NoLoad = NoLoad
    NodeIds = {}
    Recording = FALSE
    NothingDue = NothingDue
    MaxLines = 2
PROPERTIES ShutdownCompletes DrainCompletes
CHECK_DEADLOCK FALSE
