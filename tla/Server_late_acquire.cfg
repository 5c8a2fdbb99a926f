SPECIFICATION FairServerSpec
CONSTANTS
    Threads = {s1, s2}
    Names = {a, b}
    ModelIds = {}
    ValidNames = {a, b, c}
    Sizes = {1}
    Priorities = {0}
    Costs = {0}
    Timeouts = {"infinite"}
    EvictionLists <- NoEvictionLists
    Capacity = 1
    Policy = "PriorityFifo"
    NoRequest = NoRequest
    FileModels = {}
    MaxRefs = 1
    Backend = "mock"
    NoLoad = NoLoad
    NodeIds = {}
    Recording = FALSE
    NothingDue = NothingDue
    MaxLines = 2
PROPERTIES ShutdownCompletes
CHECK_DEADLOCK FALSE
