SPECIFICATION FairSpec
CONSTANTS
    Threads = {t1, t2}
    Names = {a, b}
    ModelIds = {m}
    ValidNames = {a, b, m}
    Sizes = {1, 2}
    Priorities = {0, 1}
    Costs = {0}
    Timeouts = {"finite", "infinite"}
    EvictionLists <- NoEvictionLists
    Capacity = 2
    Policy = "PriorityFifo"
    NoRequest = NoRequest
INVARIANTS WorkConserving
PROPERTIES NoPriorityInversion Answered
