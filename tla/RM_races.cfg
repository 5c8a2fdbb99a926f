SPECIFICATION Spec
CONSTANTS
    Threads = {t1, t2}
    Names = {a, b, c, bad}
    ModelIds = {m, n, bad}
    ValidNames = {a, b, c, m, n}
    Sizes = {0, 1, 2, 3}
    Priorities = {0}
    Costs <- MinusOneZeroTwo
    Timeouts = {"negative", "zero", "finite", "infinite"}
    EvictionLists <- EvictionListsUpTo2
    Capacity = 2
    Policy = "CostAware"
    NoRequest = NoRequest
VIEW View
SYMMETRY ThreadAndNameSymmetry
INVARIANTS TypeOK Accounting PendingNamesFree NoOrphanWaiter NoLostWakeup
PROPERTIES Settlement ImplementsBroker
