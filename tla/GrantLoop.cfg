SPECIFICATION Spec
CONSTANTS
    MaxWaiters = 3
    Sizes = {1, 2}
    Priorities = {0, 1}
    Costs = {0, 1}
    MaxFree = 3
    Policy = "CostAware"
INVARIANTS TypeOK Partition PassComputesGrantSet
PROPERTIES PassEnds
CHECK_DEADLOCK FALSE
