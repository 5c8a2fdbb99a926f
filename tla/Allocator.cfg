SPECIFICATION Spec
CONSTANTS
    Ids = {a, b, c, d, invalid}
    ValidIds = {a, b, c, d}
    Sizes = {0, 1, 2, 3}
    Capacity = 6
    MaxOffset = 9
    Nobody = Nobody
VIEW View
SYMMETRY IdSymmetry
INVARIANTS AllocatorTypeOK UsedIsExact FreeListIsTheGaps
PROPERTY ImplementsAddressSpace
