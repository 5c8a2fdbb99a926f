SPECIFICATION Spec
CONSTANTS
    Capacities <- ThreeDevices
    Models = {a, b, c, d, e, invalid}
    ValidModels = {a, b, c, d, e}
    Sizes = {0, 1, 2, 3, 4}
SYMMETRY ModelSymmetry
INVARIANTS DevicesAccounted
PROPERTIES PlacesLeastUsed
