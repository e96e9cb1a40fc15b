SPECIFICATION Spec
CONSTANTS
    k1 = k1
    k2 = k2
    k3 = k3
    Keys = {k1, k2, k3}
    Limit = 2
    Window = 2
    GcSize = 2
    MaxTime = 5
    MaxRequests = 7
SYMMETRY Symmetry
INVARIANT BurstBounded
INVARIANT RefusedRightly
CHECK_DEADLOCK FALSE
