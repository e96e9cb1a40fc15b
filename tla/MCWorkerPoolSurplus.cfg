SPECIFICATION Spec
CONSTANTS
    g1 = g1
    g2 = g2
    g3 = g3
    g4 = g4
    Goroutines <- MCGoroutines4
    MaxWorkers = 2
    Targets <- MCStoreTarget
    MaxResizes = 2
    MaxCreates = 1
SYMMETRY Symmetry
INVARIANT OnlySurplusExits
CHECK_DEADLOCK FALSE
