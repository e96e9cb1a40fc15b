SPECIFICATION FairSpec
CONSTANTS
    g1 = g1
    g2 = g2
    g3 = g3
    g4 = g4
    Goroutines <- MCGoroutines3
    MaxWorkers = 2
    Targets <- MCAnyTarget
    MaxResizes = 3
    MaxCreates = 2
INVARIANT TypeOK
INVARIANT CountersExact
INVARIANT ConcurrencyCeiling
INVARIANT StopMeansQuiet
INVARIANT StopClaimsBounded
PROPERTY QueueDrains
PROPERTY StopDrains
CHECK_DEADLOCK FALSE
