SPECIFICATION ListSpec
CONSTANTS
    Ids = {1, 2, 3, 4}
    MaxStamp = 5
    MaxSize = 3
    DefaultSize = 2
    Sizes = {0, 1, 2, 3, 4}
INVARIANT WalkMissesNothing
INVARIANT NoRepeats
