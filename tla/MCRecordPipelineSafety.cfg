SPECIFICATION Spec
CONSTANTS
    u1 = u1
    u2 = u2
    w1 = w1
    w2 = w2
    q1 = q1
    q2 = q2
    NoUser = NoUser
    Users = {u1, u2}
    Workers = {w1, w2}
    Requests = {q1, q2}
    MaxRecords = 2
    MaxRetries = 2
    MaxCrashes = 2
    DBFaults = TRUE
    SplitDetail = TRUE
SYMMETRY Symmetry
INVARIANT TypeOK
INVARIANT ColumnsAgree
INVARIANT ClaimedAlone
INVARIANT CompletedServable
INVARIANT StreamMissesOnlyDeleted
INVARIANT RunningIsHeld
PROPERTY ImplementsLifecycle
CHECK_DEADLOCK FALSE
