SPECIFICATION FairSpec
CONSTANTS
    u1 = u1
    u2 = u2
    w1 = w1
    w2 = w2
    q1 = q1
    q2 = q2
    NoUser = NoUser
    Users = {u1}
    Workers = {w1, w2}
    Requests = {q1}
    MaxRecords = 2
    MaxRetries = 1
    MaxCrashes = 2
    DBFaults = TRUE
    SplitDetail = TRUE
PROPERTY EveryRecordSettles
CHECK_DEADLOCK FALSE
