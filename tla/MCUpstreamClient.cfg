SPECIFICATION FairSpec
CONSTANTS
    ClientTimeout = 10
    TickDeadline = 12
    TestDeadline = 3
    ProbeDeadline = 1
    MaxLines = 3
INVARIANT ImageNotDropped
INVARIANT RejectionHasCause
INVARIANT OutcomeWritable
PROPERTY CallReturns
CHECK_DEADLOCK FALSE
