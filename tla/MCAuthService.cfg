SPECIFICATION Spec
CONSTANTS
    q1 = q1
    q2 = q2
    Users = {"alice"}
    Requests = {q1, q2}
    MaxTokens = 3
    MaxWrites = 2
    DBFaults = TRUE
SYMMETRY Symmetry
INVARIANT TypeOK
INVARIANT RotationConsumes
INVARIANT SessionsRestOnPassword
