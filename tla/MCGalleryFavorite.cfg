SPECIFICATION Spec
CONSTANTS
    u1 = u1
    u2 = u2
    r1 = r1
    r2 = r2
    p1 = p1
    p2 = p2
    q1 = q1
    q2 = q2
    NoUser = NoUser
    NoRecord = NoRecord
    NoProject = NoProject
    Users = {u1, u2}
    Records = {r1}
    Projects = {p1, p2}
    Requests = {q1, q2}
SYMMETRY Symmetry
PROPERTY FavoriteOfOthersSucceeds
