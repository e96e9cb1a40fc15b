SPECIFICATION Spec
CONSTANTS
    a = a
    b = b
    t1 = t1
    t2 = t2
    i1 = i1
    i2 = i2
    w1 = w1
    w2 = w2
    Torn = Torn
    Absent = Absent
    Paths = {a, b}
    Temps = {t1, t2}
    Images = {i1, i2}
    MaxPuts = 2
    Workers = {w1, w2}
    Size <- MCSize
SYMMETRY Symmetry
INVARIANT BucketWhole
INVARIANT SuccessMeansCopied
PROPERTY SwitchKeepsImages
PROPERTY LocalIsAtomic
