SPECIFICATION Spec
CONSTANTS
    w1 = w1
    w2 = w2
    n1 = n1
    k1 = k1
    k2 = k2
    Workers = {w1, w2}
    Names = {n1}
    Keys = {k1, k2}
    Backends = {"file", "redis"}
    Expires = {1}
    MaxTime = 4
    Absent = Absent
INVARIANTS
    TypeOK
    SavedIsFoundUnlessRaced
    DeletedIsGoneUnlessRaced
    ExpiresUnlessRaced
SYMMETRY MCSymmetry
CHECK_DEADLOCK FALSE
