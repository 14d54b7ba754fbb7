SPECIFICATION Spec
CONSTANTS
    c1 = c1
    c2 = c2
    c3 = c3
    i1 = i1
    i2 = i2
    Callers <- MCCallers
    Ids <- MCIds
    NoId = NoId
    RepairMaxAttempts = 2
    Ttl = 1
    MaxDrafts = 3
    MaxTime = 1
SYMMETRY MCSymmetry
INVARIANT Inv
PROPERTY Implements
CHECK_DEADLOCK FALSE
