SPECIFICATION Spec
CONSTANTS
    a1 = a1
    a2 = a2
    a3 = a3
    a4 = a4
    b1 = b1
    b2 = b2
    b3 = b3
    Keys <- MCKeys
    Lt = 1
    U1 = 4
    U2 = 2
    Bup = 1
    MinC2 = 4
    Sbl = 1
    MaxOthers = 2
    MaxLen2 = 8
    NoTable = NoTable
SYMMETRY MCSymmetry
CONSTRAINT NoneDoubled
INVARIANTS
    TypeOK
    NoEdgeLost
    EnumeratedOnce
    NumsExact
    ChainShape
PROPERTIES
    EmptiedMeansEmpty
