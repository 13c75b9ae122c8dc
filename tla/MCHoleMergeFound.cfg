SPECIFICATION Spec
CONSTANTS
    a1 = a1
    a2 = a2
    a3 = a3
    a4 = a4
    b1 = b1
    b2 = b2
    b3 = b3
    Sources <- MCSources
    L1 = 2
    L2 = 2
    Bup = 1
    MinC2 = 4
    Bbl = 1
    MaxLen2 = 4
    NoTable = NoTable
SYMMETRY MCSymmetry
INVARIANTS
    InsertedIsFound
