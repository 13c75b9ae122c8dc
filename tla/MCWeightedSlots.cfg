SPECIFICATION Spec
CONSTANTS
    s1 = s1
    s2 = s2
    d1 = d1
    d2 = d2
    d3 = d3
    d4 = d4
    d5 = d5
    d6 = d6
    d7 = d7
    Edges <- MCEdges
    Bup = 1
    MinC2 = 4
    NoTable = NoTable
    Lt = 1
    U1 = 2
    U2 = 2
    Sbl = 1
    Wrap = 3
    Repeated <- MCRepeated
    MaxLen2 = 4
CHECK_DEADLOCK FALSE
SYMMETRY MCSymmetry
INVARIANTS
    TypeOK
    NeighborsExact
PROPERTIES
    ImplementsMultigraph
