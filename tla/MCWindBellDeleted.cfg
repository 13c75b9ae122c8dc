SPECIFICATION Spec
CONSTANTS
    n1 = n1  n2 = n2  n3 = n3  n4 = n4
    Node = {n1, n2, n3, n4}
    Null = Null
    Edge <- MCEdge
    Len2 = 2
    RowOf <- MCRowOf
    ColOf <- MCColOf
    KickAt = 1
    MaxKicks = 2
    Wrap = 3
    MaxInserts = 4
INVARIANT DeletedIsGone
SYMMETRY Addresses
CHECK_DEADLOCK FALSE
