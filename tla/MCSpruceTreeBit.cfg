SPECIFICATION Spec
CONSTANTS
    t1 = t1
    t2 = t2
    s1 = s1
    s2 = s2
    d1 = d1
    d2 = d2
    d3 = d3
    Threads = {t1, t2}
    Sources = {s1, s2}
    Dests = {d1, d2, d3}
    Edges <- MCEdges
    Loads <- MCLoads
    SmallCap = 1
    HeadCap = 2
    Threshold = 1
    MaxCalls = 2
    Middles = {1, 2, 3, 4}
    Blocks = {11, 12, 13, 14, 15, 16}
    Null = Null
    Leaked = Leaked
INVARIANT BitMeansBlock
CHECK_DEADLOCK FALSE
