SPECIFICATION Spec
CONSTANTS
    a = a
    b = b
    c = c
    k = k
    m = m
    p = p
    q = q
    Ids = {a, b, c}
    Names = {k, m}
    Props = {p, q}
    Graphs <- MCGraphs
    Paths <- MCPaths
    MaxEdges = 3
    MaxCount = 4
CHECK_DEADLOCK FALSE
INVARIANTS
    TypeOK
    MatchExact
    MatchScore
    CountExact
    ClosureExact
    ClosureSound
    ClosureDepth
PROPERTY
    Terminates
