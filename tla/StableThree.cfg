SPECIFICATION Spec
CONSTANTS
    n1 = n1
    n2 = n2
    n3 = n3
    x = x
    y = y
    v1 = v1
    v2 = v2
    v3 = v3
    None = None
    NoValue = NoValue
    Chief = n1
    Electable = {n1}
    Server = {n1, n2, n3}
    Request <- ThreeRequests
    InitialLinks <- RestOfMesh
    LateLinks <- BothWays
    Breakable <- NoLinks
    MaxTerm = 1
    Capacity = 2
    Backlog = 0
INVARIANTS AnsweredIsApplied LeaderNeverPanics
PROPERTY ImplementsReplicatedLog
CHECK_DEADLOCK FALSE
