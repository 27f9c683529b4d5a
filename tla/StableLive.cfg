SPECIFICATION FairSpec
CONSTANTS
    n1 = n1
    n2 = n2
    n3 = n3
    x = x
    y = y
    v1 = v1
    v2 = v2
    v3 = v3
    None = None
    NoValue = NoValue
    Chief = n1
    Electable = {n1}
    Server = {n1, n2, n3}
    Request <- OneRequest
    InitialLinks <- Mesh
    LateLinks <- NoLinks
    Breakable <- NoLinks
    MaxTerm = 1
    Capacity = 4
    Backlog = 0
PROPERTY LeaderElected RequestAnswered StoresConverge
CHECK_DEADLOCK FALSE
