SPECIFICATION Spec
CONSTANTS
    n1 = n1
    n2 = n2
    n3 = n3
    x = x
    y = y
    v1 = v1
    v2 = v2
    v3 = v3
    None = None
    NoValue = NoValue
    Electable = {n1, n2}
    Server = {n1, n2, n3}
    Request <- OneRequest
    InitialLinks <- Mesh
    LateLinks <- NoLinks
    Breakable <- NoLinks
    MaxTerm = 1
    Capacity = 2
    Backlog = 0
INVARIANT OneLeaderPerTerm
CHECK_DEADLOCK FALSE
