SPECIFICATION Spec
CONSTANTS
    n1 = n1
    n2 = n2
    n3 = n3
    x = x
    y = y
    v1 = v1
    v2 = v2
    v3 = v3
    None = None
    NoValue = NoValue
    Server = {n1, n2, n3}
    Electable = {n1, n2, n3}
    Request <- OneRequest
    InitialLinks <- Mesh
    LateLinks <- NoLinks
    Breakable <- NoLinks
    MaxTerm = 2
    Capacity = 2
    Backlog = 0
INVARIANT CampaignNeverForgotten
CHECK_DEADLOCK FALSE
SYMMETRY Symmetry
