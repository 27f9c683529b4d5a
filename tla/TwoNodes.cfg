SPECIFICATION Spec
CONSTANTS
    n1 = n1
    n2 = n2
    n3 = n3
    x = x
    y = y
    v1 = v1
    v2 = v2
    v3 = v3
    None = None
    NoValue = NoValue
    Server = {n1, n2}
    Electable = {n1, n2}
    Request <- ThreeRequests
    InitialLinks <- NoLinks
    LateLinks <- Mesh
    Breakable <- OneWay
    MaxTerm = 2
    Capacity = 3
    Backlog = 1
INVARIANTS TypeOK VoteBookkeeping FollowerCaughtUp LogWellFormed
PROPERTY RoleChanges
CHECK_DEADLOCK FALSE
