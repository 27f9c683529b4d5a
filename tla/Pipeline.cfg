SPECIFICATION Spec
CONSTANTS
    n1 = n1
    n2 = n2
    n3 = n3
    x = x
    v1 = v1
    c1 = c1
    None = None
    NoValue = NoValue
    Chief = n1
    Electable = {n1}
    Server = {n1, n2, n3}
    Request <- OneRequest
    Contacts = {n1}
    Hasty = {}
    Cutting = {n1}
    MaxTerm = 1
    Channel = 1
    Pipe = 1
INVARIANTS TypeOK CutKeepsAnswers 
PROPERTIES HandlersAppearAtomic CutKeepsReplicas
SYMMETRY Followers
CHECK_DEADLOCK FALSE
