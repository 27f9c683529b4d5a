SPECIFICATION FairSpec
CONSTANTS
    n1 = n1
    n2 = n2
    n3 = n3
    x = x
    v1 = v1
    c1 = c1
    None = None
    NoValue = NoValue
    Chief = n1
    Electable = {n1, n2}
    Server = {n1, n2}
    Request <- NoRequest
    Contacts = {n1}
    Hasty = {}
    Cutting = {}
    MaxTerm = 2
    Channel = 1
    Pipe = 1
PROPERTY ElectionRestarts
CHECK_DEADLOCK FALSE
