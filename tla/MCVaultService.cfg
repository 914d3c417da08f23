SPECIFICATION Spec
CONSTANTS
    a = a
    b = b
    c1 = c1
    c2 = c2
    Clients = {c1, c2}
    Ids = {a, b}
    NoId = NoId
    Values = {v1}
    NoSecret = NoSecret
    MaxSecrets = 1
    Writer <- OneWriter
    Calls <- Roles
    Conns = {1, 2}
    NoConn = 0
    Backlog = 2
    MaxRequestId = 2
    MaySignal = FALSE
SYMMETRY Symmetry
INVARIANTS TypeOK StoreWithinContract GetAnswers LockIsKept
