SPECIFICATION FairSpec
CONSTANTS
    a = a
    b = b
    c1 = c1
    c2 = c2
    Clients = {c1, c2}
    Ids = {a}
    NoId = NoId
    Values = {v1}
    NoSecret = NoSecret
    MaxSecrets = 2
    Writer <- OneWriter
    Calls <- Looks
    Conns = {1, 2}
    NoConn = 0
    Backlog = 2
    MaxRequestId = 2
    MaySignal = TRUE
PROPERTIES Served StopsWhenQuiet CallsReturn
