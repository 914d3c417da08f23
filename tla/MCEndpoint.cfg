SPECIFICATION Spec
CONSTANTS
    s1 = s1
    s2 = s2
    s3 = s3
    s4 = s4
    s5 = s5
    v1 = v1
    v2 = v2
    v3 = v3
    e1 = e1
    e2 = e2
    Servers = {s1, s2, s3, s4, s5}
    Vaults = {v1, v2, v3}
    VaultOf <- MCVaults
    Endpoints = {e1, e2}
    EndpointOf <- MCEndpoints
    NoSock = NoSock
    Stale = Stale
    NotASocket = NotASocket
    NoServer = NoServer
INVARIANTS Reachable StartsOverRemains NothingLeftBehind
PROPERTY LiveEntryKept
