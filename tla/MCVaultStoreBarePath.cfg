SPECIFICATION Spec
CONSTANTS
    Procs = {p1, p2}
    NoProc = NoProc
    Ids = {a, b, c}
    small = small
    large = large
    Values = {small, large}
    NoSecret = NoSecret
    Passwords = {k1, k2}
    NoKey = NoKey
    NoFile = NoFile
    NoVault = NoVault
    MaxSecrets = 2
    PlaintextSize <- MCPlaintextSize
    HeaderSize = 2
    TagSize = 1
    MaxFileSize = 6
    DirSync = {FALSE}
INVARIANT NoLostWrite
