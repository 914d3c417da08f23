SPECIFICATION Spec
CONSTANTS
    Servers = {s1, s2, s3}
    Bare = {s3}
    Nobody = Nobody
    Passwords = {p1, p2}
    NoPassword = NoPassword
    NoVault = NoVault
    Umasked = "wide"
SYMMETRY Symmetry
INVARIANTS ConfirmedUnlessRemoved ServesItsVault VaultIsPrivate
