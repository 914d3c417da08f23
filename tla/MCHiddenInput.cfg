SPECIFICATION Spec
CONSTANTS
    ctl = ctl
    server = server
    Programs = {ctl, server}
    Rounds <- MCRounds
    Limit = 2
    LineMax = 3
    MaxQueue = 4
INVARIANTS ValueNeverShown HiddenStaysPrivate EchoRestored
