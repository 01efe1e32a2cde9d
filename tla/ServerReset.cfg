CONSTANTS
    c1 = c1
    c2 = c2
    Conns = {c1, c2}
    MaxFds = 4
    Configs <- OnlyTcpDirect
SPECIFICATION FairSpec
INVARIANT
    ResetEndsOneSession
CHECK_DEADLOCK FALSE
