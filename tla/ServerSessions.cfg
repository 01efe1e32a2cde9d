CONSTANTS
    c1 = c1
    c2 = c2
    Conns = {c1, c2}
    MaxFds = 2
    Configs <- TcpDirectOrSslSocks
SPECIFICATION FairSpec
INVARIANTS
    TypeOK
    Conversation
    OpenWhileServed
PROPERTIES
    SessionSpec
    Reclaim
    Answered
    Accepted
CHECK_DEADLOCK FALSE
