CONSTANTS
    r1 = r1
    r2 = r2
    r3 = r3
    Requests = {r1, r2, r3}
    Candidates = 2
    Kinds = {"tcp", "ssl"}
SPECIFICATION FairSpec
INVARIANTS
    TypeOK
    SafePublication
    Ownership
    CachedIsConnected
PROPERTIES
    InitOnce
    ContractSpec
    LockGranted
CHECK_DEADLOCK FALSE
