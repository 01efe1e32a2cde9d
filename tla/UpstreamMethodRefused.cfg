CONSTANTS
    r1 = r1
    r2 = r2
    r3 = r3
    Requests = {r1, r2}
    Candidates = 2
    Kinds = {"tcp"}
SPECIFICATION FairSpec
INVARIANT
    SuccessHasTransport
CHECK_DEADLOCK FALSE
