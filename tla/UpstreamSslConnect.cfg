CONSTANTS
    r1 = r1
    r2 = r2
    r3 = r3
    Requests = {r1, r2}
    Candidates = 2
    Kinds = {"ssl"}
SPECIFICATION FairSpec
INVARIANT
    OneResult
CHECK_DEADLOCK FALSE
