CONSTANTS
    t1 = t1
    t2 = t2
    Threads = {t1, t2}
    NumSinks = 3
    SinkLevel <- Levels
    LogLevels = {0, 1, 4}
    Word = {"k", "j"}
    Other = {"-"}
    MaxFormat = 7
    Attributes <- MCAttributes
    MaxRecords = 1
SPECIFICATION FairSpec
INVARIANT
    OwnTime
CHECK_DEADLOCK FALSE
