CONSTANTS
    k1 = k1
    k2 = k2
    Clients = {k1, k2}
    MaxServers = 3
    MaxHops = 3
    ArgLists <- MCArgLists
    Files <- MCFiles
SPECIFICATION FairSpec
INVARIANTS
    TypeOK
    AllStarted
    ThreadKept
    Chained
PROPERTIES
    CommandLine
    Served
    Unwinds
    NoZombie
CHECK_DEADLOCK FALSE
