CONSTANTS
    k1 = k1
    k2 = k2
    k3 = k3
    NoConn = NoConn
    NoMsg = NoMsg
    Conns <- MCConns2
    Fds <- MCFds2
    Have <- MCHave
    Inputs <- MCRequests
    MaxSlots = 3
    InitialSize = 1
    BlockCount = 2
    BlockUnits = 1
    MaxAsks = 1
    Fragmentation = TRUE
    ShortSends = TRUE
    Faults = {"accept", "load"}
SPECIFICATION FairSpec
PROPERTY DeadClientsCollected
CHECK_DEADLOCK FALSE
