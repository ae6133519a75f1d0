CONSTANTS
    a1 = a1
    a2 = a2
    NoConn = NoConn
    NoMsg = NoMsg
    Clients <- One
    Conns <- OneConns
    Fds <- TwoFds
    Have <- All
    Up <- FirstIsUp
    Mortal = {}
    MaxSlots = 3
    InitialSize = 1
    BlockCount = 1
    BlockUnits = 1
    PeerCount = 1
    MaxRuns = 1
    Fragmentation = FALSE
    ShortSends = TRUE
    Faults = {}
    CallFaults = {}
    IoFaults = {}
SPECIFICATION FairSpec
PROPERTY RunsEnd
CHECK_DEADLOCK FALSE
