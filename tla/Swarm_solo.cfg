CONSTANTS
    a1 = a1
    a2 = a2
    NoConn = NoConn
    NoMsg = NoMsg
    Clients <- One
    Conns <- OneConns
    Fds <- TwoFds
    Have <- All
    Up <- SecondIsUp
    Mortal = {}
    MaxSlots = 3
    InitialSize = 1
    BlockCount = 3
    BlockUnits = 2
    PeerCount = 2
    MaxRuns = 1
    Fragmentation = FALSE
    ShortSends = FALSE
    Faults = {}
    CallFaults = {}
    IoFaults = {}
SPECIFICATION FairSpec
INVARIANT AnswersMatch
PROPERTY Downloads
CHECK_DEADLOCK FALSE
