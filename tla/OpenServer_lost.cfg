CONSTANTS
    k1 = k1
    k2 = k2
    k3 = k3
    NoConn = NoConn
    NoMsg = NoMsg
    Conns <- MCConns2
    Fds <- MCFds2
    Have <- MCHave
    Inputs <- MCRequest
    MaxSlots = 3
    InitialSize = 1
    BlockCount = 2
    BlockUnits = 1
    MaxAsks = 1
    Fragmentation = FALSE
    ShortSends = FALSE
    Faults = {}
SPECIFICATION ReadingSpec
PROPERTY RequestsAnswered
CHECK_DEADLOCK FALSE
