CONSTANTS
    k1 = k1
    k2 = k2
    k3 = k3
    NoConn = NoConn
    NoMsg = NoMsg
    Conns <- MCConns2
    Fds <- MCFds2
    Have <- MCHave
    Inputs <- MCRequests
    MaxSlots = 3
    InitialSize = 1
    BlockCount = 2
    BlockUnits = 1
    MaxAsks = 2
    Fragmentation = FALSE
    ShortSends = TRUE
    Faults = {"accept", "fcntl", "realloc", "load", "close", "poll"}
SPECIFICATION Spec
INVARIANTS ArrayInv AnswersInOrder
PROPERTY WatchedUntilClosed
SYMMETRY MCSymmetry
CHECK_DEADLOCK FALSE
