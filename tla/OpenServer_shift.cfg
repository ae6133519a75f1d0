CONSTANTS
    k1 = k1
    k2 = k2
    k3 = k3
    NoConn = NoConn
    NoMsg = NoMsg
    Conns <- MCConns3
    Fds <- MCFds3
    Have <- MCHave
    Inputs <- MCBadAndGood
    MaxSlots = 4
    InitialSize = 1
    BlockCount = 2
    BlockUnits = 1
    MaxAsks = 1
    Fragmentation = FALSE
    ShortSends = FALSE
    Faults = {}
SPECIFICATION Spec
INVARIANTS TypeOK ArrayInv WatchedOnce NeverDiesRemoving
PROPERTIES OnlyBadClientsDropped OthersMessagesStay
SYMMETRY MCSymmetry
CHECK_DEADLOCK FALSE
