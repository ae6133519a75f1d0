CONSTANTS
    a1 = a1
    a2 = a2
    NoConn = NoConn
    NoMsg = NoMsg
    Clients <- Two
    Conns <- TwoConns
    Fds <- TwoFds
    Have <- Zero
    Up <- FirstIsUp
    Mortal = {1}
    MaxSlots = 3
    InitialSize = 1
    BlockCount = 2
    BlockUnits = 1
    PeerCount = 1
    MaxRuns = 1
    Fragmentation = TRUE
    ShortSends = FALSE
    Faults = {"poll"}
    CallFaults = {}
    IoFaults = {}
SPECIFICATION Spec
PROPERTY DownloadsSafely
SYMMETRY Swapped
CHECK_DEADLOCK FALSE
