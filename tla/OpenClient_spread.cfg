CONSTANTS
    a1 = a1
    Clients <- MCClients
    Conns <- MCConns
    Seeders <- BothSeed
    Holds <- EachHoldsOne
    Noise <- NoNoise
    MaxNoise = 0
    BlockCount = 2
    BlockUnits = 1
    PeerCount = 2
    MaxRuns = 1
    Fragmentation = FALSE
    CallFaults = {}
    IoFaults = {}
SPECIFICATION Spec
INVARIANT EveryPeerAskedForEveryBlock
CHECK_DEADLOCK FALSE
