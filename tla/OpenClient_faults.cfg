CONSTANTS
    a1 = a1
    Clients <- MCClients
    Conns <- MCConns
    Seeders <- NoSeeders
    Holds <- HoldsNothing
    Noise <- MCNoise
    MaxNoise = 1
    BlockCount = 2
    BlockUnits = 1
    PeerCount = 2
    MaxRuns = 2
    Fragmentation = FALSE
    CallFaults = {"socket", "connect", "send", "recv", "close"}
    IoFaults = {"load", "fseeko", "fwrite", "fclose"}
SPECIFICATION Spec
INVARIANTS ClientTypeOK OneSocket
PROPERTIES MapIsTrue RightBlocksStay AsksForMissing
CHECK_DEADLOCK FALSE
