CONSTANTS
    a1 = a1
    Clients <- MCClients
    Conns <- MCConns
    Seeders <- SecondSeeds
    Holds <- SecondHoldsAll
    Noise <- LittleNoise
    MaxNoise = 1
    BlockCount = 2
    BlockUnits = 1
    PeerCount = 2
    MaxRuns = 2
    Fragmentation = FALSE
    CallFaults = {}
    IoFaults = {}
SPECIFICATION FairSpec
INVARIANT SeederCompletes
PROPERTIES ResumesToTheEnd RunsEnd
CHECK_DEADLOCK FALSE
