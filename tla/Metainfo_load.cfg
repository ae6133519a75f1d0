CONSTANTS
    MaxBlockSize = 2
    Width = 4
    PeerCount = 2
    MaxPeers = 2
    NameSize = 3
    Contents <- MoreBytes
    OtherTexts <- PlainAndEdited
SPECIFICATION Spec
INVARIANTS BlocksTile SharedLoads CutIsNoticed ReadsTheText
PROPERTY SharedStays
CHECK_DEADLOCK FALSE
