CONSTANTS
    MaxBlockSize = 2
    Width = 4
    PeerCount = 2
    MaxPeers = 2
    NameSize = 3
    Contents <- FewBytes
    OtherTexts <- PlainTexts
SPECIFICATION Spec
INVARIANT BlocksHaveSize
CHECK_DEADLOCK FALSE
