CONSTANTS
    Peers = {p1, p2}
    NoPeer = NoPeer
    IdMod = 2
    ExecuteCount = 5
    FifoMax = 1
    Pipelining = FALSE
    EarlyData = FALSE
SPECIFICATION FairSpec
PROPERTIES
    EndedPeerReleased
CHECK_DEADLOCK FALSE
