CONSTANTS
    Peers = {p1, p2, p3}
    NoPeer = NoPeer
    IdMod = 1
    ExecuteCount = 1
    FifoMax = 1
    Pipelining = FALSE
    EarlyData = FALSE
SPECIFICATION FairSpec
PROPERTIES
    ConnectResolves
    DnsWaitEnds
    ClosedClientFreed
    SuccessDealtWith
CHECK_DEADLOCK FALSE
