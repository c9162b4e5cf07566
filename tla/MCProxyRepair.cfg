CONSTANTS
    Peers = {p1, p2, p3}
    NoPeer = NoPeer
    IdMod = 4
    ExecuteCount = 5
    FifoMax = 1
    Pipelining = TRUE
    EarlyData = FALSE
SPECIFICATION Spec
PROPERTIES
    PairClosesTogether
CHECK_DEADLOCK FALSE
