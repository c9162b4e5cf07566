CONSTANTS
    Peers = {p1, p2}
    NoPeer = NoPeer
    IdMod = 2
    ExecuteCount = 5
    FifoMax = 1
    Pipelining = FALSE
    EarlyData = TRUE
SPECIFICATION Spec
INVARIANTS
    NoEcho
CHECK_DEADLOCK FALSE
