CONSTANTS
    Peers = {p1, p2, p3, p4}
    NoPeer = NoPeer
    IdMod = 4
    ExecuteCount = 5
    FifoMax = 1
    Pipelining = FALSE
    EarlyData = FALSE
SPECIFICATION Spec
INVARIANTS
    WaiterCanBeFound
CHECK_DEADLOCK FALSE
