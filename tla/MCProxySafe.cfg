CONSTANTS
    Peers = {p1, p2, p3}
    NoPeer = NoPeer
    IdMod = 2
    ExecuteCount = 5
    FifoMax = 2
    Pipelining = FALSE
    EarlyData = TRUE
SYMMETRY Symmetry
SPECIFICATION Spec
INVARIANTS
    TypeOK
    FreedPeerUnreachable
    WaitersConsistent
    StatusHasHandles
    PairingMutual
    NoStrandedPackets
PROPERTIES
    TunnelAnswerAfterConnect
    PairClosesTogether
    ImplementsRelay
CHECK_DEADLOCK FALSE
