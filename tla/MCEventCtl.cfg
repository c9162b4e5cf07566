CONSTANTS
    Nodes = {n1, n2, n3, n4}
    NoNode = NoNode
    Fds <- MCFds
    ListenFd = 1
    Delays <- MCDelays
    Horizon = 1
SYMMETRY Symmetry
SPECIFICATION Spec
INVARIANTS
    TypeOK
    NodeInOnePlace
    TimerfdArmedForEarliest
    LookupFindsHandle
    EpollNodesLive
PROPERTIES
    ImplementsApi
CHECK_DEADLOCK FALSE
