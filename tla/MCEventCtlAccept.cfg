CONSTANTS
    Nodes = {n1, n2}
    NoNode = NoNode
    Fetch = Fetch
    Fds <- MCFds
    ListenFd = 1
    Delays <- MCDelays
    Horizon = 0
SPECIFICATION SpecAccept
PROPERTIES
    AcceptErrorCancels
CHECK_DEADLOCK FALSE
