CONSTANTS
    Nodes = {n1, n2, n3}
    NoNode = NoNode
    Fds <- MCOneFd
    ListenFd = 1
    Delays <- MCDelays
    Horizon = 1
SPECIFICATION FairSpec
PROPERTIES
    TimersRun
CHECK_DEADLOCK FALSE
