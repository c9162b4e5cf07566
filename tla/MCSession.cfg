CONSTANTS
    Bytes = 5
    BufferSize = 3
    ReadTimes = 2
    SendRoom = 2
    Hosts <- MCHosts
    Spelling <- MCSpelling
    Literals = {"address"}
    Resolvable = {"one", "two", "dot", "longest", "tooLong"}
    Methods = {"GET", "CONNECT"}
    Paths <- MCPaths
    AnswersMax = 2
SPECIFICATION SessionSpec
INVARIANTS
    TypeOK
    NeverAborts
    BytesInOrder
    SocketsWatched
    ReachesMeantServer
    StrandedOnlyWithReason
    CrashOnlyWithoutAddress
PROPERTIES
    ImplementsChannel
    BytesArrive
    EndNoticed
CHECK_DEADLOCK FALSE
