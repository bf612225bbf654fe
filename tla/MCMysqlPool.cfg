SPECIFICATION FairSpec
CONSTANTS
    Requests = {r1, r2}
    Conn = {c1, c2}
    MinSize = 1
    MaxSize = 1
    MaxCreating = 1
    MaxCheck = 1
    IoThreads = 2
    SizeMax = 3
    Free = Free
    Maintain = Maintain
    NoConn = NoConn
CHECK_DEADLOCK FALSE
INVARIANTS
    TypeOK
    Accounting
    Limits
    Ownership
    SocketBound
    CleanStop
PROPERTIES
    ShutdownReturns
    QueriesReturn
