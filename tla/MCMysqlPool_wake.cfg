SPECIFICATION Spec
CONSTANTS
    Requests = {r1}
    Conn = {c1, c2}
    MinSize = 1
    MaxSize = 1
    MaxCreating = 1
    MaxCheck = 1
    IoThreads = 1
    SizeMax = 3
    Free = Free
    Maintain = Maintain
    NoConn = NoConn
CHECK_DEADLOCK FALSE
INVARIANTS
    ShutdownWakesMaintain
