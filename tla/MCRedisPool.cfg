SPECIFICATION FairSpec
CONSTANTS
    r1 = r1
    r2 = r2
    r3 = r3
    Requests = {r1, r2}
    ReadOnly = {r1}
    MinSize = 1
    MaxSize = 1
    MaxCreating = 1
    MaxCheck = 1
    IoThreads = 2
    SizeMax = 4
    MaxFaults = 2
CHECK_DEADLOCK FALSE
INVARIANTS
    TypeOK
    Accounting
    CleanStop
    WritesAtMostOnce
PROPERTIES
    CommandsReturn
