SPECIFICATION Spec
CONSTANTS
    Requests = {r1, r2}
    Sweepers = {}
    Pools = {p1}
    FirstPools = {p1}
    NShards = 2
    MaxSize = 2
    ConcurrencyLimits = {0, 1}
    BudgetLimits = {0, 1}
    None = None
SYMMETRY Interchangeable
INVARIANTS
    TypeOK
    Accounting
    SocketsBounded
    ResponsesAreReadWhole
