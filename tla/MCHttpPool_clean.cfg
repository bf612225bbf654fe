SPECIFICATION Spec
CONSTANTS
    Requests = {r1}
    Sweepers = {}
    Pools = {p1, p2}
    FirstPools = {p1}
    NShards = 1
    MaxSize = 1
    ConcurrencyLimits = {0}
    BudgetLimits = {1}
    None = None
CHECK_DEADLOCK FALSE
INVARIANTS
    ReusedConnectionsAreClean
