SPECIFICATION FairSpec
CONSTANTS
    Requests = {r1}
    Sweepers = {stats}
    Pools = {p1, p2}
    FirstPools = {p1}
    NShards = 1
    MaxSize = 1
    ConcurrencyLimits = {1}
    BudgetLimits = {0, 1}
    None = None
INVARIANTS
    Accounting
    NoUseAfterDestroy
PROPERTIES
    RetiredPoolsVanish
