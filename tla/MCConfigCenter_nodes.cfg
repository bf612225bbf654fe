SPECIFICATION FairSpec
CONSTANTS
    a1 = a1
    a2 = a2
    srv = srv
    n1 = n1
    n2 = n2
    fa = fa
    fb = fb
    Machines = {n1}
    Servers = {srv}
    Admins = {a1}
    AdminOps <- NodeOps
    FileSets <- MCFileSets
    LocalSets <- MCLocalSets
    DriftSets <- MCDriftSets
    Refused <- MCRefused
    Stray <- MCStray
    Torn = "torn"
    NoHash = "cut"
    MaxVersion = 2
    Retain = 1
    MaxClock = 0
    Faults = {"abort", "snapshot", "crash", "write", "full", "error", "drift"}
    MaxFaults = 1
    Compat = FALSE
    AutoMigrate = TRUE
INVARIANTS StateIsTrue AnswersAreTrue
PROPERTIES NodesConverge RefreshesAreAnswered
CHECK_DEADLOCK FALSE
