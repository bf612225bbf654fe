SPECIFICATION LossSpec
CONSTANTS
    a1 = a1
    a2 = a2
    srv = srv
    n1 = n1
    n2 = n2
    fa = fa
    fb = fb
    Machines = {n1}
    Servers = {srv}
    Admins = {}
    AdminOps <- NodeOps
    FileSets <- MCFileSets
    LocalSets <- MCLocalSets
    DriftSets <- MCDriftSets
    Refused <- MCRefused
    Stray <- MCStray
    Torn = "torn"
    NoHash = "cut"
    MaxVersion = 1
    Retain = 1
    MaxClock = 0
    Faults = {"crash", "flush"}
    MaxFaults = 2
    Compat = FALSE
    AutoMigrate = TRUE
INVARIANTS PublishedIsWhole
CHECK_DEADLOCK FALSE
