SPECIFICATION Spec
CONSTANTS
    a1 = a1
    a2 = a2
    srv = srv
    n1 = n1
    n2 = n2
    fa = fa
    fb = fb
    Machines = {}
    Servers = {srv}
    Admins = {a1, a2}
    AdminOps <- StoreOps
    FileSets = {fa, fb}
    LocalSets = {}
    DriftSets <- MCDriftSets
    Refused <- MCRefused
    Stray <- MCStray
    Torn = "torn"
    NoHash = "cut"
    MaxVersion = 3
    Retain = 2
    MaxClock = 1
    Faults = {"abort", "snapshot"}
    MaxFaults = 1
    Compat = FALSE
    AutoMigrate = TRUE
INVARIANTS TypeOK AnswersAreTrue NewestAreRetained
PROPERTIES IsRegister
SYMMETRY StoreSymmetry
CHECK_DEADLOCK FALSE
