SPECIFICATION FairSpec
CONSTANTS
    s1 = s1
    s2 = s2
    q1 = q1
    q2 = q2
    Sessions = {s1, s2}
    Queries = {q1, q2}
    MaxInFlight = 2
    IoThreads = 2
    ClientLimits = {1, 2}
CHECK_DEADLOCK FALSE
INVARIANTS
    TypeOK
    DrainedMeansGone
    PermitsMatchQueries
    StopReachesReaders
    CleanBeforeReuse
    PoolsOutliveQueries
PROPERTIES
    StopTerminates
