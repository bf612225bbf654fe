SPECIFICATION SlowSpec
CONSTANTS
    s1 = s1
    s2 = s2
    q1 = q1
    q2 = q2
    Sessions = {s1}
    Queries = {q1}
    MaxInFlight = 1
    IoThreads = 2
    ClientLimits = {1}
CHECK_DEADLOCK FALSE
PROPERTY DeadlineIsKept
