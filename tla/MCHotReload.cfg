SPECIFICATION FairSpec
CONSTANTS
    Sessions = {s1}
    Threads = {t1, t2}
    MaxEdits = 2
    MaxFaults = 2
    None = None
CHECK_DEADLOCK FALSE
INVARIANTS
    TypeOK
    RulesNotOlderThanRoutes
    OneConfigurationIsLive
    GenerationIdentifiesRules
PROPERTIES
    ChangesGoLive
