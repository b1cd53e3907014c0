SPECIFICATION Spec
CONSTANTS
    Processes = 4
    STALE_AFTER_S = 1
    LookupRounds = 2
    Scenarios <- Everything
    ACTIVE_WINDOW_S = 0
    CENSUS_TTL_S = 0
    N_CLASSES = 2
    CLASSES_PER_NODE = 1
CHECK_DEADLOCK FALSE
INVARIANTS
    TypeOK
    ReportsThisRun
    HeardIsActive
    Reunited
    PagesAreComplete
    LiveExpertsAreHeard
    BridgedShareSpace
