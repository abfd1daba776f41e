SPECIFICATION FairSpec
CONSTANTS
    Threads = {t1, t2, t3}
    StaticTcs = {s1}
    DynamicTcs = {d1}
    UtilityTcs = u
    None = None
    MinPool = 1
    Modes = {TRUE, FALSE}
    Schedules = {TRUE, FALSE}
    MaxNest = 2
    MaxEvents = 1
    EventDepth = 2
INVARIANTS TcsExclusive TcsAccounted
PROPERTIES WaiterGoesOn PoolRefilled
CHECK_DEADLOCK FALSE
