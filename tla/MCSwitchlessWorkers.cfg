SPECIFICATION FairSpec
CONSTANTS
    UWorkers = {u1, u2}
    TWorkers = {t1, t2}
    CreateFails = TRUE
    ConcurrentEcalls = FALSE
    Builds = {TRUE, FALSE}
    Signals = {TRUE, FALSE}
INVARIANTS CountersAgree FreedWithoutThreads WorkAfterFirstEcall
PROPERTIES StopEnds
CHECK_DEADLOCK FALSE
