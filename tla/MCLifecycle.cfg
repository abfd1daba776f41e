SPECIFICATION FairSpec
CONSTANTS
    Threads = {a, d, p}
    Pthreads = {p}
    Destroyers = {a, d}
    Edmm = {TRUE, FALSE}
    Schedules = {TRUE, FALSE}
    Careful = TRUE
    MaxDepth = 2
    MaxWork = 3
    None = None
INVARIANTS NobodyInDestroyed NoUseAfterDelete DeletedOnce
PROPERTIES DestroyWakesWaiters DestroyEnds
CHECK_DEADLOCK FALSE
