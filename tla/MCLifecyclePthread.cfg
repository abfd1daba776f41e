SPECIFICATION Spec
CONSTANTS
    Threads = {a, d, p}
    Pthreads = {p}
    Destroyers = {d}
    Edmm = {FALSE}
    Schedules = {TRUE}
    Careful = FALSE
    MaxDepth = 2
    MaxWork = 3
    None = None
INVARIANT NoUseAfterDelete
CHECK_DEADLOCK FALSE
