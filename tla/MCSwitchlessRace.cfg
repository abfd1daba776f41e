SPECIFICATION Spec
CONSTANTS
    UWorkers = {u1, u2}
    TWorkers = {t1, t2}
    CreateFails = FALSE
    ConcurrentEcalls = TRUE
    Builds = {FALSE}
    Signals = {FALSE}
SYMMETRY Symmetry
INVARIANT WorkAfterFirstEcall
CHECK_DEADLOCK FALSE
