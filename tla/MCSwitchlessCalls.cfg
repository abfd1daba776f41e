SPECIFICATION CallsFairSpec
CONSTANTS
    Callers = {c1, c2}
    Workers = {w1, w2}
    NWords = 2
    NBits = 2
    MaxTries = 2
    Types = {"OCALL", "ECALL"}
    CanCrash = TRUE
    Unlisted = {c2}
    Busy = {0, 3}
    None = None
INVARIANTS LinesExclusive TasksAccounted ExactlyOnce
PROPERTIES EveryCallEnds
CHECK_DEADLOCK FALSE
