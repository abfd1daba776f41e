SPECIFICATION CallsFairSpec
CONSTANTS
    Callers = {c1, c2}
    Workers = {w1, w2}
    NWords = 2
    NBits = 2
    MaxTries = 2
    Types = {"ECALL"}
    CanCrash = TRUE
    Unlisted = {}
    Busy = {0}
    None = None
INVARIANT AcceptedWhenWaiting
CHECK_DEADLOCK FALSE
SYMMETRY Symmetry
