SPECIFICATION FairSpec
CONSTANTS
    Threads = {t1, t2, t3}
    Null = Null
    Schedules = {FALSE}
    EventDepth = 3
    Kinds = {"nonrecursive"}
    MaxHold = 1
INVARIANT NoWakeupEverLost
SYMMETRY Symmetry
