SPECIFICATION CondFairSpec
CONSTANTS
    Threads = {t1, t2, t3}
    Null = Null
    Schedules = {TRUE, FALSE}
    EventDepth = 2
    Kinds = {"nonrecursive", "recursive"}
    MaxHold = 2
INVARIANTS MutualExclusion LinkedOnce WakeupsExact
PROPERTIES ImplementsContract WaitReturnsLocked EventuallyLocked SignalledReturns
ACTION_CONSTRAINT RecursiveWaitsArePrompt
CHECK_DEADLOCK FALSE
