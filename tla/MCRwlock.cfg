SPECIFICATION LinkedFairSpec
CONSTANTS
    Threads = {t1, t2, t3}
    Null = Null
    Schedules = {TRUE, FALSE}
    EventDepth = 2
    MaxReads = 2
    MaxCalls = 4
    Memory = {TRUE, FALSE}
INVARIANTS ReadersXorWriter QueuesAreWaiters UnlockChoiceStays NoLostRwWakeup ListsLinked
PROPERTIES EveryCallReturns
CHECK_DEADLOCK FALSE
