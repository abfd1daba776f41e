SPECIFICATION PthreadSpec
CONSTANTS
    c1 = c1
    c2 = c2
    c3 = c3
    r1 = r1
    Creators = {c1, c2, c3}
    Runners = {r1}
    Threads = {c1, c2, c3, r1}
    Schedules = {FALSE}
    EventDepth = 3
    Descriptors = {1, 2}
    CreateFails = {"OUT_OF_TCS", "UNEXPECTED"}
    None = None
INVARIANTS TaskForEveryRunner CreateTellsTruth NoUseAfterFree EventUsable
PROPERTIES EveryPthreadCallReturns
CHECK_DEADLOCK FALSE
