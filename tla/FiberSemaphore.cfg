CONSTANTS
    MainThread = m
    Workers = {w1}
    TimerThread = timer
    MainFiber = main
    Blocks = {b1, b2}
    NULL = NULL
    InitialCount = 2
    Bound = 1
SPECIFICATION SemaphoreFairSpec
INVARIANTS
    WaitersNeedPermits
PROPERTIES
    SchedulerSpec
    CountingSpec
    GrantedReturns
CHECK_DEADLOCK FALSE
