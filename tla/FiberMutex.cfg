CONSTANTS
    MainThread = m
    Workers = {w1}
    TimerThread = timer
    MainFiber = main
    Blocks = {b1, b2}
    NULL = NULL
SPECIFICATION MutexFairSpec
INVARIANTS
    HoldIsOwned
    FreedUnused
PROPERTIES
    SchedulerSpec
    LockReturns
    FifoSpec
