CONSTANTS
    MainThread = m
    Workers = {w1}
    TimerThread = timer
    MainFiber = main
    Blocks = {b1}
    NULL = NULL
    GIGA_CONSTANT = 2
    LastSecond = 1
SPECIFICATION TimerFairSpec
PROPERTIES
    SleepReturns
