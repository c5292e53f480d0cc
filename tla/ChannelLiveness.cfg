CONSTANTS
    MainThread = m
    Workers = {w1}
    TimerThread = timer
    MainFiber = main
    Blocks = {b1}
    NULL = NULL
SPECIFICATION ChannelFairSpec
PROPERTIES
    DecidedReturns
CHECK_DEADLOCK FALSE
