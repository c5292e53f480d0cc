CONSTANTS
    MainThread = m
    Workers = {w1}
    TimerThread = timer
    MainFiber = main
    Blocks = {b1, b2}
    NULL = NULL
    GIGA_CONSTANT = 2
    LastSecond = 1
SPECIFICATION TimerSpec
SYMMETRY Interchangeable
INVARIANTS
    TimerTypeOK
    TreeIsList
    TimerArmed
PROPERTIES
    SchedulerSpec
    AlarmSpec
