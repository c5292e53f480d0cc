CONSTANTS
    MainThread = m
    Workers = {w1, w2}
    TimerThread = timer
    MainFiber = main
    Blocks = {b1, b2, b3}
    NULL = NULL
SPECIFICATION Spec
SYMMETRY Interchangeable
INVARIANTS
    TypeOK
    WorkConserving
    OneOwner
    SavedBeforePublished
    SleeperAccounted
