CONSTANTS
    MainThread = m
    Workers = {w1}
    TimerThread = timer
    MainFiber = main
    Blocks = {b1, b2}
    NULL = NULL
SPECIFICATION ChannelSpec
SYMMETRY Interchangeable
INVARIANTS
    OneSided
    NobodyStranded
    FreedUnused
    PartnerAsleep
PROPERTIES
    SchedulerSpec
    RendezvousSpec
CHECK_DEADLOCK FALSE
