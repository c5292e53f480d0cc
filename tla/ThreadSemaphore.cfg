CONSTANTS
    Callers = {t1, t2, t3, t4}
    MaxCount = 3
SPECIFICATION SemaphoreSpec
INVARIANTS
    UnitsClaimed
