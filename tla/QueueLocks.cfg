CONSTANTS
    Threads = {t1, t2, t3}
    NULL = NULL
    Self = Self
SPECIFICATION FairSpec
INVARIANTS
    FirstInLineOnly
    NodesLive
PROPERTIES
    EveryoneEnters
