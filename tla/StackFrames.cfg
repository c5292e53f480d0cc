CONSTANTS
    NBlocks = 4
    NWorkers = 1
SPECIFICATION Spec
INVARIANTS
    FramesKept
    StructsIntact
    BlockFound
CHECK_DEADLOCK FALSE
