\* LRU list safety of demand paging with two processes, their unlocked
\* __alloc loops, the locked calls and teardown interleaved.
CONSTANTS
    p1 = p1
    p2 = p2
    Procs <- MCProcs
    NoProc = NoProc
    NumRamFrames = 2
    NumSwpFrames = 2
    MaxMmswp = 1
    NumPages = 2
    MaxReq = 2
    PAGESZ = 2
    PteFieldValues <- MCPteFieldZero
SPECIFICATION SpecExit
SYMMETRY Symmetry
INVARIANT TypeOK LruFramesUnique MemLockHeldInGetPage
\* A process stops when its program ends, and a fault stops the simulator.
CHECK_DEADLOCK FALSE
