\* PagingLRU: NoFrameAliasing, which __alloc's unlocked swap loop racing
\* pg_getpage violates.
CONSTANTS
    p1 = p1
    p2 = p2
    Procs <- MCProcs
    NoProc = NoProc
    NumRamFrames = 2
    NumSwpFrames = 2
    MaxMmswp = 1
    NumPages = 3
    MaxReq = 2
    PAGESZ = 2
    PteFieldValues <- MCPteFieldZero
SPECIFICATION Spec
SYMMETRY Symmetry
INVARIANT NoFrameAliasing
\* A process stops when its program ends, and a fault stops the simulator.
CHECK_DEADLOCK FALSE
