\* PagingLRU: SwapSlotsValid, which the LRU code violates.
CONSTANTS
    p1 = p1
    p2 = p2
    Procs <- MCProcs
    NoProc = NoProc
    NumRamFrames = 2
    NumSwpFrames = 2
    MaxMmswp = 2
    NumPages = 2
    MaxReq = 2
    PAGESZ = 2
    PteFieldValues <- MCPteFieldValues
SPECIFICATION Spec
SYMMETRY Symmetry
INVARIANT SwapSlotsValid
\* A process stops when its program ends, and a fault stops the simulator.
CHECK_DEADLOCK FALSE
