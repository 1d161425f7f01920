\* SwapSlotsValid checked against the FIFO paging code (expected violated).
CONSTANTS
    p1 = p1
    p2 = p2
    v0 = v0
    v1 = v1
    Procs <- MCProcs
    Values <- MCValues
    Zero = v0
    NoProc = NoProc
    NumRamFrames = 2
    NumSwpFrames = 3
    MaxMmswp = 2
    NumPages = 3
    MaxReq = 2
    PAGESZ = 2
    PteFieldValues <- MCPteFieldValues
SPECIFICATION Spec
SYMMETRY Symmetry
INVARIANT SwapSlotsValid
\* A process stops when its program ends, and a leaked MEM_in_use stops all.
CHECK_DEADLOCK FALSE
