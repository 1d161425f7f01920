\* Every program finishes, checked against run() and FIFO paging (expected
\* violated: a leaked MEM_in_use blocks every CPU).
CONSTANTS
    p1 = p1
    p2 = p2
    c1 = c1
    c2 = c2
    v0 = v0
    v1 = v1
    NULL = NULL
    NoProc = NoProc
    Procs <- MCProcs
    Cpus <- MCCpus
    Values <- MCValues
    Zero = v0
    Text <- MCText
    MAX_QUEUE_SIZE = 2
    TimeSlot = 1
    NumRamFrames = 2
    NumSwpFrames = 2
    MaxMmswp = 1
    NumPages = 3
    MaxReq = 2
    PAGESZ = 2
    PteFieldValues <- MCPteFieldValues
SPECIFICATION FairSpec
PROPERTY ProgramsFinish
\* Once every program has finished the CPUs have nothing left to run.
CHECK_DEADLOCK FALSE
