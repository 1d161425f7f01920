\* Ready queue and CPU loop: the queue is a FIFO, no PCB is lost or
\* duplicated, the queue never overflows, and every program finishes.
CONSTANTS
    p1 = p1
    p2 = p2
    p3 = p3
    c1 = c1
    c2 = c2
    NULL = NULL
    Procs <- MCProcs
    Cpus <- MCCpus
    CodeSize <- MCCodeSize
    MAX_QUEUE_SIZE = 3
    TimeSlot = 1
SPECIFICATION FairSpec
INVARIANT TypeOK PlacedOnce NoQueueOverflow
PROPERTY FifoSpec AllFinish
\* Once every program has finished the CPUs have nothing left to run.
CHECK_DEADLOCK FALSE
