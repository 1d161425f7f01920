-------------------------------- MODULE Sched --------------------------------
(***************************************************************************)
(* The ready queue of src/src/queue.c and the instruction step run() of    *)
(* src/src/cpu.c, driven by the CPU loop of the OS.                        *)
(*                                                                         *)
(* The queue is an array proc[0 .. MAX_QUEUE_SIZE-1] and a size: enqueue  *)
(* writes at proc[size], and exits the whole simulator when the array is  *)
(* full; dequeue returns proc[0] and shifts the rest down one place.      *)
(*                                                                         *)
(* The loader and the CPU loop (os.c, the scheduler) are not under src/;  *)
(* they are modelled from the specification's scheduling model: the       *)
(* loader puts each process on the ready queue once; a CPU takes a         *)
(* process from the queue, lets it execute one instruction per time slot  *)
(* for a quantum of TimeSlot slots, and then puts it back, or releases it  *)
(* once its program counter has reached the end of its code.  Each queue  *)
(* operation is one step, the scheduler serialising access to the queue.  *)
(* The effect of an instruction on memory is the subject of VM, Paging     *)
(* and PagingLRU; here only the program counter it advances is kept.      *)
(***************************************************************************)
EXTENDS Naturals, FiniteSets

CONSTANTS
    Procs,          \* the processes (PCBs)
    Cpus,           \* the CPUs
    NULL,           \* no process
    MAX_QUEUE_SIZE, \* capacity of queue_t's proc array
    CodeSize,       \* CodeSize[p]: proc->code->size, instructions of p's program
    TimeSlot        \* instructions a process executes before it is put back

ASSUME /\ NULL \notin Procs
       /\ MAX_QUEUE_SIZE \in Nat \ {0}
       /\ CodeSize \in [Procs -> Nat]
       /\ TimeSlot \in Nat \ {0}

Slots == 0 .. MAX_QUEUE_SIZE - 1

VARIABLES
    proc,       \* q->proc, the array of queued PCBs
    size,       \* q->size
    pc,         \* pc[p]: proc->pc
    running,    \* running[c]: the process CPU c executes, or NULL
    timeLeft,   \* timeLeft[c]: slots left in the quantum of CPU c
    loaded,     \* processes the loader has put on the queue
    halted      \* enqueue found the queue full and called exit(1)

vars == <<proc, size, pc, running, timeLeft, loaded, halted>>

\* empty(q): q is never NULL here.
Empty == size = 0

\* Mutant: the capacity test is off by one.
EnqueueFullEarly(p) ==
    IF size < MAX_QUEUE_SIZE - 1
    THEN /\ proc' = [proc EXCEPT ![size] = p]
         /\ size' = size + 1
         /\ UNCHANGED halted
    ELSE /\ halted' = TRUE
         /\ UNCHANGED <<proc, size>>

\* enqueue(q, p): store at proc[size] when there is room, else exit(1).
Enqueue(p) ==
    IF size < MAX_QUEUE_SIZE
    THEN /\ proc' = [proc EXCEPT ![size] = p]
         /\ size' = size + 1
         /\ UNCHANGED halted
    ELSE /\ halted' = TRUE
         /\ UNCHANGED <<proc, size>>

\* Mutant: the loop stops one place early and leaves the last entry where
\* it was.
ShiftedShort == [i \in Slots |-> IF i < size - 2 THEN proc[i + 1] ELSE proc[i]]

\* The shift loop of dequeue: proc[i] = proc[i + 1] for i < size - 1.
Shifted == [i \in Slots |-> IF i < size - 1 THEN proc[i + 1] ELSE proc[i]]

\* Mutant: the empty check is dropped.
DequeuedNoCheck == [front |-> proc[0], proc |-> Shifted, size |-> size - 1]

\* Mutant: the newest entry is taken instead of the oldest.
DequeuedLast ==
    IF Empty THEN [front |-> NULL, proc |-> proc, size |-> size]
    ELSE [front |-> proc[size - 1], proc |-> proc, size |-> size - 1]

\* dequeue(q): NULL when empty; otherwise proc[0], the rest shifted down.
Dequeued ==
    IF Empty THEN [front |-> NULL, proc |-> proc, size |-> size]
    ELSE [front |-> proc[0], proc |-> Shifted, size |-> size - 1]

\* Mutant: the end-of-code test is off by one.
RunEarlyEnd(p) == IF pc[p] >= CodeSize[p] - 1 THEN pc[p] ELSE pc[p] + 1

\* run(proc): return 1 at the end of the code, otherwise fetch the
\* instruction and advance pc before dispatching it.
Run(p) == IF pc[p] >= CodeSize[p] THEN pc[p] ELSE pc[p] + 1

Done(p) == pc[p] >= CodeSize[p]

\* The loader puts a new process on the ready queue.
Load(p) ==
    /\ ~halted
    /\ p \notin loaded
    /\ loaded' = loaded \cup {p}
    /\ Enqueue(p)
    /\ UNCHANGED <<pc, running, timeLeft>>

\* An idle CPU asks the queue for a process; it stays idle on NULL.
Dispatch(c) ==
    LET d == Dequeued IN
    /\ ~halted
    /\ running[c] = NULL
    /\ proc' = d.proc
    /\ size' = d.size
    /\ running' = [running EXCEPT ![c] = d.front]
    /\ timeLeft' = [timeLeft EXCEPT ![c] = TimeSlot]
    /\ UNCHANGED <<pc, loaded, halted>>

\* The CPU's process executes one instruction in this slot.
Execute(c) ==
    LET p == running[c] IN
    /\ ~halted
    /\ p # NULL
    /\ ~Done(p)
    /\ timeLeft[c] > 0
    /\ pc' = [pc EXCEPT ![p] = Run(p)]
    /\ timeLeft' = [timeLeft EXCEPT ![c] = @ - 1]
    /\ UNCHANGED <<proc, size, running, loaded, halted>>

\* The process has run to the end of its code: the CPU releases it.
Finish(c) ==
    LET p == running[c] IN
    /\ ~halted
    /\ p # NULL
    /\ Done(p)
    /\ running' = [running EXCEPT ![c] = NULL]
    /\ UNCHANGED <<proc, size, pc, timeLeft, loaded, halted>>

\* The quantum is used up: the process goes back on the ready queue.
Preempt(c) ==
    LET p == running[c] IN
    /\ ~halted
    /\ p # NULL
    /\ ~Done(p)
    /\ timeLeft[c] = 0
    /\ Enqueue(p)
    /\ running' = [running EXCEPT ![c] = NULL]
    /\ UNCHANGED <<pc, timeLeft, loaded>>

Init ==
    /\ proc = [i \in Slots |-> NULL]
    /\ size = 0
    /\ pc = [p \in Procs |-> 0]
    /\ running = [c \in Cpus |-> NULL]
    /\ timeLeft = [c \in Cpus |-> 0]
    /\ loaded = {}
    /\ halted = FALSE

CpuStep(c) == Dispatch(c) \/ Execute(c) \/ Finish(c) \/ Preempt(c)

Next ==
    \/ \E p \in Procs : Load(p)
    \/ \E c \in Cpus : CpuStep(c)

(***************************************************************************)
(* Fairness.  Each CPU is a thread that loops for ever, one step per time  *)
(* slot, and the loader goes through its whole list of processes; a step  *)
(* that stays possible is eventually taken.                                *)
(***************************************************************************)
Fairness ==
    /\ \A p \in Procs : WF_vars(Load(p))
    /\ \A c \in Cpus : WF_vars(CpuStep(c))

Spec == Init /\ [][Next]_vars

FairSpec == Spec /\ Fairness
-----------------------------------------------------------------------------
TypeOK ==
    /\ proc \in [Slots -> Procs \cup {NULL}]
    /\ size \in 0 .. MAX_QUEUE_SIZE
    /\ \A p \in Procs : pc[p] \in 0 .. CodeSize[p]
    /\ running \in [Cpus -> Procs \cup {NULL}]
    /\ timeLeft \in [Cpus -> 0 .. TimeSlot]
    /\ loaded \subseteq Procs
    /\ halted \in BOOLEAN

\* The queued processes, front first.
Queued == [i \in 1 .. size |-> proc[i - 1]]

\* The places that hold p: queue entries and CPUs.
Holders(p) ==
    Cardinality({i \in 0 .. size - 1 : proc[i] = p})
      + Cardinality({c \in Cpus : running[c] = p})

\* Every loaded process that has not finished is held by exactly one place
\* (one entry of the queue array below size, or one CPU), and no process is
\* ever held twice: dequeue's shift loop and the CPU loop's re-enqueue must
\* neither drop nor duplicate a PCB.  (After exit(1) nothing runs.)
PlacedOnce ==
    ~halted =>
    \A p \in Procs :
        /\ Holders(p) <= 1
        /\ (p \in loaded /\ ~Done(p)) => Holders(p) = 1

\* enqueue never finds the array full, so the simulator is never ended by
\* exit(1) in enqueue, when there are no more processes than slots.
NoQueueOverflow == ~halted

\* The array and size of queue.c implement a FIFO queue of capacity
\* MAX_QUEUE_SIZE: dequeue returns the oldest entry and removes exactly it.
Fifo == INSTANCE FifoQueue WITH
            Items <- Procs, Capacity <- MAX_QUEUE_SIZE, queue <- Queued
FifoSpec == Fifo!Spec

\* Every program runs to the end of its code: the CPUs keep taking
\* processes from the queue, and run() advances pc until it reaches
\* proc->code->size.
AllFinish == <>(\A p \in Procs : Done(p))
=============================================================================
