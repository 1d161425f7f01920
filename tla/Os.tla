--------------------------------- MODULE Os ---------------------------------
(***************************************************************************)
(* The CPUs running programs whose instructions reach the paging system:   *)
(* the composition of the ready queue and CPU loop (Sched) with FIFO       *)
(* demand paging (Paging) through the opcode switch of run() in            *)
(* src/src/cpu.c (build with MM_PAGING).                                   *)
(*                                                                         *)
(* Each process p has a program Text[p].  A CPU that holds p executes, in  *)
(* one time slot, the instruction at proc->pc: run() advances pc and calls *)
(* pgalloc, pgread or pgwrite.  Those take MEM_in_use inside vm_map_ram    *)
(* and pg_getpage, so a CPU whose instruction needs the lock waits while   *)
(* another holds it.  A READ or WRITE finishes, on the same CPU, with the *)
(* device access after pg_getpage's unlock; only then is the process put  *)
(* back or released.  A released process's memory is torn down by         *)
(* free_pcb_memph.                                                         *)
(*                                                                         *)
(* The programs use CALC, ALLOC, READ and WRITE.  As in Paging, an ALLOC   *)
(* is the growth of the data VMA by arg pages and a READ or WRITE names    *)
(* the page it touches; one past the mapped pages, __alloc's OOM check or *)
(* __read/__write's region check fails without touching paging state.     *)
(* MALLOC (the heap VMA) and FREE (whose zeroing pg_setval calls Paging   *)
(* does not model) are left out of the programs.                           *)
(***************************************************************************)
EXTENDS Naturals, Sequences

CONSTANTS
    Procs, Cpus, NULL, MAX_QUEUE_SIZE, TimeSlot,            \* as in Sched
    NoProc, NumRamFrames, NumSwpFrames, MaxMmswp, NumPages, \* as in Paging
    MaxReq, PAGESZ, Values, Zero, PteFieldValues,
    Text            \* Text[p]: proc->code->text, p's instructions in order

Instr == [op : {"CALC"}] \cup [op : {"ALLOC", "READ"}, arg : Nat]
           \cup [op : {"WRITE"}, arg : Nat, val : Values]

ASSUME Text \in [Procs -> Seq(Instr)]

VARIABLES
    proc, size, pc, running, timeLeft, loaded, halted,      \* Sched
    ram, ramFree, swp, swpFree, active, pgd, fifo, brk,     \* Paging
    memLock, exited,
    access      \* access[p]: Paging's pc, p's device access after pg_getpage

svars == <<proc, size, pc, running, timeLeft, loaded, halted>>
pvars == <<ram, ramFree, swp, swpFree, active, pgd, fifo, brk, memLock,
           exited, access>>
vars == <<svars, pvars>>

S == INSTANCE Sched WITH CodeSize <- [p \in Procs |-> Len(Text[p])]
P == INSTANCE Paging WITH pc <- access

\* The loader puts a process on the ready queue.
Load(p) == S!Load(p) /\ UNCHANGED pvars

\* An idle CPU takes the process at the front of the ready queue.
Dispatch(c) == S!Dispatch(c) /\ UNCHANGED pvars

\* The switch of run() on the fetched instruction: CALC changes nothing;
\* ALLOC is pgalloc, READ pgread and WRITE pgwrite, up to the return of
\* pg_getpage; their checks fail, untouched, past the mapped pages.
Syscall(p, ins) ==
    \/ ins.op = "CALC" /\ UNCHANGED pvars
    \/ ins.op = "ALLOC" /\ P!MapPages(p, ins.arg)
    \/ ins.op = "ALLOC" /\ brk[p] + ins.arg > NumPages /\ UNCHANGED pvars
    \/ ins.op = "READ" /\ P!Read(p, ins.arg)
    \/ ins.op = "WRITE" /\ P!Write(p, ins.arg, ins.val)
    \/ ins.op \in {"READ", "WRITE"} /\ ins.arg >= brk[p] /\ UNCHANGED pvars

\* run(): in the CPU's time slot the instruction at proc->pc is fetched,
\* pc advances and the instruction is dispatched.  The CPU is blocked
\* while the instruction's lock is held elsewhere.
Execute(c) ==
    LET p == running[c] IN
    /\ p # NULL
    /\ access[p] = P!Idle
    /\ S!Execute(c)
    /\ Syscall(p, Text[p][pc[p] + 1])

\* The READ or WRITE of the CPU's process completes its device access.
Complete(c) ==
    LET p == running[c] IN
    /\ p # NULL
    /\ P!SetVal(p) \/ P!GetVal(p)
    /\ UNCHANGED svars

\* The process has run to the end of its code: the CPU releases it and
\* free_pcb_memph returns its frames.
Finish(c) == S!Finish(c) /\ P!Exit(running[c])

\* The quantum is used up between two instructions: back on the queue.
Preempt(c) ==
    /\ running[c] # NULL
    /\ access[running[c]] = P!Idle
    /\ S!Preempt(c)
    /\ UNCHANGED pvars

Init == S!Init /\ P!Init

CpuStep(c) == Dispatch(c) \/ Execute(c) \/ Complete(c) \/ Finish(c) \/ Preempt(c)

Next ==
    \/ \E p \in Procs : Load(p)
    \/ \E c \in Cpus : CpuStep(c)

\* Each CPU is a thread that keeps running; the loader loads every process.
Fairness ==
    /\ \A p \in Procs : WF_vars(Load(p))
    /\ \A c \in Cpus : WF_vars(CpuStep(c))

Spec == Init /\ [][Next]_vars

FairSpec == Spec /\ Fairness
-----------------------------------------------------------------------------
\* Every program runs to its end: a CPU whose instruction needs MEM_in_use
\* waits only while another CPU is inside vm_map_ram or pg_getpage, and
\* each of those releases the lock when it returns.
ProgramsFinish == <>(\A p \in Procs : S!Done(p))
=============================================================================
