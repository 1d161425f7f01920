------------------------------- MODULE Paging -------------------------------
(***************************************************************************)
(* Demand paging with the FIFO replacement policy (the build without LRU,  *)
(* with SYNC): src/src/mm.c and the FIFO half of src/src/mm-vm.c.          *)
(*                                                                         *)
(* Several processes share one RAM device (mram); each owns MaxMmswp swap  *)
(* devices (mswp) and an active one (active_mswp), a page table (pgd) and  *)
(* a FIFO queue of its resident page numbers (fifo_pgn, newest first).     *)
(* The operations that touch paging state all run holding MEM_in_use       *)
(* (vm_map_ram and pg_getpage), so each is one atomic step of one process. *)
(* pg_setval and pg_getval release MEM_in_use when pg_getpage returns and  *)
(* then access the frame it returned: a READ or WRITE is two steps, and    *)
(* pc[p] holds the page and frame in between.  A process only ever picks   *)
(* its victims from its own queue.                                         *)
(*                                                                         *)
(* A page's storage is abstracted to one value: all offsets of a page move *)
(* together between devices, so one offset stands for all of them.        *)
(* Pages are the page numbers of the data VMA (vmaid 0), mapped upward     *)
(* from 0; brk[p] is the number already mapped.                            *)
(***************************************************************************)
EXTENDS Naturals, Sequences, FiniteSets, SequencesExt, Functions

CONSTANTS
    Procs,          \* the processes
    NoProc,         \* MEM_in_use is free
    NumRamFrames,   \* frames of the shared RAM
    NumSwpFrames,   \* frames of each swap device
    MaxMmswp,       \* PAGING_MAX_MMSWP, swap devices per process
    NumPages,       \* virtual pages of the data VMA that may be mapped
    MaxReq,         \* most pages one growth maps at once
    PAGESZ,         \* PAGING_PAGESZ
    Values,         \* contents of a frame
    Zero,           \* content of freshly created storage
    PteFieldValues  \* what a PTE field read against its flag can hold

ASSUME /\ NoProc \notin Procs
       /\ NumRamFrames >= 2 /\ NumSwpFrames >= 2   \* see MemPhy!Format
       /\ MaxMmswp >= 1 /\ NumPages >= 1 /\ MaxReq >= 1
       /\ PAGESZ >= 1 /\ Zero \in Values /\ PteFieldValues \subseteq Nat

LOCAL MP == INSTANCE MemPhy

RamFrames == 0 .. NumRamFrames - 1
SwpFrames == 0 .. NumSwpFrames - 1
Devs      == 0 .. MaxMmswp - 1
Pages     == 0 .. NumPages - 1
NoDev     == -1

\* Return codes of the paging routines.
OK        == 0
Fail      == -1
OutOfSwap == -3000

VARIABLES
    ram,        \* mram->storage
    ramFree,    \* mram->free_fp_list
    swp,        \* swp[p][d]: mswp[d]->storage of process p
    swpFree,    \* swpFree[p][d]: mswp[d]->free_fp_list of process p
    active,     \* active[p]: index of active_mswp of process p
    pgd,        \* pgd[p][g]: the page table entry of page g of process p
    fifo,       \* fifo[p]: mm->fifo_pgn of process p, head = newest
    brk,        \* brk[p]: pages of the data VMA mapped so far
    memLock,    \* holder of MEM_in_use between operations
    exited,     \* processes whose free_pcb_memph has run
    pc          \* pc[p]: the access p makes after pg_getpage returned, or Idle

vars == <<ram, ramFree, swp, swpFree, active, pgd, fifo, brk, memLock,
          exited, pc>>

\* Where a process is: between operations, or in pg_setval / pg_getval
\* after pg_getpage returned frame fpn for page pgn.
Idle == [op |-> "idle"]
PC == {Idle} \cup [op : {"set"}, pgn : Pages, fpn : Nat, val : Values]
             \cup [op : {"get"}, pgn : Pages, fpn : Nat]

(***************************************************************************)
(* Page table entries.  The C entry is one 32-bit word whose FPN bits and  *)
(* swap-type/offset bits overlap; the record keeps them apart, and readers *)
(* only look at the fields its PRESENT/SWAPPED bits make meaningful.       *)
(***************************************************************************)
PTE == [pre : BOOLEAN, swp : BOOLEAN, fpn : Nat, swptyp : Nat, swpoff : Nat]

\* pgd is malloc'd and never initialised; no modelled operation reads an
\* entry before vmap_page_range has set it.
Unmapped == [pre |-> FALSE, swp |-> FALSE, fpn |-> 0, swptyp |-> 0, swpoff |-> 0]

\* pte_set_fpn
PteSetFpn(pte, fpn) == [pte EXCEPT !.pre = TRUE, !.swp = FALSE, !.fpn = fpn]

\* Mutant of pte_set_swap: the swapped entry keeps its PRESENT bit (the
\* SETBIT the source comments out as "Incorrect code??").
PteSetSwapKeepPresent(pte, typ, off) ==
    [pte EXCEPT !.pre = TRUE, !.swp = TRUE, !.swptyp = typ, !.swpoff = off]

\* pte_set_swap
PteSetSwap(pte, typ, off) ==
    [pte EXCEPT !.pre = FALSE, !.swp = TRUE, !.swptyp = typ, !.swpoff = off]

\* enlist_pgn_node: push at the head of the queue.
EnlistPgnNode(q, pgn) == << pgn >> \o q

\* find_victim_page: the tail of the queue (the page enlisted first) is the
\* victim and is unlinked; the caller has checked the queue is not empty.
\* Mutant of find_victim_page: the tail node is returned but not unlinked.
AfterFindVictimKeep(q) == q

FindVictimPage(q) == Last(q)
AfterFindVictim(q) == Front(q)

\* The swap device an eviction writes to: the active one if it has a free
\* frame, else the first device (in index order) that has one, else none.
SwapTarget(act, free) ==
    IF MP!HasFreeFp(free[act]) THEN act
    ELSE IF \E d \in Devs : MP!HasFreeFp(free[d])
         THEN CHOOSE d \in Devs : MP!HasFreeFp(free[d])
                  /\ \A e \in 0 .. d - 1 : ~MP!HasFreeFp(free[e])
         ELSE NoDev

(***************************************************************************)
(* The operations compute on the state slice of one process, a record; a  *)
(* routine's result is the set of slices it can end in (several only when *)
(* it reads outside a device).                                             *)
(***************************************************************************)
Cur(p) == [ram |-> ram, ramFree |-> ramFree, swp |-> swp[p],
           swpFree |-> swpFree[p], active |-> active[p], pgd |-> pgd[p],
           fifo |-> fifo[p], lock |-> NoProc, ret |-> OK, fpn |-> 0,
           vic |-> 0, frm |-> << >>]

Apply(p, s) ==
    /\ ram' = s.ram
    /\ ramFree' = s.ramFree
    /\ swp' = [swp EXCEPT ![p] = s.swp]
    /\ swpFree' = [swpFree EXCEPT ![p] = s.swpFree]
    /\ active' = [active EXCEPT ![p] = s.active]
    /\ pgd' = [pgd EXCEPT ![p] = s.pgd]
    /\ fifo' = [fifo EXCEPT ![p] = s.fifo]
    /\ memLock' = s.lock

\* Eviction of the caller's FIFO victim, shared by alloc_pages_range and
\* pg_getpage: the victim leaves the queue, a swap frame swpfpn is taken
\* (switching active_mswp if the active device is full), the victim frame
\* is copied there and the victim PTE is marked swapped at offset
\* unit * swpfpn.  With no free swap frame anywhere it returns -3000, the
\* victim already unlinked from the queue but still present.
Evict(s, unit) ==
    LET vicpgn == FindVictimPage(s.fifo)
        vicfpn == s.pgd[vicpgn].fpn
        dev    == SwapTarget(s.active, s.swpFree)
        s1     == [s EXCEPT !.fifo = AfterFindVictim(@), !.vic = vicfpn]
    IN  IF dev = NoDev THEN {[s1 EXCEPT !.ret = OutOfSwap]}
        ELSE LET swpfpn == MP!GetFreeFp(s.swpFree[dev]) IN
             { [s1 EXCEPT !.swpFree[dev] = MP!AfterGetFreeFp(@),
                          !.active = dev,
                          !.swp[dev] = d,
                          !.pgd[vicpgn] = PteSetSwap(@, dev, unit * swpfpn)]
               : d \in MP!SwapCpPage(s.ram, vicfpn, s.swp[dev], swpfpn) }

\* One iteration of the loop of alloc_pages_range: a free RAM frame, else
\* the frame of an evicted victim, is pushed on the frame list frm.  The
\* swap offset is recorded in bytes (swpfpn * PAGING_PAGESZ).
AllocOnePage(s) ==
    IF MP!HasFreeFp(s.ramFree)
    THEN {[s EXCEPT !.ramFree = MP!AfterGetFreeFp(@),
                    !.frm = << MP!GetFreeFp(s.ramFree) >> \o @]}
    ELSE IF s.fifo = << >> THEN {[s EXCEPT !.ret = Fail]}
    ELSE { IF e.ret = OutOfSwap THEN e ELSE [e EXCEPT !.frm = << e.vic >> \o @]
           : e \in Evict(s, PAGESZ) }

\* alloc_pages_range: k iterations, stopping at the first failure; what the
\* earlier iterations did (frames taken, victims swapped out) stays done.
RECURSIVE AllocPagesRange(_, _)
AllocPagesRange(k, S) ==
    IF k = 0 THEN S
    ELSE AllocPagesRange(k - 1,
             UNION { IF s.ret = OK THEN AllocOnePage(s) ELSE {s} : s \in S })

\* vmap_page_range for the data VMA: page pgn + j gets the frame frm[n - j]
\* and the pages are enlisted from pgn + n - 1 down to pgn.
VmapPageRange(s, pgn, n) ==
    [s EXCEPT
       !.pgd = [g \in DOMAIN s.pgd |->
                  IF g \in pgn .. pgn + n - 1
                  THEN PteSetFpn(s.pgd[g], s.frm[n - (g - pgn)])
                  ELSE s.pgd[g]],
       !.fifo = [j \in 1 .. n |-> pgn + j - 1] \o s.fifo]

\* Mutant of vm_map_ram's caller: the address-space bound is not checked.
MapPagesNoBound(p, n) ==
    /\ memLock = NoProc /\ p \notin exited /\ pc[p] = Idle
    /\ \E s \in AllocPagesRange(n, {Cur(p)}) :
         IF s.ret = OK
         THEN /\ Apply(p, VmapPageRange(s, brk[p], n))
              /\ brk' = [brk EXCEPT ![p] = @ + n]
         ELSE /\ Apply(p, s)
              /\ UNCHANGED brk
    /\ UNCHANGED <<exited, pc>>

\* vm_map_ram called by inc_vma_limit to grow the data VMA by n pages at
\* its end: alloc_pages_range, then on success vmap_page_range.  A failure
\* of either kind returns -1 and leaves the partial work in place.  The
\* bound on brk is __alloc's OOM check against vmemsz, in pages.
MapPages(p, n) ==
    /\ memLock = NoProc /\ p \notin exited /\ pc[p] = Idle
    /\ brk[p] + n <= NumPages
    /\ \E s \in AllocPagesRange(n, {Cur(p)}) :
         IF s.ret = OK
         THEN /\ Apply(p, VmapPageRange(s, brk[p], n))
              /\ brk' = [brk EXCEPT ![p] = @ + n]
         ELSE /\ Apply(p, s)
              /\ UNCHANGED brk
    /\ UNCHANGED <<exited, pc>>

\* Mutant of the swap-in tail: the local copy pte is not updated by
\* pte_set_fpn(&pte, vicfpn), so *fpn is read from the stale copy.
SwapInStaleFpn(pgn, pte, fpn, s) ==
    { [s EXCEPT !.ram = r,
                !.swpFree[pte.swptyp] = MP!PutFreeFp(@, pte.swpoff),
                !.pgd[pgn] = PteSetFpn(@, fpn),
                !.fifo = EnlistPgnNode(@, pgn),
                !.fpn = pte.fpn]
      : r \in MP!SwapCpPage(s.swp[pte.swptyp], pte.swpoff, s.ram, fpn) }

\* The swap-in tail of pg_getpage: the page is copied from its swap slot
\* (swptyp, swpoff), read as a frame number, into RAM frame fpn; swpoff is
\* pushed back on that device's free list; the PTE is set present and the
\* page enlisted.
SwapIn(pgn, pte, fpn, s) ==
    { [s EXCEPT !.ram = r,
                !.swpFree[pte.swptyp] = MP!PutFreeFp(@, pte.swpoff),
                !.pgd[pgn] = PteSetFpn(@, fpn),
                !.fifo = EnlistPgnNode(@, pgn),
                !.fpn = fpn]
      : r \in MP!SwapCpPage(s.swp[pte.swptyp], pte.swpoff, s.ram, fpn) }

\* pg_getpage (FIFO build): a present page returns its frame; otherwise a
\* free RAM frame, or the frame of an evicted victim (swap offset recorded
\* in frames), receives the page.  When the queue is empty it returns -1
\* without unlocking MEM_in_use.
PgGetPage(p, pgn) ==
    LET s   == Cur(p)
        pte == s.pgd[pgn]
    IN  IF pte.pre THEN {[s EXCEPT !.fpn = pte.fpn]}
        ELSE IF MP!HasFreeFp(s.ramFree)
        THEN SwapIn(pgn, pte, MP!GetFreeFp(s.ramFree),
                    [s EXCEPT !.ramFree = MP!AfterGetFreeFp(@)])
        ELSE IF s.fifo = << >> THEN {[s EXCEPT !.ret = Fail, !.lock = p]}
        ELSE UNION { IF e.ret = OutOfSwap THEN {e} ELSE SwapIn(pgn, pte, e.vic, e)
                     : e \in Evict(s, 1) }

\* pg_setval up to the return of pg_getpage, which releases MEM_in_use.
\* On failure pg_setval returns -1 and writes nothing (and __write
\* ignores its result).
Write(p, g, v) ==
    /\ memLock = NoProc /\ p \notin exited /\ pc[p] = Idle
    /\ g < brk[p]
    /\ \E s \in PgGetPage(p, g) :
         /\ Apply(p, s)
         /\ IF s.ret = OK
            THEN pc' = [pc EXCEPT ![p] = [op |-> "set", pgn |-> g, fpn |-> s.fpn, val |-> v]]
            ELSE UNCHANGED pc
    /\ UNCHANGED <<brk, exited>>

\* The rest of pg_setval: MEMPHY_write to the frame pg_getpage returned,
\* under the RAM device's own mutex only.
SetVal(p) ==
    /\ pc[p].op = "set"
    /\ ram' = MP!WriteFrame(ram, pc[p].fpn, pc[p].val)
    /\ pc' = [pc EXCEPT ![p] = Idle]
    /\ UNCHANGED <<ramFree, swp, swpFree, active, pgd, fifo, brk, memLock, exited>>

\* pg_getval up to the return of pg_getpage; on failure it returns -1.
Read(p, g) ==
    /\ memLock = NoProc /\ p \notin exited /\ pc[p] = Idle
    /\ g < brk[p]
    /\ \E s \in PgGetPage(p, g) :
         /\ Apply(p, s)
         /\ IF s.ret = OK
            THEN pc' = [pc EXCEPT ![p] = [op |-> "get", pgn |-> g, fpn |-> s.fpn]]
            ELSE UNCHANGED pc
    /\ UNCHANGED <<brk, exited>>

\* The rest of pg_getval: MEMPHY_read of that frame (the byte read is not
\* state).
GetVal(p) ==
    /\ pc[p].op = "get"
    /\ pc' = [pc EXCEPT ![p] = Idle]
    /\ UNCHANGED <<ram, ramFree, swp, swpFree, active, pgd, fifo, brk, memLock,
                   exited>>

\* free_pcb_memph, run when process p finishes; it takes no MEM_in_use.
\* For every page number in order, an entry without PRESENT has its FPN
\* field pushed on the RAM free list, and a present entry has its SWPOFF
\* field / PAGESZ pushed on the active swap device.  Both fields are read
\* against their flags: an unmapped entry was never initialised, and the
\* FPN bits of a swapped entry hold its swap type and offset, so each value
\* pushed is one of PteFieldValues.
Exit(p) ==
    /\ p \notin exited /\ pc[p] = Idle
    /\ \E fld \in [Pages -> PteFieldValues] :
         LET pages  == [i \in 1 .. NumPages |-> i - 1]
             toRam  == SelectSeq(pages, LAMBDA g : ~pgd[p][g].pre)
             toSwap == SelectSeq(pages, LAMBDA g : pgd[p][g].pre)
             Pushed(gs, d) == Reverse([i \in DOMAIN gs |-> fld[gs[i]] \div d])
         IN  /\ ramFree' = Pushed(toRam, 1) \o ramFree
             /\ swpFree' = [swpFree EXCEPT ![p][active[p]] = Pushed(toSwap, PAGESZ) \o @]
    /\ exited' = exited \cup {p}
    /\ UNCHANGED <<ram, swp, active, pgd, fifo, brk, memLock, pc>>

Init ==
    /\ ram = [f \in RamFrames |-> Zero]
    /\ ramFree = MP!Format(NumRamFrames)
    /\ swp = [p \in Procs |-> [d \in Devs |-> [f \in SwpFrames |-> Zero]]]
    /\ swpFree = [p \in Procs |-> [d \in Devs |-> MP!Format(NumSwpFrames)]]
    /\ active = [p \in Procs |-> 0]
    /\ pgd = [p \in Procs |-> [g \in Pages |-> Unmapped]]
    /\ fifo = [p \in Procs |-> << >>]
    /\ brk = [p \in Procs |-> 0]
    /\ memLock = NoProc
    /\ exited = {}
    /\ pc = [p \in Procs |-> Idle]

Next ==
    \E p \in Procs :
        \/ \E n \in 1 .. MaxReq : MapPages(p, n)
        \/ \E g \in Pages, v \in Values : Write(p, g, v)
        \/ \E g \in Pages : Read(p, g)
        \/ SetVal(p)
        \/ GetVal(p)

Spec == Init /\ [][Next]_vars

\* Processes may also finish and have their memory torn down.
NextExit == Next \/ \E p \in Procs : Exit(p)

SpecExit == Init /\ [][NextExit]_vars

-----------------------------------------------------------------------------
(***************************************************************************)
(* Properties                                                              *)
(***************************************************************************)
TypeOK ==
    /\ ram \in [RamFrames -> Values]
    /\ ramFree \in Seq(Nat)
    /\ swp \in [Procs -> [Devs -> [SwpFrames -> Values]]]
    /\ swpFree \in [Procs -> [Devs -> Seq(Nat)]]
    /\ active \in [Procs -> Devs]
    /\ pgd \in [Procs -> [Pages -> PTE]]
    /\ fifo \in [Procs -> Seq(Pages)]
    /\ brk \in [Procs -> 0 .. NumPages]
    /\ memLock \in Procs \cup {NoProc}
    /\ exited \subseteq Procs
    /\ pc \in [Procs -> PC]

\* Pages of processes that have exited back nothing any more.
Live == Procs \ exited
Present(p, g) == p \in Live /\ pgd[p][g].pre
MappedFrames ==
    { pgd[pg[1]][pg[2]].fpn : pg \in {pg \in Procs \X Pages : Present(pg[1], pg[2])} }

\* No RAM frame backs two resident pages, of one process or of two: every
\* frame alloc_pages_range or pg_getpage hands to a page was free or was
\* taken from a victim whose PTE was switched to swapped first.
NoFrameAliasing ==
    \A p, q \in Procs, g, h \in Pages :
        Present(p, g) /\ Present(q, h) /\ <<p, g>> # <<q, h>>
            => pgd[p][g].fpn # pgd[q][h].fpn

\* The RAM free list holds each frame at most once and no frame that a
\* resident page uses, so MEMPHY_get_freefp never hands out a frame in use.
FreeFramesUnmapped ==
    /\ IsInjective(ramFree)
    /\ \A i \in DOMAIN ramFree : ramFree[i] \notin MappedFrames

\* Each FIFO queue lists distinct pages, all resident: find_victim_page
\* never picks a page that is already swapped out.
FifoResident ==
    \A p \in Live :
        /\ IsInjective(fifo[p])
        /\ \A i \in DOMAIN fifo[p] : Present(p, fifo[p][i])

\* A process in pg_setval or pg_getval, after pg_getpage returned and
\* released MEM_in_use, still owns the frame it is about to access: no
\* other process's vm_map_ram or pg_getpage evicts it in between, since
\* each evicts only pages of its own FIFO queue.
FrameStillOwned ==
    \A p \in Procs :
        pc[p] # Idle =>
            Present(p, pc[p].pgn) /\ pgd[p][pc[p].pgn].fpn = pc[p].fpn

\* Frame accounting (spec section 8): free RAM frames plus frames of
\* resident pages make up the whole RAM, across alloc_pages_range failures.
FrameAccounting ==
    Len(ramFree) + Cardinality({pg \in Procs \X Pages : Present(pg[1], pg[2])})
        = NumRamFrames

\* Every swapped-out page has its own slot: a frame of the swap device its
\* PTE names, not on that device's free list and not shared with another
\* swapped page, so a later swap-in reads what the eviction wrote.
SwapSlotsValid ==
    \A p \in Live, g, h \in Pages :
        LET e == pgd[p][g] IN
        g < brk[p] /\ ~Present(p, g) =>
            /\ e.swpoff \in SwpFrames
            /\ e.swpoff \notin Range(swpFree[p][e.swptyp])
            /\ h < brk[p] /\ h # g /\ ~Present(p, h)
                 => <<e.swptyp, e.swpoff>> # <<pgd[p][h].swptyp, pgd[p][h].swpoff>>

\* Between two operations nobody holds MEM_in_use: every path of
\* pg_getpage and vm_map_ram releases it.
MemLockReleased == memLock = NoProc
=============================================================================
