------------------------------ MODULE PagingLRU ------------------------------
(***************************************************************************)
(* Demand paging in the LRU build (LRU and SYNC defined): the LRU halves   *)
(* of src/src/mm.c and src/src/mm-vm.c.                                    *)
(*                                                                         *)
(* One LRU list, lru_head .. lru_tail, is shared by all processes.  Each   *)
(* node holds a frame number, the page number and a pointer to the PTE it  *)
(* was created for; here a node is a record [fpn, own, pgn], the pointer   *)
(* being page pgn of process own.  Victims are taken from the head, so a   *)
(* process may evict another process's page.  The list is guarded by       *)
(* LRU_lock inside each list routine; vm_map_ram and pg_getpage also hold  *)
(* MEM_in_use.  After pg_getpage unlocks, pg_setval/pg_getval use the      *)
(* frame number it returned, and __write/__read then call update_LRU_lst:  *)
(* pc[p] records where process p is in that sequence.                      *)
(*                                                                         *)
(* Page contents are not modelled: the properties are about which frame,   *)
(* slot and list node a step uses, not about the bytes copied.  fault      *)
(* records a dereference of a NULL or uninitialised LRU pointer, after     *)
(* which the simulator has crashed and no step is taken.                   *)
(***************************************************************************)
EXTENDS Naturals, Sequences, FiniteSets, SequencesExt, Functions

CONSTANTS
    Procs,          \* the processes
    NoProc,         \* MEM_in_use is free
    NumRamFrames,   \* frames of the shared RAM
    NumSwpFrames,   \* frames of each swap device
    MaxMmswp,       \* PAGING_MAX_MMSWP, swap devices per process
    NumPages,       \* virtual pages of the data VMA that may be mapped
    MaxReq,         \* most pages one growth maps at once
    PAGESZ,         \* PAGING_PAGESZ
    PteFieldValues  \* what a PTE's FPN bits hold when it is not present

ASSUME /\ NoProc \notin Procs
       /\ NumRamFrames >= 2 /\ NumSwpFrames >= 2   \* see MemPhy!Format
       /\ MaxMmswp >= 1 /\ NumPages >= 1 /\ MaxReq >= 1 /\ PAGESZ >= 1
       /\ PteFieldValues \subseteq Nat

LOCAL MP == INSTANCE MemPhy WITH Values <- {0}

SwpFrames == 0 .. NumSwpFrames - 1
Devs      == 0 .. MaxMmswp - 1
Pages     == 0 .. NumPages - 1
NoDev     == -1

VARIABLES
    ramFree,    \* mram->free_fp_list
    swpFree,    \* swpFree[p][d]: mswp[d]->free_fp_list of process p
    active,     \* active[p]: index of active_mswp of process p
    pgd,        \* pgd[p][g]: the page table entry of page g of process p
    lru,        \* the LRU list, head first
    brk,        \* brk[p]: pages of the data VMA mapped so far
    memLock,    \* holder of MEM_in_use
    pc,         \* pc[p]: where process p is in a READ or WRITE
    fault,      \* an LRU pointer that is NULL or uninitialised was used
    exited      \* processes whose free_pcb_memph has run

vars == <<ramFree, swpFree, active, pgd, lru, brk, memLock, pc, fault, exited>>

PTE == [pre : BOOLEAN, swp : BOOLEAN, fpn : Nat, swptyp : Nat, swpoff : Nat]
Unmapped == [pre |-> FALSE, swp |-> FALSE, fpn |-> 0, swptyp |-> 0, swpoff |-> 0]

Node == [fpn : Nat, own : Procs, pgn : Pages]

Idle == [op |-> "idle"]
\* pc[p].vic: the victim find_LRU_victim_page returned, none on an empty
\* list; tgt: tgtfpn; cpy: the FPN bits of __alloc's current_pte.
Victims == {<< >>} \cup [1 .. 1 -> Node]
PC == {Idle} \cup [op : {"mem"}, pgn : Pages, fpn : Nat]
             \cup [op : {"lru"}, pgn : Pages]
             \cup [op : {"swap", "add", "ret"}, pgn : Pages, tgt : Nat, vic : Victims]
             \cup [op : {"alloc", "aswap", "aadd", "touch"}, pgn : Pages,
                   last : Pages, cpy : Nat, vic : Victims]

\* pte_set_fpn and pte_set_swap.
PteSetFpn(pte, fpn) == [pte EXCEPT !.pre = TRUE, !.swp = FALSE, !.fpn = fpn]

PteSetSwap(pte, typ, off) ==
    [pte EXCEPT !.pre = FALSE, !.swp = TRUE, !.swptyp = typ, !.swpoff = off]

\* PAGING_PTE_FPN(pte): the frame of a present entry; for an entry that is
\* not present the FPN bits hold its swap fields or were never set.
FpnBits(pte) == IF pte.pre THEN {pte.fpn} ELSE PteFieldValues

\* Unlink the node at position i and relink it after lru_tail (a no-op for
\* the tail itself).
MoveToTail(l, i) == RemoveAt(l, i) \o << l[i] >>

\* Mutant of add_LRU_page: the node's page number and owner are filled in
\* from each other's arguments.
AddLruPageSwapped(l, p, g, f) ==
    LET i == SelectInSeq(l, LAMBDA n : n.fpn = f) IN
    IF i = 0 THEN Append(l, [fpn |-> f, own |-> g, pgn |-> p])
    ELSE MoveToTail(l, i)

\* Mutant of add_LRU_page: the new node is appended without looking for a
\* node of the same frame.
AddLruPageNoDedup(l, p, g, f) == Append(l, [fpn |-> f, own |-> p, pgn |-> g])

\* add_LRU_page: a node of the same frame anywhere in the list is moved to
\* the tail and keeps its old PTE pointer and page number; otherwise a new
\* node for page g of p is appended.
AddLruPage(l, p, g, f) ==
    LET i == SelectInSeq(l, LAMBDA n : n.fpn = f) IN
    IF i = 0 THEN Append(l, [fpn |-> f, own |-> p, pgn |-> g])
    ELSE MoveToTail(l, i)

\* update_LRU_lst on a non-empty list: the walk stops at the first node of
\* frame f before the tail, or at the tail; a node found before the tail is
\* moved to the tail, otherwise nothing changes.
UpdateLru(l, f) ==
    LET i == SelectInSubSeq(l, 1, Len(l) - 1, LAMBDA n : n.fpn = f) IN
    IF i = 0 THEN l ELSE MoveToTail(l, i)

\* find_LRU_victim_page on a non-empty list: the head node is the victim
\* and is unlinked.  On an empty list it returns -1, which no caller
\* checks.
FindLruVictim(l) == Head(l)
AfterFindLruVictim(l) == Tail(l)

\* The victim a call returns, none on an empty list, and the list after it.
Victim(l)   == IF l = << >> THEN << >> ELSE << FindLruVictim(l) >>
Unlinked(l) == IF l = << >> THEN l ELSE AfterFindLruVictim(l)

\* The swap device alloc_pages_range takes a frame from: the active one if
\* it has a free frame, else the first device that has one, else none.
SwapTarget(act, free) ==
    IF MP!HasFreeFp(free[act]) THEN act
    ELSE IF \E d \in Devs : MP!HasFreeFp(free[d])
         THEN CHOOSE d \in Devs : MP!HasFreeFp(free[d])
                  /\ \A e \in 0 .. d - 1 : ~MP!HasFreeFp(free[e])
         ELSE NoDev

\* Return codes.
OK        == 0
Fail      == -1
OutOfSwap == -3000

(***************************************************************************)
(* vm_map_ram computes on a state slice of the caller: the RAM free list,  *)
(* its swap free lists and active device, all page tables and the LRU      *)
(* list (a victim may belong to anyone), the frame list frm built so far,  *)
(* the return code and the fault flag.                                     *)
(***************************************************************************)
Cur(p) == [ramFree |-> ramFree, swpFree |-> swpFree[p], active |-> active[p],
           pgd |-> pgd, lru |-> lru, frm |-> << >>, ret |-> OK, fault |-> FALSE]

Apply(p, s) ==
    /\ ramFree' = s.ramFree
    /\ swpFree' = [swpFree EXCEPT ![p] = s.swpFree]
    /\ active' = [active EXCEPT ![p] = s.active]
    /\ pgd' = s.pgd
    /\ lru' = s.lru
    /\ fault' = s.fault

\* One iteration of alloc_pages_range (LRU build): a free RAM frame, else
\* the frame of the LRU head.  The victim is unlinked first; then a swap
\* frame is taken (switching active_mswp when the active device is full),
\* or -3000 is returned with the victim unlinked but still present.  With
\* no victim, vicfpn and vicpte are uninitialised and pte_set_swap writes
\* through vicpte.  The victim's PTE, in whichever process it lives, is
\* marked swapped to the caller's device index and frame.
AllocOnePage(s) ==
    IF MP!HasFreeFp(s.ramFree)
    THEN [s EXCEPT !.ramFree = MP!AfterGetFreeFp(@),
                   !.frm = << MP!GetFreeFp(s.ramFree) >> \o @]
    ELSE LET dev == SwapTarget(s.active, s.swpFree)
             s1  == IF s.lru = << >> THEN s
                    ELSE [s EXCEPT !.lru = AfterFindLruVictim(@)]
         IN  IF dev = NoDev THEN [s1 EXCEPT !.ret = OutOfSwap]
             ELSE IF s.lru = << >> THEN [s1 EXCEPT !.fault = TRUE, !.ret = Fail]
             ELSE LET v == FindLruVictim(s.lru) IN
                  [s1 EXCEPT !.swpFree[dev] = MP!AfterGetFreeFp(@),
                             !.active = dev,
                             !.pgd[v.own][v.pgn] =
                                 PteSetSwap(@, dev, MP!GetFreeFp(s.swpFree[dev])),
                             !.frm = << v.fpn >> \o @]

\* alloc_pages_range: n iterations, stopping at the first failure.
RECURSIVE AllocPagesRange(_, _)
AllocPagesRange(n, s) ==
    IF n = 0 \/ s.ret # OK THEN s ELSE AllocPagesRange(n - 1, AllocOnePage(s))

\* vmap_page_range (data VMA): for pgit = n-1 down to 0, page pgn + pgit
\* gets the frame frm[n - pgit] and is added to the LRU list.
VmapPageRange(s, p, pgn, n) ==
    [s EXCEPT
       !.pgd[p] = [g \in Pages |->
                     IF g \in pgn .. pgn + n - 1
                     THEN PteSetFpn(s.pgd[p][g], s.frm[n - (g - pgn)])
                     ELSE s.pgd[p][g]],
       !.lru = FoldLeft(LAMBDA l, j : AddLruPage(l, p, pgn + j, s.frm[n - j]),
                        s.lru, [i \in 1 .. n |-> n - i])]

\* vm_map_ram from inc_vma_limit, under MEM_in_use: alloc_pages_range, and
\* on success vmap_page_range; a failure leaves the partial work in place.
MapPages(p, n) ==
    /\ memLock = NoProc /\ pc[p] = Idle /\ ~fault /\ p \notin exited
    /\ brk[p] + n <= NumPages
    /\ LET s == AllocPagesRange(n, Cur(p)) IN
       IF s.ret = OK
       THEN /\ Apply(p, VmapPageRange(s, p, brk[p], n))
            /\ brk' = [brk EXCEPT ![p] = @ + n]
       ELSE /\ Apply(p, s)
            /\ UNCHANGED brk
    /\ UNCHANGED <<memLock, pc, exited>>

\* pg_getpage (LRU build), called by pg_setval and pg_getval, up to
\* find_LRU_victim_page: MEM_in_use is taken and the entry read.  A present
\* page goes on to add_LRU_page; a missing one takes a free RAM frame, else
\* the LRU head is unlinked as the victim (none on an empty list) and the
\* entry's FPN bits are kept as tgtfpn.  Between the lock and
\* find_LRU_victim_page the code reads only its own entry, which no other
\* process makes present, and the RAM free list, which only a caller
\* holding MEM_in_use shrinks: one step stands for them.
PgGetPage(p, g) ==
    /\ memLock = NoProc /\ pc[p] = Idle /\ ~fault /\ p \notin exited
    /\ g < brk[p]
    /\ memLock' = p
    /\ LET pte == pgd[p][g]
           At(op, tgt, vic) ==
               pc' = [pc EXCEPT ![p] = [op |-> op, pgn |-> g, tgt |-> tgt, vic |-> vic]]
       IN
       \/ /\ pte.pre
          /\ At("add", 0, << >>)
          /\ UNCHANGED <<ramFree, pgd, lru>>
       \/ /\ ~pte.pre /\ MP!HasFreeFp(ramFree)
          /\ ramFree' = MP!AfterGetFreeFp(ramFree)
          /\ pgd' = [pgd EXCEPT ![p][g] = PteSetFpn(@, MP!GetFreeFp(ramFree))]
          /\ At("add", 0, << >>)
          /\ UNCHANGED lru
       \/ /\ ~pte.pre /\ ~MP!HasFreeFp(ramFree)
          /\ \E tgt \in FpnBits(pte) : At("swap", tgt, Victim(lru))
          /\ lru' = Unlinked(lru)
          /\ UNCHANGED <<ramFree, pgd>>
    /\ UNCHANGED <<swpFree, active, brk, fault, exited>>

\* Mutant of pg_getpage's out-of-swap return: MEM_in_use is not released
\* (as in the FIFO build's empty-queue return).
OutOfSwapReturnLocked(p, g) ==
    /\ pc' = [pc EXCEPT ![p] = [op |-> "lru", pgn |-> g]]
    /\ UNCHANGED memLock

\* pg_getpage's return of -3000 when the active swap device is full:
\* MEM_in_use is released and the caller goes on to update_LRU_lst.
OutOfSwapReturn(p, g) ==
    /\ memLock' = NoProc
    /\ pc' = [pc EXCEPT ![p] = [op |-> "lru", pgn |-> g]]

\* The rest of pg_getpage's eviction, after find_LRU_victim_page released
\* LRU_lock: a frame of the active swap device only is taken (-3000 and
\* MEM_in_use released if it has none, the victim staying unlinked); the
\* victim's PTE, wherever the node points, is marked swapped to it, the
\* page gets the victim's frame and tgtfpn is pushed back on the active
\* device.  With no victim, vicpte is uninitialised.  Only the write
\* through vicpte is seen by other processes; the rest is p's own state.
PgSwap(p) ==
    /\ pc[p].op = "swap" /\ ~fault
    /\ LET g    == pc[p].pgn
           act  == active[p]
           free == swpFree[p][act]
       IN
       \/ /\ ~MP!HasFreeFp(free)
          /\ OutOfSwapReturn(p, g)
          /\ UNCHANGED <<swpFree, pgd, fault>>
       \/ /\ MP!HasFreeFp(free) /\ pc[p].vic = << >>
          /\ fault' = TRUE
          /\ UNCHANGED <<swpFree, pgd, memLock, pc>>
       \/ /\ MP!HasFreeFp(free) /\ pc[p].vic # << >>
          /\ LET v == pc[p].vic[1] IN
             /\ pgd' = [pgd EXCEPT ![v.own][v.pgn] = PteSetSwap(@, act, MP!GetFreeFp(free)),
                                   ![p][g] = PteSetFpn(@, v.fpn)]
             /\ swpFree' = [swpFree EXCEPT ![p][act] =
                              MP!PutFreeFp(MP!AfterGetFreeFp(@), pc[p].tgt)]
          /\ pc' = [pc EXCEPT ![p] = [@ EXCEPT !.op = "add", !.tgt = 0, !.vic = << >>]]
          /\ UNCHANGED <<memLock, fault>>
    /\ UNCHANGED <<ramFree, active, lru, brk, exited>>

\* add_LRU_page(&mm->pgd[pgn], pgn), which reads the frame from the entry
\* as it is now: another process may have marked it swapped meanwhile.
PgAddLru(p) ==
    /\ pc[p].op = "add" /\ ~fault
    /\ \E f \in FpnBits(pgd[p][pc[p].pgn]) : lru' = AddLruPage(lru, p, pc[p].pgn, f)
    /\ pc' = [pc EXCEPT ![p].op = "ret"]
    /\ UNCHANGED <<ramFree, swpFree, active, pgd, brk, memLock, fault, exited>>

\* *fpn = PAGING_PTE_FPN(mm->pgd[pgn]), read once more, and MEM_in_use is
\* released; the caller goes on to the MEMPHY access.
PgReturn(p) ==
    /\ pc[p].op = "ret" /\ ~fault
    /\ \E f \in FpnBits(pgd[p][pc[p].pgn]) :
         pc' = [pc EXCEPT ![p] = [op |-> "mem", pgn |-> pc[p].pgn, fpn |-> f]]
    /\ memLock' = NoProc
    /\ UNCHANGED <<ramFree, swpFree, active, pgd, lru, brk, fault, exited>>

\* MEMPHY_write of pg_setval, or MEMPHY_read of pg_getval, on the frame
\* pg_getpage returned, after MEM_in_use was released.
MemphyAccess(p) ==
    /\ pc[p].op = "mem" /\ ~fault
    /\ pc' = [pc EXCEPT ![p] = [op |-> "lru", pgn |-> pc[p].pgn]]
    /\ UNCHANGED <<ramFree, swpFree, active, pgd, lru, brk, memLock, fault, exited>>

\* update_LRU_lst(&pgd[pgn]) at the end of __write and __read, whatever
\* pg_setval returned: the PTE's FPN bits are looked up in the list.  On an
\* empty list the walk dereferences lru_head, which is NULL.
UpdateLruLst(p) ==
    /\ pc[p].op = "lru" /\ ~fault
    /\ \/ /\ lru = << >>
          /\ fault' = TRUE
          /\ UNCHANGED <<lru, pc>>
       \/ /\ lru # << >>
          /\ \E f \in FpnBits(pgd[p][pc[p].pgn]) : lru' = UpdateLru(lru, f)
          /\ pc' = [pc EXCEPT ![p] = Idle]
          /\ UNCHANGED fault
    /\ UNCHANGED <<ramFree, swpFree, active, pgd, brk, memLock, exited>>

\* __alloc (LRU build) when get_free_vmrg_area has found a free region:
\* the symbol table entry is set and the loop over the region's pages
\* begins, from the page of rg_start to the page of rg_end (upward for the
\* data VMA, downward for the heap).  The region's placement is the VM
\* module's; here it is any run of mapped pages.
AllocReuse(p, first, last) ==
    /\ pc[p] = Idle /\ ~fault /\ p \notin exited
    /\ first < brk[p] /\ last < brk[p]
    /\ pc' = [pc EXCEPT ![p] = [op |-> "alloc", pgn |-> first, last |-> last,
                                 cpy |-> 0, vic |-> << >>]]
    /\ UNCHANGED <<ramFree, swpFree, active, pgd, lru, brk, memLock, fault, exited>>

\* The loop over the region's pages holds no MEM_in_use; each list
\* routine takes LRU_lock by itself.  First current_pte is copied from the
\* page's entry and its FPN bits kept, used both as tgtfpn and by the
\* closing update_LRU_lst(&current_pte).  A present page goes straight to
\* that update; a missing one takes the frame of the LRU head without
\* looking at the RAM free list, and find_LRU_victim_page unlinks it.  The
\* copy is of p's own entry, which no other process makes present, so the
\* read and the unlink are one step.
AllocReadPte(p) ==
    /\ pc[p].op = "alloc" /\ ~fault
    /\ LET cur == pgd[p][pc[p].pgn] IN
       \E c \in FpnBits(cur) :
          \/ /\ cur.pre
             /\ pc' = [pc EXCEPT ![p] = [@ EXCEPT !.op = "touch", !.cpy = c]]
             /\ UNCHANGED lru
          \/ /\ ~cur.pre
             /\ pc' = [pc EXCEPT ![p] = [@ EXCEPT !.op = "aswap", !.cpy = c,
                                                  !.vic = Victim(lru)]]
             /\ lru' = Unlinked(lru)
    /\ UNCHANGED <<ramFree, swpFree, active, pgd, brk, memLock, fault, exited>>

\* After find_LRU_victim_page: a frame of the active swap device only is
\* taken (on none __alloc returns -3000, the victim staying unlinked); the
\* victim's PTE is marked swapped to it and the page gets the victim's
\* frame.  MEMPHY_put_freefp of tgtfpn, after add_LRU_page in the code,
\* touches only p's own swap device and is taken here.
AllocSwap(p) ==
    /\ pc[p].op = "aswap" /\ ~fault
    /\ LET i    == pc[p].pgn
           act  == active[p]
           free == swpFree[p][act]
       IN
       \/ /\ ~MP!HasFreeFp(free)
          /\ pc' = [pc EXCEPT ![p] = Idle]
          /\ UNCHANGED <<swpFree, pgd, fault>>
       \/ /\ MP!HasFreeFp(free) /\ pc[p].vic = << >>
          /\ fault' = TRUE
          /\ UNCHANGED <<swpFree, pgd, pc>>
       \/ /\ MP!HasFreeFp(free) /\ pc[p].vic # << >>
          /\ LET v == pc[p].vic[1] IN
             /\ pgd' = [pgd EXCEPT ![v.own][v.pgn] = PteSetSwap(@, act, MP!GetFreeFp(free)),
                                   ![p][i] = PteSetFpn(@, v.fpn)]
             /\ swpFree' = [swpFree EXCEPT ![p][act] =
                              MP!PutFreeFp(MP!AfterGetFreeFp(@), pc[p].cpy)]
          /\ pc' = [pc EXCEPT ![p] = [@ EXCEPT !.op = "aadd", !.vic = << >>]]
          /\ UNCHANGED fault
    /\ UNCHANGED <<ramFree, active, lru, brk, memLock, exited>>

\* add_LRU_page(&caller->mm->pgd[i], i), reading the entry as it is now.
AllocAddLru(p) ==
    /\ pc[p].op = "aadd" /\ ~fault
    /\ \E f \in FpnBits(pgd[p][pc[p].pgn]) : lru' = AddLruPage(lru, p, pc[p].pgn, f)
    /\ pc' = [pc EXCEPT ![p].op = "touch"]
    /\ UNCHANGED <<ramFree, swpFree, active, pgd, brk, memLock, fault, exited>>

\* update_LRU_lst(&current_pte) with the copy's FPN bits, stale for a page
\* just brought in; then the next page, or the end of the loop.  On an
\* empty list the walk dereferences lru_head, which is NULL.
AllocTouch(p) ==
    /\ pc[p].op = "touch" /\ ~fault
    /\ LET i    == pc[p].pgn
           last == pc[p].last
       IN
       \/ /\ lru = << >>
          /\ fault' = TRUE
          /\ UNCHANGED <<lru, pc>>
       \/ /\ lru # << >>
          /\ lru' = UpdateLru(lru, pc[p].cpy)
          /\ pc' = [pc EXCEPT ![p] =
                      IF i = last THEN Idle
                      ELSE [@ EXCEPT !.op = "alloc", !.cpy = 0,
                                     !.pgn = IF i < last THEN i + 1 ELSE i - 1]]
          /\ UNCHANGED fault
    /\ UNCHANGED <<ramFree, swpFree, active, pgd, brk, memLock, exited>>

\* free_pcb_memph when process p finishes (the same code as in the FIFO
\* build), without MEM_in_use: for every page number in order, the FPN bits
\* of an entry that is not present are pushed on the RAM free list, and
\* the SWPOFF bits of a present entry, over PAGESZ, on the active swap
\* device; both read fields their flags do not make meaningful, so each
\* value is one of PteFieldValues.  The LRU list is left as it is.
Exit(p) ==
    /\ p \notin exited /\ pc[p] = Idle /\ ~fault
    /\ \E fld \in [Pages -> PteFieldValues] :
         LET pages  == [i \in 1 .. NumPages |-> i - 1]
             toRam  == SelectSeq(pages, LAMBDA g : ~pgd[p][g].pre)
             toSwap == SelectSeq(pages, LAMBDA g : pgd[p][g].pre)
             Pushed(gs, d) == Reverse([i \in DOMAIN gs |-> fld[gs[i]] \div d])
         IN  /\ ramFree' = Pushed(toRam, 1) \o ramFree
             /\ swpFree' = [swpFree EXCEPT ![p][active[p]] = Pushed(toSwap, PAGESZ) \o @]
    /\ exited' = exited \cup {p}
    /\ UNCHANGED <<active, pgd, lru, brk, memLock, pc, fault>>

Init ==
    /\ ramFree = MP!Format(NumRamFrames)
    /\ swpFree = [p \in Procs |-> [d \in Devs |-> MP!Format(NumSwpFrames)]]
    /\ active = [p \in Procs |-> 0]
    /\ pgd = [p \in Procs |-> [g \in Pages |-> Unmapped]]
    /\ lru = << >>
    /\ brk = [p \in Procs |-> 0]
    /\ memLock = NoProc
    /\ pc = [p \in Procs |-> Idle]
    /\ fault = FALSE
    /\ exited = {}

Next ==
    \E p \in Procs :
        \/ \E n \in 1 .. MaxReq : MapPages(p, n)
        \/ \E g \in Pages : PgGetPage(p, g)
        \/ PgSwap(p)
        \/ PgAddLru(p)
        \/ PgReturn(p)
        \/ MemphyAccess(p)
        \/ UpdateLruLst(p)
        \/ \E first, last \in Pages : AllocReuse(p, first, last)
        \/ AllocReadPte(p)
        \/ AllocSwap(p)
        \/ AllocAddLru(p)
        \/ AllocTouch(p)

Spec == Init /\ [][Next]_vars

\* Processes may also finish and have their memory torn down.
NextExit == Next \/ \E p \in Procs : Exit(p)

SpecExit == Init /\ [][NextExit]_vars

-----------------------------------------------------------------------------
(***************************************************************************)
(* Properties                                                              *)
(***************************************************************************)
TypeOK ==
    /\ ramFree \in Seq(Nat)
    /\ swpFree \in [Procs -> [Devs -> Seq(Nat)]]
    /\ active \in [Procs -> Devs]
    /\ pgd \in [Procs -> [Pages -> PTE]]
    /\ lru \in Seq(Node)
    /\ brk \in [Procs -> 0 .. NumPages]
    /\ memLock \in Procs \cup {NoProc}
    /\ pc \in [Procs -> PC]
    /\ fault \in BOOLEAN
    /\ exited \subseteq Procs

Present(p, g) == pgd[p][g].pre

\* No RAM frame backs two resident pages: the LRU victim is switched to
\* swapped, in whichever process's page table it lives, before its frame
\* is handed to the faulting or growing process.
NoFrameAliasing ==
    \A p, q \in Procs, g, h \in Pages :
        Present(p, g) /\ Present(q, h) /\ <<p, g>> # <<q, h>>
            => pgd[p][g].fpn # pgd[q][h].fpn

\* The LRU list never holds two nodes of one frame (spec section 4.4):
\* add_LRU_page moves an existing node of the frame instead of adding one,
\* across the mappings and faults of all processes.
LruFramesUnique == IsInjective([i \in DOMAIN lru |-> lru[i].fpn])

\* MEM_in_use is held exactly while a process is inside pg_getpage (after
\* the lock and before the unlock on either return path), so no two
\* processes are inside it at once and none keeps the lock after
\* returning -3000, whatever the unlocked __alloc loops do meanwhile.
MemLockHeldInGetPage ==
    \A p \in Procs : memLock = p <=> pc[p].op \in {"swap", "add", "ret"}

\* A READ or WRITE touches its own page: between pg_getpage's unlock and
\* the MEMPHY access, the frame pg_getpage returned still backs the page.
FrameStillOwned ==
    \A p \in Procs :
        pc[p].op = "mem" =>
            Present(p, pc[p].pgn) /\ pgd[p][pc[p].pgn].fpn = pc[p].fpn

\* Every swapped-out page has its own slot on one of its process's swap
\* devices: a frame of the device its PTE names, taken off that device's
\* free list and shared with no other swapped page.
SwapSlotsValid ==
    \A p \in Procs, g, h \in Pages :
        LET e == pgd[p][g] IN
        e.swp /\ ~e.pre =>
            /\ e.swpoff \in SwpFrames
            /\ e.swpoff \notin Range(swpFree[p][e.swptyp])
            /\ h # g /\ pgd[p][h].swp /\ ~pgd[p][h].pre
                 => <<e.swptyp, e.swpoff>> # <<pgd[p][h].swptyp, pgd[p][h].swpoff>>

\* No list routine or caller uses a NULL or uninitialised LRU pointer:
\* every victim selection and every update_LRU_lst finds a non-empty list.
NoLruFault == ~fault
=============================================================================
