--------------------------------- MODULE VM ---------------------------------
(***************************************************************************)
(* The region allocator and VMA growth of one process (src/src/mm-vm.c,    *)
(* build with MM_PAGING_HEAP_GODOWN): the data VMA 0 grows upward from 0,  *)
(* the heap VMA 1 downward from vmemsz - 1.  Each VMA has a break (sbrk),  *)
(* an end (vm_end) and a list of free regions; the symbol table maps a     *)
(* region id to an allocated range.  Ranges are inclusive: a VMA 0 region  *)
(* [s, e] has s <= e, a VMA 1 region [s, e] has s >= e; s = e marks an     *)
(* unused entry.                                                           *)
(*                                                                         *)
(* vm_map_ram (the Paging module) is abstracted to its outcome: it maps    *)
(* the requested pages or fails, as it can when RAM and the caller's swap  *)
(* are exhausted.  Only the set of pages given a PTE is kept.  A process   *)
(* runs its instructions one after another, so each call is one step.      *)
(***************************************************************************)
EXTENDS Integers, Sequences, FiniteSets

CONSTANTS
    VMEMSZ,     \* vmemsz, bytes of the virtual address space
    PAGESZ,     \* PAGING_PAGESZ
    Rgids,      \* region ids (symbol table slots) the program uses
    Sizes,      \* request sizes of ALLOC / MALLOC
    Offsets,    \* offsets of READ / WRITE
    MaxFreeNodes \* bound on the length of a free list (the C list is unbounded)

ASSUME /\ PAGESZ >= 1 /\ VMEMSZ % PAGESZ = 0 /\ VMEMSZ >= 2 * PAGESZ
       /\ Sizes \subseteq 1 .. VMEMSZ /\ Offsets \subseteq Nat

VmaIds == {0, 1}
NoPage == -1

\* PAGING_PAGE_ALIGNSZ: round up to a page boundary.
PageAlignSz(sz) == ((sz + PAGESZ - 1) \div PAGESZ) * PAGESZ
\* PAGING_PGN
Pgn(addr) == addr \div PAGESZ

VARIABLES
    vma,        \* vma[i]: [start, end, sbrk] of vm_area_struct i
    freerg,     \* freerg[i]: vm_freerg_list of VMA i, head first
    symrg,      \* symrg[r]: symrgtbl[r] = [s, e, vmaid]
    mapped,     \* pages whose PTE vmap_page_range has set
    spinning,   \* the process is stuck in get_free_vmrg_area's loop
    acc,        \* ghost: the page the last successful READ/WRITE touched
    dirty       \* ghost: addresses a WRITE stored a value to, not zeroed since

vars == <<vma, freerg, symrg, mapped, spinning, acc, dirty>>

Rg(s, e) == [s |-> s, e |-> e]

(***************************************************************************)
(* get_free_vmrg_area: first fit over the free list.  The loop does not   *)
(* stop at a fit: it carves the node again while it still fits and then   *)
(* goes on to the next node, so newrg is the last piece carved.  A node   *)
(* used up entirely takes over its successor's range, or, if last, is     *)
(* left as the one-point range [e, e].  An iteration that leaves the list *)
(* as it was repeats for ever.                                             *)
(***************************************************************************)
Fits(vmaid, size, n) ==
    IF vmaid = 0 THEN n.s + size - 1 <= n.e ELSE n.s - size + 1 >= n.e

\* Mutant: the recorded region ends one byte short (rg_start + size - 2).
CarveShort(vmaid, size, n) ==
    IF vmaid = 0 THEN Rg(n.s, n.s + size - 2) ELSE Rg(n.s, n.s - size + 2)

Carve(vmaid, size, n) ==
    IF vmaid = 0 THEN Rg(n.s, n.s + size - 1) ELSE Rg(n.s, n.s - size + 1)

\* The list after carving size bytes from node i.
CarveRest(vmaid, size, list, i) ==
    LET n == list[i] IN
    IF vmaid = 0 /\ n.s + size - 1 < n.e THEN [list EXCEPT ![i] = Rg(n.s + size, n.e)]
    ELSE IF vmaid = 1 /\ n.s - size + 1 > n.e THEN [list EXCEPT ![i] = Rg(n.s - size, n.e)]
    ELSE IF i < Len(list)
         THEN SubSeq(list, 1, i - 1) \o SubSeq(list, i + 1, Len(list))
         ELSE [list EXCEPT ![i] = Rg(n.e, n.e)]

RECURSIVE FirstFit(_, _, _, _, _)
FirstFit(vmaid, size, list, i, res) ==
    IF i > Len(list) THEN [res EXCEPT !.list = list]
    ELSE IF ~Fits(vmaid, size, list[i]) THEN FirstFit(vmaid, size, list, i + 1, res)
    ELSE LET rest == CarveRest(vmaid, size, list, i) IN
         IF rest = list THEN [res EXCEPT !.hang = TRUE, !.list = list]
         ELSE FirstFit(vmaid, size, rest, i,
                       [res EXCEPT !.found = TRUE, !.rg = Carve(vmaid, size, list[i])])

GetFreeVmrgArea(vmaid, size) ==
    FirstFit(vmaid, size, freerg[vmaid], 1,
             [found |-> FALSE, hang |-> FALSE, rg |-> Rg(-1, -1), list |-> << >>])

\* validate_overlap_vm_area: the planned range [vmastart, vmaend] against
\* every other VMA that is not empty.
ValidateOverlapVmArea(vmaid, vmastart, vmaend) ==
    \A o \in VmaIds \ {vmaid} :
        \/ vma[o].start = vma[o].end
        \/ (vma[o].start - vmastart) * (vmaend - vma[o].end) < 0
        \/ vmaend = vma[o].end

\* Mutant: the data VMA's new pages start one page past the old end.
MapRangeOffByOne(vmaid, oldEnd, n) ==
    IF vmaid = 0 THEN { Pgn(oldEnd) + 1 + k : k \in 0 .. n - 1 }
    ELSE LET mapstart == IF oldEnd = VMEMSZ - 1 THEN oldEnd ELSE oldEnd - 1
         IN  { Pgn(mapstart) - k : k \in 0 .. n - 1 }

\* The pages vm_map_ram gives a PTE when inc_vma_limit grows VMA vmaid
\* from old_end by n pages (vmap_page_range from mapstart, upward for
\* VMA 0, downward for VMA 1 starting one byte below a used heap's end).
MapRange(vmaid, oldEnd, n) ==
    IF vmaid = 0 THEN { Pgn(oldEnd) + k : k \in 0 .. n - 1 }
    ELSE LET mapstart == IF oldEnd = VMEMSZ - 1 THEN oldEnd ELSE oldEnd - 1
         IN  { Pgn(mapstart) - k : k \in 0 .. n - 1 }

\* inc_vma_limit: the set of [ok, end, mapped] outcomes.  An overlap fails
\* before any change; otherwise vm_end is moved to the new aligned end
\* and vm_map_ram either maps the pages or fails, in which case vm_end is
\* moved back by inc_sz (not by what it was moved).
IncVmaLimit(vmaid, incSz) ==
    LET v      == vma[vmaid]
        incAmt == IF vmaid = 0 THEN PageAlignSz(incSz - (v.end - v.sbrk))
                  ELSE PageAlignSz(incSz - (v.sbrk - v.end))
        areaE  == IF vmaid = 0 THEN v.sbrk + incSz ELSE v.sbrk - incSz
        newEnd == IF vmaid = 0 THEN PageAlignSz(v.sbrk + incSz)
                  ELSE PageAlignSz(v.sbrk - incSz) - PAGESZ
        pages  == MapRange(vmaid, v.end, incAmt \div PAGESZ)
    IN  IF ~ValidateOverlapVmArea(vmaid, v.sbrk, areaE)
        THEN {[ok |-> FALSE, end |-> v.end, mapped |-> mapped]}
        ELSE {[ok |-> TRUE, end |-> newEnd, mapped |-> mapped \cup pages],
              [ok |-> FALSE, end |-> IF vmaid = 0 THEN newEnd - incSz ELSE newEnd + incSz,
               mapped |-> mapped]}

\* Mutant: the first heap region is placed like the later ones, one byte low.
SbrkRegionOffByOne(vmaid, size) ==
    LET b == vma[vmaid].sbrk IN
    IF vmaid = 0 THEN [rg |-> Rg(b, b + size - 1), sbrk |-> b + size]
    ELSE [rg |-> Rg(b - 1, b - size), sbrk |-> IF b = VMEMSZ - 1 THEN b + 1 - size ELSE b - size]

\* The region __alloc records when it grows the VMA, and the new break.
SbrkRegion(vmaid, size) ==
    LET b == vma[vmaid].sbrk IN
    IF vmaid = 0 THEN [rg |-> Rg(b, b + size - 1), sbrk |-> b + size]
    ELSE IF b = VMEMSZ - 1 THEN [rg |-> Rg(b, b + 1 - size), sbrk |-> b + 1 - size]
    ELSE [rg |-> Rg(b - 1, b - size), sbrk |-> b - size]

\* __alloc's checks before growing: the request passes the address space
\* (OOM), or passes vm_end and needs inc_vma_limit.
OutOfVmem(vmaid, size) ==
    IF vmaid = 0 THEN vma[0].sbrk + size > VMEMSZ ELSE vma[1].sbrk - size < 0
PastEnd(vmaid, size) ==
    IF vmaid = 0 THEN vma[0].sbrk + size > vma[0].end ELSE vma[1].sbrk - size < vma[1].end

\* __alloc (pgalloc for VMA 0, pgmalloc for VMA 1), FIFO build.
Alloc(vmaid, rgid, size) ==
    LET r  == GetFreeVmrgArea(vmaid, size)
        v  == vma[vmaid]
        nr == SbrkRegion(vmaid, size)
        Commit(end, mp) ==
            /\ symrg' = [symrg EXCEPT ![rgid] = [s |-> nr.rg.s, e |-> nr.rg.e, vmaid |-> vmaid]]
            /\ vma' = [vma EXCEPT ![vmaid].sbrk = nr.sbrk, ![vmaid].end = end]
            /\ mapped' = mp
    IN
    /\ ~spinning
    /\ IF r.hang
       THEN /\ spinning' = TRUE
            /\ freerg' = [freerg EXCEPT ![vmaid] = r.list]
            /\ UNCHANGED <<vma, symrg, mapped>>
       ELSE IF r.found
       THEN /\ freerg' = [freerg EXCEPT ![vmaid] = r.list]
            /\ symrg' = [symrg EXCEPT ![rgid] = [s |-> r.rg.s, e |-> r.rg.e, vmaid |-> vmaid]]
            /\ UNCHANGED <<vma, mapped, spinning>>
       ELSE /\ UNCHANGED <<freerg, spinning>>
            /\ \/ OutOfVmem(vmaid, size) /\ UNCHANGED <<vma, symrg, mapped>>
               \/ /\ ~OutOfVmem(vmaid, size) /\ PastEnd(vmaid, size)
                  /\ \E o \in IncVmaLimit(vmaid, size) :
                       \/ o.ok /\ Commit(o.end, o.mapped)
                       \/ /\ ~o.ok
                          /\ vma' = [vma EXCEPT ![vmaid].end = o.end]
                          /\ UNCHANGED <<symrg, mapped>>
               \/ /\ ~OutOfVmem(vmaid, size) /\ ~PastEnd(vmaid, size)
                  /\ Commit(v.end, mapped)
    /\ UNCHANGED <<acc, dirty>>

\* enlist_vm_freerg_list: refuses a range of the wrong orientation.
EnlistVmFreergList(list, vmaid, rg) ==
    IF (rg.s >= rg.e /\ vmaid = 0) \/ (rg.s <= rg.e /\ vmaid = 1) THEN list
    ELSE << rg >> \o list

\* Mutant: the symbol table entry is not cleared.
FreeNoClear(rgid) ==
    LET r == symrg[rgid] IN
    /\ ~spinning
    /\ r.s # r.e
    /\ Len(freerg[r.vmaid]) < MaxFreeNodes
    /\ freerg' = [freerg EXCEPT ![r.vmaid] = EnlistVmFreergList(@, r.vmaid, Rg(r.s, r.e))]
    /\ UNCHANGED <<symrg, vma, mapped, spinning, acc, dirty>>

\* __free: an entry with s = e is refused; otherwise the bytes from rg_start
\* while below rg_end are zeroed through pg_setval (none for a heap region,
\* whose start is above its end), the entry is cleared and a copy of its
\* range pushed on the VMA's free list.
Free(rgid) ==
    LET r == symrg[rgid] IN
    /\ ~spinning
    /\ r.s # r.e
    /\ Len(freerg[r.vmaid]) < MaxFreeNodes
    /\ dirty' = dirty \ (r.s .. r.e - 1)
    /\ symrg' = [symrg EXCEPT ![rgid].s = 0, ![rgid].e = 0]
    /\ freerg' = [freerg EXCEPT ![r.vmaid] = EnlistVmFreergList(@, r.vmaid, Rg(r.s, r.e))]
    /\ UNCHANGED <<vma, mapped, spinning, acc>>

\* The checks shared by __read and __write, and the address they access.
AccessOk(rgid, off) ==
    LET r == symrg[rgid] IN
    /\ r.s # r.e
    /\ IF r.vmaid = 0 THEN r.s + off <= r.e ELSE r.s - off >= r.e
AccessAddr(rgid, off) ==
    IF symrg[rgid].vmaid = 0 THEN symrg[rgid].s + off ELSE symrg[rgid].s - off

\* __read / __write that pass the checks reach pg_getval / pg_setval on
\* the page of the address.
Read(rgid, off) ==
    /\ ~spinning
    /\ AccessOk(rgid, off)
    /\ acc' = Pgn(AccessAddr(rgid, off))
    /\ UNCHANGED <<vma, freerg, symrg, mapped, spinning, dirty>>

Write(rgid, off) ==
    /\ ~spinning
    /\ AccessOk(rgid, off)
    /\ acc' = Pgn(AccessAddr(rgid, off))
    /\ dirty' = dirty \cup {AccessAddr(rgid, off)}
    /\ UNCHANGED <<vma, freerg, symrg, mapped, spinning>>

\* init_mm: both VMAs empty, each with a one-point dummy free region.
Init ==
    /\ vma = [i \in VmaIds |-> IF i = 0 THEN [start |-> 0, end |-> 0, sbrk |-> 0]
                               ELSE [start |-> VMEMSZ - 1, end |-> VMEMSZ - 1,
                                     sbrk |-> VMEMSZ - 1]]
    /\ freerg = [i \in VmaIds |-> << Rg(vma[i].start, vma[i].start) >>]
    /\ symrg = [r \in Rgids |-> [s |-> 0, e |-> 0, vmaid |-> 0]]
    /\ mapped = {}
    /\ spinning = FALSE
    /\ acc = NoPage
    /\ dirty = {}

Next ==
    \/ \E i \in VmaIds, r \in Rgids, sz \in Sizes : Alloc(i, r, sz)
    \/ \E r \in Rgids : Free(r)
    \/ \E r \in Rgids, off \in Offsets : Read(r, off) \/ Write(r, off)

Spec == Init /\ [][Next]_vars

-----------------------------------------------------------------------------
Range0(r) == r.s .. r.e          \* bytes of a VMA 0 range
Range1(r) == r.e .. r.s          \* bytes of a VMA 1 range
Bytes(i, r) == IF i = 0 THEN Range0(r) ELSE Range1(r)

Live(i) == { r \in Rgids : symrg[r].vmaid = i /\ symrg[r].s # symrg[r].e }
\* Free-list nodes with s = e are the one-point dummies the dumps skip.
FreeNodes(i) == { k \in DOMAIN freerg[i] : freerg[i][k].s # freerg[i][k].e }
LiveBytes(i) == UNION { Bytes(i, symrg[r]) : r \in Live(i) }
FreeBytes(i) == UNION { Bytes(i, freerg[i][k]) : k \in FreeNodes(i) }
\* The bytes on the used side of the break of VMA i.
Claimed(i) ==
    IF i = 0 THEN 0 .. vma[0].sbrk - 1
    ELSE IF vma[1].sbrk = VMEMSZ - 1 THEN {} ELSE vma[1].sbrk .. VMEMSZ - 1

TypeOK ==
    /\ vma \in [VmaIds -> [start : Int, end : Int, sbrk : Int]]
    /\ \A i \in VmaIds : freerg[i] \in Seq([s : Int, e : Int]) /\ freerg[i] # << >>
    /\ symrg \in [Rgids -> [s : Int, e : Int, vmaid : VmaIds]]
    /\ mapped \subseteq 0 .. VMEMSZ \div PAGESZ - 1
    /\ spinning \in BOOLEAN
    /\ acc \in Int
    /\ dirty \subseteq 0 .. VMEMSZ - 1

\* Within one VMA, no byte is in two allocated regions, in two free-list
\* nodes, or in an allocated region and a free node: __alloc's carving in
\* get_free_vmrg_area, its growth at sbrk and __free's enlisting never
\* hand out the same byte twice.
RegionsDisjointWithinVma ==
    \A i \in VmaIds :
      /\ \A r1, r2 \in Live(i) :
            r1 # r2 => Bytes(i, symrg[r1]) \cap Bytes(i, symrg[r2]) = {}
      /\ \A k1, k2 \in FreeNodes(i) :
            k1 # k2 => Bytes(i, freerg[i][k1]) \cap Bytes(i, freerg[i][k2]) = {}
      /\ LiveBytes(i) \cap FreeBytes(i) = {}

\* Every allocated region and every free node of a VMA lies on the used
\* side of its break: __alloc moves sbrk past each region it records.
RegionsBelowBreak ==
    \A i \in VmaIds : LiveBytes(i) \cup FreeBytes(i) \subseteq Claimed(i)

\* An allocation served from the free list takes out of the free list
\* exactly the bytes of the region it records.  get_free_vmrg_area keeps
\* carving the node after the first fit and __alloc records only the last
\* piece, so the earlier pieces would be neither free nor allocated.
FreeListAllocExact ==
    [][\A i \in VmaIds, r \in Rgids :
         /\ symrg'[r] # symrg[r] /\ symrg'[r].vmaid = i
         /\ symrg'[r].s # symrg'[r].e
         /\ FreeBytes(i)' # FreeBytes(i)
         => FreeBytes(i) \ FreeBytes(i)' = Bytes(i, symrg'[r])]_vars

\* Regions of the data and the heap VMA never share a byte; __alloc's
\* growth path relies on validate_overlap_vm_area for this.
LiveRegionsDisjoint == LiveBytes(0) \cap LiveBytes(1) = {}

\* A READ or WRITE that __read/__write accept touches a page that
\* vm_map_ram gave a PTE.
AccessMapped == acc = NoPage \/ acc \in mapped

\* An ALLOC or MALLOC call returns: get_free_vmrg_area does not loop.
NoSpinningAlloc == ~spinning

\* A region freed and handed out again reads as zero: __free zeroes every
\* byte of the region before donating it to the free list.
FreedBytesZeroed == \A i \in VmaIds : FreeBytes(i) \cap dirty = {}

\* The refinement mapping: a region id holds the bytes of its symbol table
\* entry while the entry is in use.
AA == INSTANCE AbstractAlloc WITH
        Addrs <- 0 .. VMEMSZ - 1,
        owned <- [r \in Rgids |-> IF symrg[r].s # symrg[r].e
                                  THEN Bytes(symrg[r].vmaid, symrg[r]) ELSE {}],
        vmaOf <- [r \in Rgids |-> symrg[r].vmaid]

\* The allocator implements AbstractAlloc: every __alloc that records a
\* region gives it exactly size fresh bytes of its VMA, and __free returns
\* them, whatever path (free list, growth at the break) it took.
AbstractAllocSpec == AA!Spec
=============================================================================
