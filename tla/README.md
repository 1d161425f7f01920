# TLA+ models of the OS-sim memory subsystem

This directory holds TLA+ models of the paging memory manager in `src/src`
(`mm.c`, `mm-vm.c`, `mm-memphy.c`), the TLC configurations that check them,
and `PROJECT.json`, which maps every model definition to the C lines it
translates and lists the runs, mutants, findings and hazards.

## The system

A simulated OS runs processes on CPUs. Each process has its own page table,
two virtual memory areas (VMAs), private swap devices, and a FIFO queue of
its resident pages. All processes share one RAM device.

| Part | Code | State | Operations |
|---|---|---|---|
| Physical store | `mm-memphy.c` | per device: storage bytes, free-frame list (LIFO), a mutex | `MEMPHY_read/write`, `MEMPHY_format`, `MEMPHY_get_freefp`, `MEMPHY_put_freefp`, sequential variants |
| Page table | `mm.c` | `pgd[]`: per page present/swapped bits, frame number, swap type and offset | `pte_set_fpn`, `pte_set_swap` |
| Demand paging (FIFO build) | `mm.c`, `mm-vm.c` | page tables, per-process `fifo_pgn`, `active_mswp`, global lock `MEM_in_use` | `alloc_pages_range`, `vmap_page_range`, `vm_map_ram`, `pg_getpage`, `pg_setval`, `pg_getval`, `find_victim_page` |
| Region allocator | `mm-vm.c` | per VMA `vm_end`, `sbrk`, free-region list; per process symbol table `symrgtbl` | `__alloc` (ALLOC on VMA 0, MALLOC on VMA 1), `get_free_vmrg_area`, `inc_vma_limit`, `validate_overlap_vm_area`, `__free`, `__read`, `__write` |
| LRU replacement (LRU build) | `mm-vm.c` | one global LRU list under `LRU_lock` | `update_LRU_lst`, `add_LRU_page`, `find_LRU_victim_page` |
| Teardown | `mm-vm.c` | | `free_pcb_memph` (no lock taken) |
| Ready queue | `queue.c` | `proc[MAX_QUEUE_SIZE]`, `size` | `empty`, `enqueue` (exits when full), `dequeue` (shifts the array) |
| CPU | `cpu.c` | per process `pc`, registers | `run` (end-of-code test, `pc++`, dispatch to the memory calls) |
| Timer | `timer.h` | | declarations only |

How the parts interact: the loader puts processes on the ready queue. A
CPU takes one, calls `run()` once per time slot, and after its quantum
puts it back. `run()` decodes one instruction and calls the memory
operation. ALLOC/MALLOC goes to `__alloc`. It first tries the
free-region list. Otherwise it grows the VMA with `inc_vma_limit`, which
calls `vm_map_ram`. `vm_map_ram` takes RAM frames, or evicts the caller's
oldest page to swap, and maps them. READ/WRITE goes to `__read`/`__write`,
which check the offset and call `pg_getval`/`pg_setval`. Those call
`pg_getpage` to bring the page into RAM, which may evict another page.

What makes the code hard to test:
- Several processes share the RAM free list.
- Calls can fail partway through a loop.
- Swap offsets are stored in two different units.
- A lock is released on some error paths but not others.
- The free-region search never breaks out of its loop.
- `vm_end` arithmetic is asymmetric between the two VMAs.

## Modules

- **`MemPhy`**: operators over one device's free list and storage. Each
  operation holds the device mutex for its whole body, so each is atomic.
  - Storage has one value per frame.
  - A read outside the device is undefined behaviour and may return any
    value.
  - `SwapCpPage` is `__swap_cp_page`.
- **`Paging`**: FIFO demand paging for a set of processes sharing RAM.
  - Variables: RAM contents and free list; per process, swap contents,
    swap free lists, `active_mswp`, page table, FIFO queue, number of mapped
    pages (`brk`), and the holder of `MEM_in_use`. `exited` is the set of
    processes whose memory `free_pcb_memph` has released.
  - Each action is one whole call under `MEM_in_use`:
    - `MapPages`: `vm_map_ram` from `inc_vma_limit`, with
      `alloc_pages_range` and `vmap_page_range`;
    - `Write`/`Read`: `pg_setval`/`pg_getval` up to the return of
      `pg_getpage`, which releases `MEM_in_use`. `pc[p]` then holds the
      page and frame, and `SetVal`/`GetVal` are the `MEMPHY_write`/
      `MEMPHY_read` on that frame, so other processes' paging can come in
      between;
    - `Exit`: `free_pcb_memph`. It takes no lock. For a page that is not
      present it pushes the PTE's frame-number bits onto the RAM free list;
      for a present page it pushes its swap-offset bits, divided by
      `PAGESZ`, onto the active swap device, in reverse page order as
      `MEMPHY_put_freefp` prepends. Those bits are unset or belong to other fields, so they
      are drawn from the constant `PteFieldValues`. `SpecExit` adds `Exit`
      to `Spec`.
  - A routine is an operator from a state slice (a record) to the set of
    slices it can end in.
  - Partial failures keep what the loop already did.
  - The leaked lock is `memLock` left equal to the process.
- **`PagingLRU`**: the LRU build (`LRU` and `SYNC` defined).
  - One global list of nodes `[fpn, own, pgn]` (the node's PTE pointer is
    page `pgn` of process `own`).
  - `AddLruPage`, `UpdateLru` and `FindLruVictim`/`AfterFindLruVictim` are
    `add_LRU_page`, `update_LRU_lst`'s list walk and
    `find_LRU_victim_page`. Each runs under `LRU_lock` and is atomic.
  - `MapPages` is `vm_map_ram` with the LRU branches of `alloc_pages_range`
    and `vmap_page_range`. A victim may belong to another process, and its
    PTE gets the caller's swap index. It is one step (see below).
  - `pg_getpage` is four steps, cut where it calls a list routine, because
    the loop of `__alloc` runs without `MEM_in_use` and can come in
    between: `PgGetPage` (lock, read the PTE, take a free RAM frame or
    unlink the LRU head as victim), `PgSwap` (take a swap frame, or return
    -3000 through `OutOfSwapReturn`; mark the victim's PTE swapped, give
    the page its frame, push `tgtfpn` back), `PgAddLru` (`add_LRU_page`,
    which reads the PTE as it is now) and `PgReturn` (`*fpn` read from the
    PTE again, unlock). Then come `MemphyAccess` (the `MEMPHY_read/write`
    after the unlock) and `UpdateLruLst`. `pc[p]` records where process `p`
    is, with the victim and `tgtfpn` it holds.
  - `AllocReuse` starts the loop of `__alloc` over the pages of a reused
    free region. Each iteration is `AllocReadPte` (copy `current_pte`,
    keeping its frame bits once for `tgtfpn` and for the closing update;
    unlink a victim if the page is not present), `AllocSwap`, `AllocAddLru`
    and `AllocTouch` (`update_LRU_lst(&current_pte)`).
  - Statements between two list routines are grouped into one step only
    where other processes cannot see the difference. A process reads only
    its own page table, and no other process makes its pages present. The
    RAM free list shrinks only under `MEM_in_use`. Swap free lists are
    per process. Of a step's writes, only the one through `vicpte` touches
    another process's state.
  - `vm_map_ram` stays one step. Its `find_LRU_victim_page` and
    `add_LRU_page` calls could also interleave with an unlocked `__alloc`
    loop. `LruFramesUnique` and `MemLockHeldInGetPage` are kept by every
    single list routine and lock step, so the coarser step cannot hide a
    violation of them. `lru_alloc_race` already breaks `NoFrameAliasing`
    without it.
  - `fault` records a dereference of NULL (an empty list in
    `update_LRU_lst`, or an unchecked -1 from `find_LRU_victim_page`).
    After it no step is taken.
  - Page contents are not modelled.
- **`VM`**: the region allocator and VMA growth of one process, in bytes.
  - Variables: both VMAs (`start`, `end`, `sbrk`), both free lists as
    sequences (head first), the symbol table, the set of pages that have a
    PTE, a flag for a process stuck in `get_free_vmrg_area`, and ghosts
    (the page of the last accepted access and the bytes written since a
    region was allocated). `NoGhostView` leaves the ghosts out of the
    state TLC stores; no action reads them.
  - Actions are `Alloc` (`__alloc` with everything it calls), `Free`,
    `Read` and `Write`.
  - `vm_map_ram` is reduced to its outcome: it maps the pages or fails.
    `Paging` shows it can fail, because RAM is shared and a process's own
    FIFO can be empty.
  - `FirstFit` is a RECURSIVE translation of the loop in
    `get_free_vmrg_area`, including the missing `break`.
- **`AbstractAlloc`**: what the allocator promises, written without
  VMAs or free lists. Each region id is either unallocated or holds an
  interval; a new interval never overlaps a live one of the same area;
  a free returns the interval. `VM` instantiates it with a refinement
  mapping (`AbsAlloc`), and `vm_regions` checks `AbstractAllocSpec` as a
  PROPERTY. Nothing is promised across the two VMAs, because the code
  does not keep that promise (`vm_cross_vma_overlap`).
- **`Sched`**: the ready queue and the CPU loop.
  - Variables: the queue array `proc` and `size`, each process's `pc`, the
    process each CPU runs and the slots left in its quantum, the set of
    loaded processes, and `halted` (enqueue's `exit(1)`).
  - `Enqueue`, `Dequeued` (with the shift loop `Shifted`) and `Empty`
    translate `queue.c`; `Run` is `run()`'s end-of-code test and `pc++`.
  - `Load`, `Dispatch`, `Execute`, `Finish` and `Preempt` are the loader
    and the CPU loop. `os.c` and `sched.c` are not under `src/`, so these
    follow the specification's scheduling model: a CPU takes a process from
    the queue, runs one instruction per slot for `TimeSlot` slots, then
    puts it back, or drops it at the end of its code. Each queue operation
    is one step, as the scheduler serialises the queue.
  - The memory effect of an instruction is left to the memory modules; only
    `pc` advances here.
- **`FifoQueue`**: the abstract FIFO of capacity `Capacity` that the queue
  promises. `Sched` maps it with `queue <- Queued` (the first `size`
  entries of `proc`), and `sched_core` checks `FifoSpec` as a PROPERTY.
- **`Os`**: the composition of `Sched` and `Paging` through `run()`'s
  opcode switch (`cpu.c`, build with `MM_PAGING`). The two modules are
  instantiated (`S == INSTANCE Sched`, `P == INSTANCE Paging WITH pc <-
  access`, where `access` is Paging's post-unlock step) and each `Os` action
  conjoins their actions.
  - Each process runs a fixed program `Text[p]` of CALC, ALLOC, READ and
    WRITE instructions.
  - `Execute` is one time slot. It fetches the instruction at `pc`,
    advances `pc`, and calls `Syscall`, the switch:
    - CALC changes nothing;
    - ALLOC is `MapPages` (pgalloc growing the data VMA);
    - READ is `Read` (pgread) and WRITE is `Write` (pgwrite), up to
      `pg_getpage`'s return;
    - past the mapped pages, the OOM or region check fails with no effect.
  - An instruction that needs `MEM_in_use` is disabled while another CPU
    holds the lock, which is how the CPU thread blocks in
    `pthread_mutex_lock`.
  - `Complete` is the device access after the unlock, on the same CPU. A
    process is preempted or released only between instructions.
  - `Finish` releases the process and runs `free_pcb_memph`.
  - MALLOC and FREE are not in the programs. `Paging` has only the data
    VMA, and it does not model `__free`'s zeroing writes.
- **`MCPaging`, `MCPagingLRU`, `MCVM`, `MCSched`, `MCOs`**: instantiate the
  modules for TLC.

## Runs

| Run | Checks | Result |
|---|---|---|
| `paging_fifo_core` (`MCPaging.cfg`) | `TypeOK`, `NoFrameAliasing`, `FreeFramesUnmapped`, `FifoResident`, `FrameStillOwned` | pass, about 746k states; in the FIFO build the frame used after `pg_getpage`'s unlock is still the caller's |
| `paging_swap_slots` | `SwapSlotsValid` | violated: the swap offset is recorded in bytes but read as a frame number |
| `paging_exit` | `NoFrameAliasing` under `SpecExit` | violated: `free_pcb_memph` pushes garbage frame numbers onto the RAM free list, and two pages get frame 0 |
| `vm_regions` (`MCVM.cfg`) | `TypeOK`, `RegionsDisjointWithinVma`, `RegionsBelowBreak`, `AbstractAllocSpec` | pass, about 108k states; the refinement holds |
| `vm_cross_vma_overlap` | `LiveRegionsDisjoint` | violated: heap and data regions overlap |
| `vm_alloc_terminates` | `NoSpinningAlloc` | violated: any one-byte ALLOC hangs |
| `lru_core` (`MCPagingLRU.cfg`) | `TypeOK`, `LruFramesUnique`, `MemLockHeldInGetPage` under `SpecExit` | pass, about 13.6M states, 2.5 minutes; each list routine keeps one node per frame under any interleaving and teardown, and MEM_in_use is released on pg_getpage's -3000 path |
| `lru_alloc_race` (`MCPagingLRU_Race.cfg`) | `NoFrameAliasing` | violated in 12 steps: `__alloc`'s unlocked loop swaps out p2's page between p2's `pg_getpage` reading it and its `add_LRU_page`. The node added for the swapped page is later taken as a victim, and frame 0 backs two of p1's pages |
| `lru_stale_frame` | `FrameStillOwned` | violated: another process evicts the frame between `pg_getpage`'s unlock and the `MEMPHY_write` |
| `sched_core` (`MCSched.cfg`) | `TypeOK`, `PlacedOnce`, `NoQueueOverflow`, `FifoSpec`, `AllFinish` | pass, about 7.8k states, under `FairSpec` |
| `os_hang` (`MCOs.cfg`) | `ProgramsFinish` under `FairSpec` | violated: a failed growth empties p1's FIFO. p1's WRITE then returns from `pg_getpage` holding `MEM_in_use`, and p2's READ on the other CPU waits for ever |
| `lru_null_list` | `NoLruFault` | violated: `pg_getpage` unlinks a victim, returns -3000, and a later `update_LRU_lst` dereferences the empty list |

Each property of a passing run has a mutant in `PROJECT.json`. A mutant is a
plausible bug in one mapped definition, and TLC finds the property violated
under it, so the properties are not vacuous.

Further counterexample configurations. The project keeps twelve runs, but
these configurations state further properties that TLC also finds violated.
Each can be run the same way:
- `MCPaging_MemLockReleased.cfg` (`MemLockReleased`): the state right
  after the leak that `os_hang` shows to hang every CPU;
- `MCPaging_FrameAccounting.cfg` (`FrameAccounting`): a failed
  `alloc_pages_range` leaks the frames it already took;
- `MCVM_FreeListAllocExact.cfg` (`FreeListAllocExact`): the carve loop of
  `__alloc` takes more of a free region than it records;
- `MCVM_AccessMapped.cfg` (`AccessMapped`): a region is placed on a page
  with no PTE;
- `MCVM_FreedBytesZeroed.cfg` (`FreedBytesZeroed`): `__free`'s zeroing
  loop does nothing for a heap region;
- `MCPagingLRU_SwapSlotsValid.cfg` (`SwapSlotsValid`): an LRU victim of
  another process is recorded with the caller's swap index.

## Bounds

- **`MCPaging`:**
  - 2 processes (symmetric), 2 RAM frames, 2 swap devices of 3 frames each;
  - 3 pages per process, requests of 1 or 2 pages, `PAGESZ` = 2, and 2
    page values; `PteFieldValues` = {0, 2}, a frame of RAM and a number
    one past it.
  - Why this is enough:
    - Two frames for two processes give contention for RAM, eviction, and
      a process whose FIFO is empty while RAM is full.
    - With `PAGESZ` = 2 and 3 swap frames, the byte offset `swpfpn*PAGESZ`
      either hits another frame of the device (offset 2) or falls outside
      it (offset 4).
    - A two-page request can fail midway.
- **`MCPagingLRU`:**
  - 2 processes (symmetric), 2 RAM frames, swap devices of 2 frames.
  - `lru_core`: 1 swap device, 2 pages, `PteFieldValues` = {0}, and
    teardown. Four pages on two frames force evictions from a full list,
    the -3000 path (a process's device fills after two evictions), and a
    free RAM frame for `pg_getpage` (only after a teardown). Three pages
    took more than 96M states without finishing.
  - `lru_alloc_race`: the same with 3 pages and no teardown. The third
    page lets p1 grow after the race, which hands out the stale node's
    frame again. With `PteFieldValues` = {0}, the frame bits of an entry
    swapped to device 0, slot 0 read 0, as in the packed PTE.
  - The other LRU runs: 2 swap devices (so the caller's and the victim's
    swap index differ), 2 pages, `PteFieldValues` = {0, 3}.
- **`MCSched`:**
  - three processes of two instructions, two CPUs, a quantum of one
    instruction, and a queue of three slots.
  - Every process is preempted at least once, so the queue sees loads and
    re-enqueues interleaved with dequeues. The queue fills exactly when all
    three are loaded before a CPU takes one, which is the boundary for
    `NoQueueOverflow`. There is no symmetry reduction, because it is unsound
    for the liveness property.
- **`MCVM`:**
  - a 12-byte address space of three 4-byte pages;
  - two region ids, sizes 2 and 5, offsets 0 and 4;
  - free lists of at most 2 nodes (`MaxFreeNodes`, a bound on `Free`).
  - Why this is enough:
    - A size of 5 crosses a page boundary.
    - A size of 2 fits a freed 5-byte region more than once, which exercises
      the carve loop.
    - Both VMAs can grow toward each other.
  - The one-byte run uses sizes 1, 2 and 3.

- **`MCOs`:**
  - two CPUs and two programs. p1 is ALLOC 1, ALLOC 2, WRITE page 0; p2 is
    ALLOC 1, CALC, READ page 0.
  - RAM has 2 frames; each process has one swap device of 2 frames; 3
    pages; a quantum of 1 and a queue of 2.
  - These are the smallest programs that reach the leak. RAM must be full
    when p1's growth evicts its only page and then fails. A second process
    must still have a memory instruction to run when the lock is lost.
  - `PteFieldValues` = {0}. `free_pcb_memph` runs when p1 finishes. A
    frame past RAM would make the next access of it undefined, and that
    case is the subject of `paging_exit`.

## Fairness and liveness

The memory modules check safety only and assume no fairness. The hang of
`get_free_vmrg_area` is a loop with no exit. The model records it as a
state (`spinning`) and checks it with an invariant. A process may also
hold `MEM_in_use` for ever. So the memory code on its own gives no
progress guarantee that a fairness condition could rest on.

`Sched` states `FairSpec`: weak fairness on each CPU's step and on the
loading of each process. Each CPU is a thread that loops for ever, taking
one step per time slot, and the loader goes through its whole list. A
step that stays possible is therefore eventually taken. Under it,
`AllFinish` checks that every program runs to the end of its code.

`Os` states the same fairness for the CPUs running the composed programs.
Weak fairness is enough, because `MEM_in_use` is held only inside one
atomic step. An instruction waiting for the lock is therefore enabled
again right after every step, unless the lock has leaked. Under this
fairness `ProgramsFinish` is violated (`os_hang`), and the final state of
the violating behaviour stutters:
- every unfinished process sits on a CPU;
- its next instruction needs `MEM_in_use`, which a finished process still
  holds.

The passing configurations turn off the deadlock check. A process may stop
issuing operations (its program ends), a leaked `MEM_in_use` stops
everyone, after an LRU fault the simulator has crashed, and once every
program has finished the CPUs have nothing to run. The second and third
cases are checked by `ProgramsFinish` (`os_hang`) and `NoLruFault`.

## Readings of code not under src/

- `mm.h`, `os.c` and the loader are not in `src/`.
  - `PAGING_PAGE_ALIGNSZ` and `PAGING_PGN` are taken from the specification.
  - `mswp[i]` and `(struct memphy_struct*)&mswp[i]` are both read as
    "swap device i".
  - Each process has its own swap devices.
- The loader and the CPU loop (`os.c`, `sched.c`) follow the
  specification's scheduling model, as described under `Sched`.
- Large mallocs start zeroed. The uninitialised `vm_freerg_list` in
  `init_mm` is read as NULL.

## Not modelled yet (plan for later sittings)

1. **Composition with VM.** `VM` could be composed with `Paging`, with
   `vm_map_ram`'s outcome replaced by `MapPages`. Region bytes and
   `__free`'s zeroing loop would then be checked against page contents,
   and `Os` could run MALLOC and FREE. `VM` keeps one process's state in
   plain variables, so instantiating it per process would need its
   actions rewritten over a function of processes. `pgread` also assigns
   the byte to its `destination` parameter, not to a register
   (mm-vm.c:897). No register file is modelled, so this is not checked.
2. **LRU recency.** The spec's LRU property (the victim is the least
   recently touched frame) is broken by `__alloc`'s `update_LRU_lst` on a
   stale PTE copy (mm-vm.c:466). Stating it would need a thirteenth run.
   Nor does any property state what a program expects to read back: the
   lost write of a failed `pg_setval` (mm-vm.c:949) is not checked.
3. **Never modelled.** Timer: `timer.h` only declares it, and time slices
   only decide the interleaving, which `Sched` leaves to fairness. The
   sequential device mode is never created by the OS, and a device of one
   frame is excluded by an ASSUME. Printing and dumps
   have no effect on the state. Region ids beyond the symbol table
   (mm-vm.c:261, 846) depend on `PAGING_MAX_SYMTBL_SZ` and the layout of
   `mm_struct` in `mm.h`, which is not under `src/`.
