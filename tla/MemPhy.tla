------------------------------- MODULE MemPhy -------------------------------
(***************************************************************************)
(* PhysicalStore (src/src/mm-memphy.c).  One memphy_struct device is       *)
(* modelled by two values that the modules using it keep in their own     *)
(* variables:                                                              *)
(*   - its free-frame list free_fp_list, a sequence of frame numbers whose *)
(*     head is the node MEMPHY_get_freefp pops next;                       *)
(*   - its storage, abstracted to one value per frame, a function from the *)
(*     frame numbers 0 .. maxsz/pagesz - 1 to Values.                      *)
(* Every operation takes and releases mp->mutex around its own body, so    *)
(* each is one atomic step here.  A frame number outside the storage is    *)
(* an out-of-bounds access in the C code: a read of it may return any      *)
(* value, and a write of it changes no modelled frame.                     *)
(***************************************************************************)
EXTENDS Naturals, Sequences

CONSTANT Values    \* the contents a frame can hold

\* MEMPHY_format via init_memphy: the free list holds every frame number
\* 0 .. numfp-1 in ascending order.  With numfp = 1 the single node's
\* fp_next is never initialised, so callers assume numfp >= 2.
Format(numfp) == [i \in 1 .. numfp |-> i - 1]

\* Mutant of MEMPHY_get_freefp: the head node is read but not unlinked.
AfterGetFreeFpKeep(free) == free

\* MEMPHY_get_freefp: fails (returns -1) on an empty list, otherwise pops
\* the head node and returns its frame number.
HasFreeFp(free) == free # << >>
GetFreeFp(free) == Head(free)
AfterGetFreeFp(free) == Tail(free)

\* MEMPHY_put_freefp: pushes a node for fpn at the head, with no check that
\* fpn is a frame of the device or is not already on the list.
PutFreeFp(free, fpn) == << fpn >> \o free

\* MEMPHY_read on a random-access device: the values the read can return.
ReadFrame(data, fpn) == IF fpn \in DOMAIN data THEN {data[fpn]} ELSE Values

\* MEMPHY_write on a random-access device.
WriteFrame(data, fpn, v) ==
    IF fpn \in DOMAIN data THEN [data EXCEPT ![fpn] = v] ELSE data

\* __swap_cp_page (mm.c): copies frame srcfpn of one device into frame
\* dstfpn of another through MEMPHY_read/MEMPHY_write; the set of storages
\* the destination can end up with.
SwapCpPage(src, srcfpn, dst, dstfpn) ==
    { WriteFrame(dst, dstfpn, v) : v \in ReadFrame(src, srcfpn) }
=============================================================================
