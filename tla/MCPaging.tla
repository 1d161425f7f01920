------------------------------ MODULE MCPaging ------------------------------
(***************************************************************************)
(* Model-checking instance of Paging: two processes share a RAM of two     *)
(* frames, so one process's growth or fault finds the RAM taken by the     *)
(* other; each process has two swap devices of three frames, so the       *)
(* active device fills and is switched; three pages per process and        *)
(* growths of up to two pages reach eviction inside one growth.  PAGESZ   *)
(* is 2 so that a swap offset recorded in bytes (frame * PAGESZ) names     *)
(* another frame of the device for frame 1 and no frame for frame 2, the  *)
(* two cases a real device of 2^k pages of 256 bytes has.                 *)
(* PTE fields read against their flags by free_pcb_memph read as 0 or as  *)
(* the first frame number past the RAM.                                   *)
(***************************************************************************)
EXTENDS Paging, TLC

CONSTANTS p1, p2, v0, v1

MCProcs == {p1, p2}
MCValues == {v0, v1}

\* A never-initialised entry most often reads as 0 (fresh pages from the
\* allocator are zero), and a field holding other bits can name a frame
\* past the end of RAM.
MCPteFieldValues == {0, NumRamFrames}

Symmetry == Permutations(MCProcs)
=============================================================================
