---------------------------- MODULE MCPagingLRU ----------------------------
(***************************************************************************)
(* Model-checking instance of PagingLRU: two processes share a RAM of two  *)
(* frames, so a fault or growth of one process evicts the other's page     *)
(* from the head of the shared list.  MCPagingLRU.cfg gives each process   *)
(* one swap device of two frames and three pages, so a growth can find    *)
(* the device full and fail halfway; the teardown and violation configs    *)
(* give two devices (the active one fills and is switched) and two pages.  *)
(* The FPN bits of a non-present entry read as 0 or as a number past every *)
(* device; MCPagingLRU.cfg keeps only 0, the value of an entry whose swap  *)
(* fields are 0 or that was never set, to stay within reach of TLC.        *)
(***************************************************************************)
EXTENDS PagingLRU, TLC

CONSTANTS p1, p2

MCProcs == {p1, p2}

MCPteFieldValues == {0, 3}
MCPteFieldZero == {0}

Symmetry == Permutations(MCProcs)
=============================================================================
