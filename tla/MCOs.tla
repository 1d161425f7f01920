-------------------------------- MODULE MCOs --------------------------------
(***************************************************************************)
(* Os for TLC: two programs on two CPUs sharing a RAM of two frames.  p1   *)
(* maps one page, then grows by two pages (which needs a frame that p2's  *)
(* first page may have taken) and writes its first page; p2 maps one page *)
(* and reads it.  Each process has one swap device of two frames.          *)
(***************************************************************************)
EXTENDS Os, TLC

CONSTANTS p1, p2, c1, c2, v0, v1

MCProcs == {p1, p2}
MCCpus == {c1, c2}
MCValues == {v0, v1}
\* free_pcb_memph's reads of never-initialised PTE fields give 0 here: a
\* frame past the end of RAM (the subject of MCPaging_Exit.cfg) would make
\* the next MEMPHY access of it undefined.
MCPteFieldValues == {0}

MCText ==
    p1 :> << [op |-> "ALLOC", arg |-> 1], [op |-> "ALLOC", arg |-> 2],
             [op |-> "WRITE", arg |-> 0, val |-> v1] >>
 @@ p2 :> << [op |-> "ALLOC", arg |-> 1], [op |-> "CALC"],
             [op |-> "READ", arg |-> 0] >>
=============================================================================
