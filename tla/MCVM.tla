-------------------------------- MODULE MCVM --------------------------------
(***************************************************************************)
(* VM for TLC: a 12-byte address space of three 4-byte pages, two region  *)
(* ids, and sizes that fit a page, straddle pages and leave remainders on  *)
(* the free list.                                                          *)
(***************************************************************************)
EXTENDS VM

MCSizes == {2, 5}
MCSizesOne == {1, 2, 3}
MCOffsets == {0, 4}

\* The ghosts acc and dirty are never read by an action, so runs whose
\* properties do not mention them may identify states that differ only
\* in the ghosts.
NoGhostView == <<vma, freerg, symrg, mapped, spinning>>
=============================================================================
