------------------------------- MODULE MCSched -------------------------------
(***************************************************************************)
(* Sched for TLC: three processes of two instructions on two CPUs with a  *)
(* quantum of one instruction, so that every process is preempted and     *)
(* queued again, and a queue of exactly three slots, which fills when all  *)
(* processes are loaded before a CPU takes one.                            *)
(***************************************************************************)
EXTENDS Sched

CONSTANTS p1, p2, p3, c1, c2

MCProcs == {p1, p2, p3}
MCCpus == {c1, c2}
MCCodeSize == [p \in MCProcs |-> 2]
=============================================================================
