------------------------------ MODULE FifoQueue ------------------------------
(***************************************************************************)
(* What a ready queue promises its users: processes come out in the order *)
(* they went in, each once, and no more than Capacity are held at a time.  *)
(* The queue of src/src/queue.c (an array and a size) is shown to          *)
(* implement it in Sched.                                                  *)
(***************************************************************************)
EXTENDS Naturals, Sequences

CONSTANTS Items, Capacity

VARIABLE queue

Init == queue = <<>>

\* A process is appended at the back while there is room.
Put(x) == Len(queue) < Capacity /\ queue' = Append(queue, x)

\* The process at the front is taken out.
Take == queue # <<>> /\ queue' = Tail(queue)

Next == (\E x \in Items : Put(x)) \/ Take

Spec == Init /\ [][Next]_queue
=============================================================================
