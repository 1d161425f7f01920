---------------------------- MODULE AbstractAlloc ----------------------------
(***************************************************************************)
(* What the region allocator promises a process (spec section 4.3): an    *)
(* ALLOC or MALLOC of size bytes gives the region id a run of size        *)
(* consecutive addresses of the address space that no other live region   *)
(* of the same VMA holds, and FREE takes the addresses back.  A region id *)
(* that is allocated again simply gets the new run.  Nothing is promised  *)
(* across the two VMAs here: that is LiveRegionsDisjoint in VM, which the *)
(* code violates.                                                          *)
(***************************************************************************)
EXTENDS Integers

CONSTANTS
    Addrs,      \* the addresses of the virtual address space
    Rgids,      \* region ids
    VmaIds,     \* the VMAs
    Sizes       \* request sizes

VARIABLES
    owned,      \* owned[r]: the addresses region r holds ({} when unused)
    vmaOf       \* vmaOf[r]: the VMA region r was allocated in

vars == <<owned, vmaOf>>

\* The runs of size consecutive addresses.
Runs(size) == { a .. a + size - 1 : a \in Addrs } \cap SUBSET Addrs

Init ==
    /\ owned = [r \in Rgids |-> {}]
    /\ vmaOf \in [Rgids -> VmaIds]

Alloc(r, i, size) ==
    \E run \in Runs(size) :
        /\ \A q \in Rgids \ {r} : vmaOf[q] = i => run \cap owned[q] = {}
        /\ owned' = [owned EXCEPT ![r] = run]
        /\ vmaOf' = [vmaOf EXCEPT ![r] = i]

Free(r) ==
    /\ owned[r] # {}
    /\ owned' = [owned EXCEPT ![r] = {}]
    /\ UNCHANGED vmaOf

Next ==
    \E r \in Rgids :
        \/ \E i \in VmaIds, size \in Sizes : Alloc(r, i, size)
        \/ Free(r)

Spec == Init /\ [][Next]_vars
=============================================================================
