---------------------------- MODULE ManagedHeap ----------------------------
(***************************************************************************)
(* What garbage-collected memory promises to a program: the program sees   *)
(* objects it holds already and objects just made for it, everything it    *)
(* can reach is allocated, and reclaiming takes only what it cannot reach. *)
(***************************************************************************)
CONSTANT Addr

VARIABLES
    allocated,   \* addresses whose memory is allocated
    inUse        \* addresses the program can still reach

vars == <<allocated, inUse>>

Init == inUse \subseteq allocated /\ allocated \subseteq Addr

\* A step of the program: what it gives up stays allocated and never comes back.
Work ==
    /\ allocated \subseteq allocated'
    /\ allocated' \subseteq Addr
    /\ inUse' \subseteq inUse \cup (allocated' \ allocated)

Reclaim == \E S \in SUBSET (allocated \ inUse) :
    /\ allocated' = allocated \ S
    /\ inUse' = inUse

\* The end of the program: it holds nothing any more, whatever is left may go.
Exit == inUse' = {} /\ allocated' \subseteq allocated

Next == Work \/ Reclaim \/ Exit
Spec == Init /\ [][Next]_vars
=============================================================================
