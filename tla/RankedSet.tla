----------------------------- MODULE RankedSet ------------------------------
(***************************************************************************)
(* What LocHeap promises its users: a set of nodes and, while it is not    *)
(* empty, a top that no node outranks.  A node that does not outrank the   *)
(* top leaves it in place, whether it comes or goes.                       *)
(***************************************************************************)
CONSTANTS Nodes, outRanks(_, _), NULL

VARIABLES heap, top,
          call      \* the last call: its name, its argument, what it returned

Best(S) == IF S = {} THEN {NULL}
           ELSE {n \in S : \A m \in S : ~outRanks(m, n)}

Init == heap = {} /\ top = NULL /\ call = <<NULL, NULL, NULL>>

pushed(n) == /\ heap' = heap \cup {n}
             /\ top' = IF top = NULL \/ outRanks(n, top) THEN n ELSE top

popped == /\ heap' = heap \ {top}
          /\ top' \in Best(heap')

removed(n) == /\ heap' = heap \ {n}
              /\ IF n = top THEN top' \in Best(heap') ELSE UNCHANGED top

push(n) == n \notin heap /\ pushed(n) /\ call' = <<"push", n, NULL>>
pop == popped /\ call' = <<"pop", NULL, top>>
remove(n) == removed(n) /\ call' = <<"remove", n, IF n \in heap THEN n ELSE NULL>>

Next == pop \/ \E n \in Nodes : push(n) \/ remove(n)

Spec == Init /\ [][Next]_<<heap, top, call>>
=============================================================================
