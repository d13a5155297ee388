--------------------------- MODULE MCNodeProvider ---------------------------
(* NodeProvider with two downstream nodes of different sizes and two pods *)
(* of one CPU each, so that a pod fits on either node and both fit only on *)
(* the larger one.                                                         *)
EXTENDS NodeProvider, TLC

CONSTANTS n1, n2, p1, p2

MCNodes == {n1, n2}
MCPods == {p1, p2}
MCCapacity == (n1 :> [d \in Dims |-> 2]) @@ (n2 :> [d \in Dims |-> 1])
MCReq == [p \in MCPods |-> 1]

=============================================================================
