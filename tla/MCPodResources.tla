--------------------------- MODULE MCPodResources ---------------------------
(* PodResources over two resources and small pods: up to two app         *)
(* containers and one init container, each list drawn from four lists    *)
(* that cover a missing name, a zero quantity, and sums that an init      *)
(* container does or does not exceed.                                     *)
EXTENDS PodResources

CONSTANTS cpu, mem

MCResources == {cpu, mem}

\* The resource lists a container may carry.
MCLists ==
    { [n \in {} |-> 0],
      [n \in {cpu} |-> 1],
      [n \in {cpu, mem} |-> IF n = cpu THEN 2 ELSE 0],
      [n \in {mem} |-> 1] }

MCContainers == [requests : MCLists, limits : MCLists]

MCOverheads ==
    {Nil, [n \in {cpu} |-> 1], [n \in {mem} |-> 1], [n \in {cpu, mem} |-> 1]}

MCPods ==
    [containers : UNION {[1..n -> MCContainers] : n \in 0..2},
     initContainers : UNION {[1..n -> MCContainers] : n \in 0..1},
     overhead : MCOverheads]

=============================================================================
