---------------------------- MODULE NodeProvider ----------------------------
(***************************************************************************)
(* ConfigureNode of package virtualk8s (src/Makefile, lines 48-90 and     *)
(* 143-168): the capacity the virtual node reports is the capacity of the *)
(* schedulable, ready nodes of the downstream cluster, minus the requests *)
(* of the pods bound to such nodes.                                        *)
(*                                                                         *)
(* Both listers read the informer cache, which the informer updates       *)
(* concurrently.  ConfigureNode lists the nodes once (line 51), lists the  *)
(* pods once (line 146), and then reads each pod's node again with        *)
(* nodeLister.Get (line 154).  Listed objects are immutable snapshots; the *)
(* Get calls see the cache as it is at that moment.  The cluster changes  *)
(* between these reads through the environment actions below.             *)
(***************************************************************************)
EXTENDS Integers, FiniteSets, FiniteSetsExt, Folds

CONSTANTS
    Nodes,       \* downstream node names
    Pods,        \* downstream pod names
    NoNode,      \* pod.Spec.NodeName == ""
    Capacity,    \* Capacity[n]: n.Status.Capacity as a resource vector
    Req,         \* Req[p]: utils.GetRequestFromPod(p).CPU
    MaxEvents    \* bound on informer updates

\* common.Resource, cut to the CPU and the pod count.
Dims == {"cpu", "pods"}

\* The phases a pod goes through here; "Absent" is a pod not in the cache.
Phases == {"Absent", "Pending", "Running", "Succeeded"}

NodeRecords == [present : BOOLEAN, unschedulable : BOOLEAN, ready : BOOLEAN]
PodRecords == [phase : Phases, nodeName : Nodes \cup {NoNode}]

VARIABLES
    nodes,          \* the node informer cache
    pods,           \* the pod informer cache
    events,         \* informer updates so far
    pc,             \* where ConfigureNode is
    nodeResource,   \* the sum of node capacities (line 56)
    podSnap,        \* the pods returned by podLister.List (line 146)
    todo,           \* pods of podSnap the loop has not reached yet
    podResource,    \* the resources used by pods (line 145)
    report,         \* the capacity set on the node (line 71)
    quiet,          \* auxiliary: no informer update since the call began
    seen            \* auxiliary: the free capacity of each cluster state
                    \* since the call began

cluster == <<nodes, pods, events>>
call == <<pc, nodeResource, podSnap, todo, podResource, report>>
vars == <<cluster, call, quiet, seen>>

-----------------------------------------------------------------------------

\* A resource vector with every dimension zero: common.NewResource().
Zero == [d \in Dims |-> 0]

\* common.Resource Add and Sub, per dimension.
AddRes(a, b) == [d \in Dims |-> a[d] + b[d]]
SubRes(a, b) == [d \in Dims |-> a[d] - b[d]]

\* The sum over a finite set S of the resource vectors f[x].
SumRes(S, f) == MapThenFoldSet(AddRes, Zero, LAMBDA x : f[x], LAMBDA T : CHOOSE x \in T : TRUE, S)

\* What a counted pod uses: its requests, and res.Pods = 1 (line 163).
Use(p) == [d \in Dims |-> IF d = "cpu" THEN Req[p] ELSE 1]

\* A node whose capacity is counted and whose pods are subtracted: not
\* Spec.Unschedulable and checkNodeStatusReady.
Usable(rec) == ~rec.unschedulable /\ rec.ready

\* The pods getResourceFromPods looks at (lines 151-152).
Occupying(rec) ==
    \/ rec.phase = "Pending" /\ rec.nodeName # NoNode
    \/ rec.phase = "Running"

\* Mutation: the node's Unschedulable and ready checks of line 159 are
\* left out.
SubtractedNoReadyCheck(rec, ns) ==
    /\ Occupying(rec)
    /\ rec.nodeName \in Nodes /\ ns[rec.nodeName].present

\* A listed pod is subtracted when nodeLister.Get of its node succeeds and
\* the node is usable (lines 153-161).
Subtracted(rec, ns) ==
    /\ Occupying(rec)
    /\ rec.nodeName \in Nodes /\ ns[rec.nodeName].present
    /\ Usable(ns[rec.nodeName])

\* The pods bound to a node and not finished.
OnNode(ps, n) == {p \in Pods : ps[p].nodeName = n /\ ps[p].phase \in {"Pending", "Running"}}

\* Reference: the free capacity of one state of the cache, the capacity of
\* the usable nodes minus what the unfinished pods bound to them use.
Free(ns, ps) ==
    LET up == {n \in Nodes : ns[n].present /\ ~ns[n].unschedulable /\ ns[n].ready}
    IN  [d \in Dims |->
           MapThenSumSet(LAMBDA n : Capacity[n][d], up)
           - MapThenSumSet(LAMBDA p : Use(p)[d], UNION {OnNode(ps, n) : n \in up})]

\* What the informer can deliver: running pods are bound, bound pods are
\* on known nodes, and a node's pods fit in its capacity.
ClusterOK(ns, ps) ==
    /\ \A p \in Pods : ps[p].phase = "Running" => ps[p].nodeName # NoNode
    /\ \A p \in Pods : ps[p].phase = "Absent" => ps[p].nodeName = NoNode
    /\ \A n \in Nodes : \A d \in Dims : SumRes(OnNode(ps, n), [p \in Pods |-> Use(p)])[d] <= Capacity[n][d]

-----------------------------------------------------------------------------
(* The downstream cluster, as the informers deliver it.  The scheduler    *)
(* binds a pod only to a usable node with room for it, so the pods on a   *)
(* node never exceed its capacity.                                        *)

\* An update takes effect; the auxiliaries record the new state.
Update(ns, ps) ==
    /\ events < MaxEvents
    /\ nodes' = ns /\ pods' = ps /\ events' = events + 1
    /\ quiet' = (quiet /\ pc = "idle")
    /\ seen' = IF pc \in {"idle", "done"} THEN seen ELSE seen \cup {Free(ns, ps)}
    /\ UNCHANGED call

\* A node appears or goes, is cordoned or uncordoned, turns ready or not.
NodeChange(n) ==
    \E rec \in NodeRecords \ {nodes[n]} : Update([nodes EXCEPT ![n] = rec], pods)

PodCreate(p) ==
    /\ pods[p].phase = "Absent"
    /\ Update(nodes, [pods EXCEPT ![p] = [phase |-> "Pending", nodeName |-> NoNode]])

PodBind(p, n) ==
    /\ pods[p] = [phase |-> "Pending", nodeName |-> NoNode]
    /\ nodes[n].present /\ Usable(nodes[n])
    /\ AddRes(SumRes(OnNode(pods, n), [q \in Pods |-> Use(q)]), Use(p)) \in
           {r \in [Dims -> Int] : \A d \in Dims : r[d] <= Capacity[n][d]}
    /\ Update(nodes, [pods EXCEPT ![p].nodeName = n])

PodStart(p) ==
    /\ pods[p].phase = "Pending" /\ pods[p].nodeName # NoNode
    /\ Update(nodes, [pods EXCEPT ![p].phase = "Running"])

PodFinish(p) ==
    /\ pods[p].phase = "Running"
    /\ Update(nodes, [pods EXCEPT ![p].phase = "Succeeded"])

-----------------------------------------------------------------------------
(* ConfigureNode.                                                         *)

\* nodeLister.List and the capacity loop (lines 51-68).  The lister reads
\* the cache and never fails.
ListNodes ==
    /\ pc = "idle"
    /\ nodeResource' = SumRes({n \in Nodes : nodes[n].present /\ Usable(nodes[n])},
                              Capacity)
    /\ pc' = "listPods"
    /\ quiet' = TRUE /\ seen' = {Free(nodes, pods)}
    /\ UNCHANGED <<cluster, podSnap, todo, podResource, report>>

\* getResourceFromPods: NewResource and podLister.List (lines 145-149).
ListPods ==
    /\ pc = "listPods"
    /\ podResource' = Zero
    /\ podSnap' = pods
    /\ todo' = {p \in Pods : pods[p].phase # "Absent"}
    /\ pc' = "podLoop"
    /\ UNCHANGED <<cluster, nodeResource, report, quiet, seen>>

\* Mutation: podResource.Sub in place of podResource.Add.
CountPodSub(p) ==
    /\ pc = "podLoop" /\ p \in todo
    /\ podResource' = IF Subtracted(podSnap[p], nodes)
                      THEN SubRes(podResource, Use(p)) ELSE podResource
    /\ todo' = todo \ {p}
    /\ UNCHANGED <<cluster, pc, nodeResource, podSnap, report, quiet, seen>>

\* One iteration of the pod loop (lines 150-165), in the lister's order.
\* The pod is the listed snapshot; its node is read from the cache now.
CountPod(p) ==
    /\ pc = "podLoop" /\ p \in todo
    /\ podResource' = IF Subtracted(podSnap[p], nodes)
                      THEN AddRes(podResource, Use(p)) ELSE podResource
    /\ todo' = todo \ {p}
    /\ UNCHANGED <<cluster, pc, nodeResource, podSnap, report, quiet, seen>>

\* nodeResource.Sub(podResource), SetCapacityToNode, configured = true
\* (lines 69-71, 87-88).
SetCapacity ==
    /\ pc = "podLoop" /\ todo = {}
    /\ report' = SubRes(nodeResource, podResource)
    /\ pc' = "done"
    /\ UNCHANGED <<cluster, nodeResource, podSnap, todo, podResource, quiet, seen>>

\* The cluster has stopped changing and the node is configured.
Finished == pc = "done" /\ events = MaxEvents /\ UNCHANGED vars

Init ==
    /\ nodes \in [Nodes -> NodeRecords]
    /\ pods \in {ps \in [Pods -> PodRecords] : ClusterOK(nodes, ps)}
    /\ events = 0
    /\ pc = "idle" /\ nodeResource = Zero /\ podResource = Zero
    /\ podSnap = pods /\ todo = {} /\ report = Zero
    /\ quiet = TRUE /\ seen = {}

Next ==
    \/ \E n \in Nodes : NodeChange(n)
    \/ \E p \in Pods : PodCreate(p) \/ PodStart(p) \/ PodFinish(p)
    \/ \E p \in Pods, n \in Nodes : PodBind(p, n)
    \/ ListNodes \/ ListPods \/ SetCapacity
    \/ \E p \in Pods : CountPod(p)
    \/ Finished

Spec == Init /\ [][Next]_vars

-----------------------------------------------------------------------------
(* Properties.                                                            *)

TypeOK ==
    /\ nodes \in [Nodes -> NodeRecords] /\ pods \in [Pods -> PodRecords]
    /\ events \in 0..MaxEvents
    /\ pc \in {"idle", "listPods", "podLoop", "done"}
    /\ nodeResource \in [Dims -> Nat] /\ podResource \in [Dims -> Nat]
    /\ podSnap \in [Pods -> PodRecords] /\ todo \subseteq Pods
    /\ report \in [Dims -> Int]
    /\ quiet \in BOOLEAN

\* When the cache does not change while ConfigureNode runs, the capacity
\* it sets is the free capacity of the cluster: the node loop, the pod
\* loop's phase filter and its per-pod node lookup count exactly the
\* usable nodes and the unfinished pods bound to them.
QuiescentExact ==
    pc = "done" /\ quiet => report = Free(nodes, pods)

\* The capacity ConfigureNode sets is the free capacity of the cluster in
\* some state it passed through while ConfigureNode ran; the node list of
\* line 51 and the nodeLister.Get calls of line 154 read the cache at
\* different times.
ReportsSomeSnapshot ==
    pc = "done" => report \in seen

=============================================================================
