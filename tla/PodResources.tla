---------------------------- MODULE PodResources ----------------------------
(***************************************************************************)
(* PodRequestsAndLimits of package utils (src/unnamed/part_000): the      *)
(* requests and limits of a pod, summed over its containers, raised to    *)
(* the largest init container, plus the pod overhead when the PodOverhead *)
(* feature gate is on.                                                    *)
(*                                                                         *)
(* The function is a sequence of loops; each iteration is one action, so  *)
(* the state is the pod being read, the two accumulated lists and the     *)
(* position in the loops.  When it returns, the lists are compared with a *)
(* reference definition of the effective requests and limits.             *)
(***************************************************************************)
EXTENDS Integers, Sequences, SequencesExt

CONSTANTS
    Resources,   \* resource names (model values)
    Pods,        \* the pods to compute for
    Nil          \* a nil pod.Spec.Overhead

\* corev1.ResourceList: a map from some resource names to quantities.
ResourceList == UNION {[D -> Nat] : D \in SUBSET Resources}

VARIABLES
    pod,      \* the argument
    gate,     \* utilfeature.DefaultFeatureGate.Enabled("PodOverhead")
    reqs,     \* the requests accumulated so far
    limits,   \* the limits accumulated so far
    loop,     \* which loop of the function runs
    i         \* the container the loop is at

vars == <<pod, gate, reqs, limits, loop, i>>

TypeOK ==
    /\ pod \in Pods /\ gate \in BOOLEAN
    /\ DOMAIN reqs \subseteq Resources /\ \A r \in DOMAIN reqs : reqs[r] \in Nat
    /\ DOMAIN limits \subseteq Resources /\ \A r \in DOMAIN limits : limits[r] \in Nat
    /\ loop \in {"containers", "initContainers", "overhead", "done"}
    /\ i \in Nat

-----------------------------------------------------------------------------

\* Mutation: a present quantity is decreased (Sub for Add).
AddResourceListSub(list, newList) ==
    [n \in DOMAIN list \cup DOMAIN newList |->
        IF n \in DOMAIN list /\ n \in DOMAIN newList THEN list[n] - newList[n]
        ELSE IF n \in DOMAIN list THEN list[n] ELSE newList[n]]

\* addResourceList: a name missing from list is copied in, a present one
\* is increased by the new quantity.
AddResourceList(list, newList) ==
    [n \in DOMAIN list \cup DOMAIN newList |->
        IF n \in DOMAIN list /\ n \in DOMAIN newList THEN list[n] + newList[n]
        ELSE IF n \in DOMAIN list THEN list[n] ELSE newList[n]]

\* Mutation: the comparison of maxResourceList is reversed.
MaxResourceListReversed(list, new) ==
    [n \in DOMAIN list \cup DOMAIN new |->
        IF n \notin DOMAIN new THEN list[n]
        ELSE IF n \notin DOMAIN list \/ new[n] < list[n] THEN new[n]
        ELSE list[n]]

\* maxResourceList: for each name of new, list takes the greater quantity
\* (a missing name is copied in); names only in list are left alone.
MaxResourceList(list, new) ==
    [n \in DOMAIN list \cup DOMAIN new |->
        IF n \notin DOMAIN new THEN list[n]
        ELSE IF n \notin DOMAIN list \/ new[n] > list[n] THEN new[n]
        ELSE list[n]]

\* The overhead is added to every limit that is present and non-zero.
AddOverheadToLimits(lim, overhead) ==
    [n \in DOMAIN lim |->
        IF n \in DOMAIN overhead /\ lim[n] # 0 THEN lim[n] + overhead[n]
        ELSE lim[n]]

-----------------------------------------------------------------------------

Init ==
    /\ pod \in Pods /\ gate \in BOOLEAN
    /\ reqs = [n \in {} |-> 0] /\ limits = [n \in {} |-> 0]
    /\ loop = "containers" /\ i = 1

\* One iteration over pod.Spec.Containers.
AddContainer ==
    /\ loop = "containers" /\ i <= Len(pod.containers)
    /\ reqs' = AddResourceList(reqs, pod.containers[i].requests)
    /\ limits' = AddResourceList(limits, pod.containers[i].limits)
    /\ i' = i + 1
    /\ UNCHANGED <<pod, gate, loop>>

\* One iteration over pod.Spec.InitContainers.
MaxInitContainer ==
    /\ loop = "initContainers" /\ i <= Len(pod.initContainers)
    /\ reqs' = MaxResourceList(reqs, pod.initContainers[i].requests)
    /\ limits' = MaxResourceList(limits, pod.initContainers[i].limits)
    /\ i' = i + 1
    /\ UNCHANGED <<pod, gate, loop>>

\* A range loop ends after its last element.
NextLoop ==
    /\ \/ loop = "containers" /\ i > Len(pod.containers)
          /\ loop' = "initContainers"
       \/ loop = "initContainers" /\ i > Len(pod.initContainers)
          /\ loop' = "overhead"
    /\ i' = 1
    /\ UNCHANGED <<pod, gate, reqs, limits>>

\* The overhead step, then return.
AddOverhead ==
    /\ loop = "overhead"
    /\ \/ /\ pod.overhead # Nil /\ gate
          /\ reqs' = AddResourceList(reqs, pod.overhead)
          /\ limits' = AddOverheadToLimits(limits, pod.overhead)
       \/ /\ pod.overhead = Nil \/ ~gate
          /\ UNCHANGED <<reqs, limits>>
    /\ loop' = "done"
    /\ UNCHANGED <<pod, gate, i>>

\* The call has returned.
Returned == loop = "done" /\ UNCHANGED vars

Next == AddContainer \/ MaxInitContainer \/ NextLoop \/ AddOverhead \/ Returned

Spec == Init /\ [][Next]_vars

-----------------------------------------------------------------------------
(* Reference: the effective request of a resource is the larger of the    *)
(* sum over the app containers and the largest init container, plus the   *)
(* overhead; a limit gets the overhead only if it is set and non-zero.    *)

\* The sum of the quantities of r over the lists of a sequence.
RECURSIVE SumOf(_, _)
SumOf(lists, r) ==
    IF lists = <<>> THEN 0
    ELSE (IF r \in DOMAIN Head(lists) THEN Head(lists)[r] ELSE 0)
         + SumOf(Tail(lists), r)

\* The resources set by some list of a sequence.
NamesOf(lists) == UNION {DOMAIN lists[j] : j \in 1..Len(lists)}

\* The effective list over app and init container lists, before overhead.
Effective(app, init) ==
    [r \in NamesOf(app) \cup NamesOf(init) |->
        LET sum == SumOf(app, r)
            top == {init[j][r] : j \in {j \in 1..Len(init) : r \in DOMAIN init[j]}}
        IN  IF top = {} THEN sum
            ELSE IF r \notin NamesOf(app) THEN Max(top)
            ELSE Max(top \cup {sum})]

RequestsOf(cs) == [j \in 1..Len(cs) |-> cs[j].requests]
LimitsOf(cs) == [j \in 1..Len(cs) |-> cs[j].limits]

OverheadOn == pod.overhead # Nil /\ gate

RefRequests ==
    LET eff == Effective(RequestsOf(pod.containers), RequestsOf(pod.initContainers))
    IN  IF OverheadOn
        THEN [r \in DOMAIN eff \cup DOMAIN pod.overhead |->
                SumOf(<<eff, pod.overhead>>, r)]
        ELSE eff

RefLimits ==
    LET eff == Effective(LimitsOf(pod.containers), LimitsOf(pod.initContainers))
    IN  [r \in DOMAIN eff |->
           IF OverheadOn /\ r \in DOMAIN pod.overhead /\ eff[r] # 0
           THEN eff[r] + pod.overhead[r] ELSE eff[r]]

\* When PodRequestsAndLimits returns, its requests and limits are the
\* effective ones: the per-container loops with addResourceList and
\* maxResourceList, whatever the order of the containers and of Go's map
\* iteration, agree with the closed form, and the overhead reaches the
\* requests and only the non-zero limits.
MatchesReference ==
    loop = "done" => reqs = RefRequests /\ limits = RefLimits

=============================================================================
