----------------------------- MODULE NodeStatus -----------------------------
(***************************************************************************)
(* NotifyNodeStatus of package virtualk8s (src/Makefile, lines 109-131): *)
(* it starts one goroutine and returns; the goroutine selects between an  *)
(* updated node on v.updatedNode, which it hands to the callback f, and   *)
(* the closing of v.stopCh or of ctx.Done(), on which it returns.          *)
(*                                                                         *)
(* The senders on v.updatedNode, its capacity, and the closing of stopCh  *)
(* are outside src/; they are the environment here.  A node update is     *)
(* abstracted to its sequence number.                                      *)
(***************************************************************************)
EXTENDS Naturals, Sequences

CONSTANTS
    ChanCap,     \* the buffer of v.updatedNode
    MaxSends     \* bound on node updates sent

VARIABLES
    updatedNode,   \* the buffered channel, oldest first
    sent,          \* updates sent so far (the next one is sent + 1)
    delivered,     \* the updates f has been called with, in order
    gpc,           \* the goroutine: "none", "select", "callback", "exited"
    cur,           \* the node the goroutine is passing to f
    stopped,       \* v.stopCh is closed
    cancelled      \* ctx is done

vars == <<updatedNode, sent, delivered, gpc, cur, stopped, cancelled>>

Init ==
    /\ updatedNode = <<>> /\ sent = 0 /\ delivered = <<>>
    /\ gpc = "none" /\ cur = 0
    /\ stopped = FALSE /\ cancelled = FALSE

-----------------------------------------------------------------------------
(* The environment.                                                       *)

\* A node update is sent; the send blocks while the buffer is full.
Send ==
    /\ sent < MaxSends /\ Len(updatedNode) < ChanCap
    /\ updatedNode' = Append(updatedNode, sent + 1)
    /\ sent' = sent + 1
    /\ UNCHANGED <<delivered, gpc, cur, stopped, cancelled>>

\* close(v.stopCh).
Stop ==
    /\ ~stopped /\ stopped' = TRUE
    /\ UNCHANGED <<updatedNode, sent, delivered, gpc, cur, cancelled>>

\* The caller's context is cancelled.
Cancel ==
    /\ ~cancelled /\ cancelled' = TRUE
    /\ UNCHANGED <<updatedNode, sent, delivered, gpc, cur, stopped>>

-----------------------------------------------------------------------------
(* NotifyNodeStatus and its goroutine.                                    *)

\* NotifyNodeStatus: go func() {...} and return (lines 116-131).
NotifyNodeStatus ==
    /\ gpc = "none" /\ gpc' = "select"
    /\ UNCHANGED <<updatedNode, sent, delivered, cur, stopped, cancelled>>

\* Mutation: the received node is dropped instead of passed to f.
ReceiveDrop ==
    /\ gpc = "select" /\ updatedNode # <<>>
    /\ updatedNode' = Tail(updatedNode)
    /\ UNCHANGED <<sent, delivered, gpc, cur, stopped, cancelled>>

\* case node := <-v.updatedNode (line 121).
Receive ==
    /\ gpc = "select" /\ updatedNode # <<>>
    /\ cur' = Head(updatedNode) /\ updatedNode' = Tail(updatedNode)
    /\ gpc' = "callback"
    /\ UNCHANGED <<sent, delivered, stopped, cancelled>>

Callback ==
    /\ gpc = "callback"
    /\ delivered' = Append(delivered, cur)
    /\ gpc' = "select" /\ cur' = 0
    /\ UNCHANGED <<updatedNode, sent, stopped, cancelled>>

\* Mutation: the ctx.Done() case is missing.
ReturnStopOnly ==
    /\ gpc = "select" /\ stopped
    /\ gpc' = "exited"
    /\ UNCHANGED <<updatedNode, sent, delivered, cur, stopped, cancelled>>

\* case <-v.stopCh / case <-ctx.Done(): return (lines 124-127).
Return ==
    /\ gpc = "select" /\ (stopped \/ cancelled)
    /\ gpc' = "exited"
    /\ UNCHANGED <<updatedNode, sent, delivered, cur, stopped, cancelled>>

\* Nothing is left to do: every update sent, both channels closed, and
\* the goroutine gone.
Done ==
    /\ sent = MaxSends /\ stopped /\ cancelled /\ gpc = "exited"
    /\ UNCHANGED vars

Goroutine == Receive \/ Callback \/ Return

Next == Send \/ Stop \/ Cancel \/ NotifyNodeStatus \/ Goroutine \/ Done

Spec == Init /\ [][Next]_vars

\* Go schedules the goroutine and f returns; select picks among the ready
\* cases at random, so a case that stays ready is taken eventually.  The
\* call of NotifyNodeStatus, the senders, the stop and the cancellation
\* are callers: no fairness.
FairSpec ==
    /\ Spec
    /\ WF_vars(Receive) /\ WF_vars(Callback) /\ WF_vars(Return)

-----------------------------------------------------------------------------
(* Properties.                                                            *)

\* Once NotifyNodeStatus has been called, every node update sent (before
\* or after the call) reaches f, in the order sent, unless the goroutine
\* is told to stop first: the goroutine neither drops nor reorders what it
\* takes from v.updatedNode.
UpdatesReachCallback ==
    \A k \in 1..MaxSends :
        (sent >= k /\ gpc # "none")
            ~> (Len(delivered) >= k /\ delivered[k] = k) \/ stopped \/ cancelled

\* Once v.stopCh is closed or ctx is done, the goroutine returns: it does
\* not leak, whichever of the two is closed.
GoroutineReturns ==
    (gpc # "none" /\ (stopped \/ cancelled)) ~> gpc = "exited"

=============================================================================
