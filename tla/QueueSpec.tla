----------------------------- MODULE QueueSpec -----------------------------
(***************************************************************************)
(* What the work queue promises about each key, without time, order,      *)
(* workers or the rate limiter: the per-key state machine of the queue    *)
(* (absent, pending, inFlight), with the two marks an in-flight key       *)
(* carries until its handler returns: re-dirtied by an enqueue, and       *)
(* forgotten.                                                             *)
(*                                                                         *)
(*   absent   --enqueue-->           pending                               *)
(*   pending  --taken by a worker--> inFlight                              *)
(*   pending  --forget-->            absent                                *)
(*   inFlight --enqueue-->           inFlight, re-dirtied                  *)
(*   inFlight --forget-->            inFlight, forgotten                   *)
(*   inFlight --completion-->        absent if forgotten, else pending if  *)
(*                                   re-dirtied, else absent or pending    *)
(*                                   (a failed call is retried)            *)
(***************************************************************************)
CONSTANTS Keys

VARIABLES status, redirty, forget

vars == <<status, redirty, forget>>

Status == {"absent", "pending", "inFlight"}

TypeOK ==
    /\ status \in [Keys -> Status]
    /\ redirty \in [Keys -> BOOLEAN] /\ forget \in [Keys -> BOOLEAN]
    /\ \A k \in Keys : status[k] # "inFlight" => ~redirty[k] /\ ~forget[k]

Init ==
    /\ status = [k \in Keys |-> "absent"]
    /\ redirty = [k \in Keys |-> FALSE] /\ forget = [k \in Keys |-> FALSE]

\* Enqueue, with or without rate limit or delay: a key is pending once,
\* and an enqueue while it is handled is remembered, undoing a forget.
Add(k) ==
    \/ /\ status[k] \in {"absent", "pending"}
       /\ status' = [status EXCEPT ![k] = "pending"]
       /\ UNCHANGED <<redirty, forget>>
    \/ /\ status[k] = "inFlight"
       /\ redirty' = [redirty EXCEPT ![k] = TRUE]
       /\ forget' = [forget EXCEPT ![k] = FALSE]
       /\ UNCHANGED status

Forget(k) ==
    \/ /\ status[k] = "pending"
       /\ status' = [status EXCEPT ![k] = "absent"]
       /\ UNCHANGED <<redirty, forget>>
    \/ /\ status[k] = "inFlight"
       /\ forget' = [forget EXCEPT ![k] = TRUE]
       /\ UNCHANGED <<status, redirty>>

\* A worker takes the key; it is handled with no marks.
Take(k) ==
    /\ status[k] = "pending"
    /\ status' = [status EXCEPT ![k] = "inFlight"]
    /\ UNCHANGED <<redirty, forget>>

\* The handler returns and the completion decides the key's fate; the
\* marks go with the in-flight item.
Outcomes(k) ==
    IF forget[k] THEN {"absent"}
    ELSE IF redirty[k] THEN {"pending"}
    ELSE {"absent", "pending"}

Complete(k) ==
    /\ status[k] = "inFlight"
    /\ \E s \in Outcomes(k) : status' = [status EXCEPT ![k] = s]
    /\ redirty' = [redirty EXCEPT ![k] = FALSE]
    /\ forget' = [forget EXCEPT ![k] = FALSE]

Next == \E k \in Keys : Add(k) \/ Forget(k) \/ Take(k) \/ Complete(k)

Spec == Init /\ [][Next]_vars

=============================================================================
