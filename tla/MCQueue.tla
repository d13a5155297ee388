------------------------------ MODULE MCQueue ------------------------------
(* Instantiates Queue for TLC: two keys, two workers, three retries.       *)
EXTENDS Queue, TLC

\* The rate limiter's backoff: 0 for a new key, then 1 and 2 ticks.
MCRLDelay == [n \in 0..2 |-> n]

\* Keys and workers are interchangeable model values (safety runs only).
Symmetry == Permutations(Keys) \cup Permutations(Workers)

=============================================================================
