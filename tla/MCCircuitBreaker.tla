-------------------------- MODULE MCCircuitBreaker --------------------------
(* Instances of CircuitBreaker for TLC.                                     *)
EXTENDS CircuitBreaker, TLC

\* Thresholds small enough to be reached, the error rate reachable before the
\* run of failures (3 requests, 2 of them failed, never 2 in a row).
Usual == [failure_threshold |-> 2, success_threshold |-> 2, timeout |-> 1,
          rate_num |-> 3, rate_den |-> 5, min_requests |-> 3]

\* What the user may switch to: a longer time-out, one success closes.
Patient == [failure_threshold |-> 2, success_threshold |-> 1, timeout |-> 2,
            rate_num |-> 1, rate_den |-> 1, min_requests |-> 2]

\* For the liveness run: one failure opens, one success closes.
Touchy == [failure_threshold |-> 1, success_threshold |-> 1, timeout |-> 1,
           rate_num |-> 1, rate_den |-> 1, min_requests |-> 4]
TouchyConfig == {Touchy}

TwoConfigs == {Usual, Patient}

Symmetric == Permutations(Tasks)
=============================================================================
