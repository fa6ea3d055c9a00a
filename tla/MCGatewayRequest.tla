-------------------------- MODULE MCGatewayRequest --------------------------
(* Instances of GatewayRequest for TLC. *)
EXTENDS GatewayRequest, TLC

CONSTANTS r1, r2, m1, m2, m3, k1, k2

\* m3 is a model no provider has.
MCCredentials == <<k1, k2>>
MCPriority == (k1 :> 1) @@ (k2 :> 2)
MCLimit == (k1 :> 1) @@ (k2 :> 2)
MCRules == {"requests", "tokens"}
\* Two requests are within the first limit; within the second only if both are cheap.
MCKeyLimit == ("requests" :> 2) @@ ("tokens" :> 4)
MCCosts == {("requests" :> 1) @@ ("tokens" :> n) : n \in {2, 3}}

Off == [mode |-> "off", retries |-> 0, models |-> <<>>]
RetryOnce == [mode |-> "retry", retries |-> 1, models |-> <<>>]
\* One more than MaxRetryCount allows.
RetryThrice == [mode |-> "retry", retries |-> 3, models |-> <<>>]
Chain == [mode |-> "model-chain", retries |-> 0, models |-> <<m2, m1>>]

NoTargets == [Chain EXCEPT !.models = <<>>]

MCOneCost == {("requests" :> 1) @@ ("tokens" :> 2)}
MCFallbacks == {Off, RetryThrice, Chain, NoTargets}
MCOnce == {RetryOnce}
MCFewOutcomes == {"ok", "conflict", "busy"}

SymmetricRequests == Permutations(Requests)
=============================================================================
