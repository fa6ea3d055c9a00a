---------------------------- MODULE MCForwarder ----------------------------
(* Instances of Forwarder for TLC. *)
EXTENDS Forwarder

CONSTANTS p1, p2, p3, r1, r2

MCProviders == {p1, p2, p3}
MCQueue == <<p1, p2>>
MCLongQueue == <<p1, p2, p3>>

Plain(kind) == [kind |-> kind, image |-> FALSE, signature |-> "none", budget |-> "none"]

\* One error of each way to be handled.
MCErrors ==
    {Plain("denied"), Plain("rejected"),
     [Plain("not_implemented") EXCEPT !.image = TRUE],
     [Plain("denied") EXCEPT !.signature = "useless"],
     [Plain("rejected") EXCEPT !.signature = "useless", !.budget = "works"],
     [Plain("server") EXCEPT !.budget = "useless"]}

\* Every error there is.
MCAllErrors == {e \in Error : e.image => e.kind \in {"rejected", "not_implemented"}}
=============================================================================
