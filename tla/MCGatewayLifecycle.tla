------------------------- MODULE MCGatewayLifecycle -------------------------
(* Instances of GatewayLifecycle for TLC. *)
EXTENDS GatewayLifecycle, TLC

\* The properties say nothing once a child may have been forgotten.
NothingForgotten == "overwritten" \notin mishaps

Symmetry == Permutations(Callers) \cup Permutations(Processes)
=============================================================================
