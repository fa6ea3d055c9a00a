------------------------- MODULE MCInferenceRouter -------------------------
(* Instances of InferenceRouter for TLC. *)
EXTENDS InferenceRouter

CONSTANTS fast, balanced, strong, code, bugs

MCCheapChain == <<fast, balanced>>
MCDimensionMap == [d \in {bugs} |-> balanced]
=============================================================================
