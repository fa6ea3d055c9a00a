----------------------------- MODULE MCTakeover -----------------------------
(* Instances of Takeover for TLC.                                           *)
EXTENDS Takeover, TLC

CONSTANTS claude, codex, gemini

OneClaude == <<claude>>
KindOf == [a \in Apps |-> CASE a = claude -> "claude" [] a = codex -> "codex"
                             [] a = gemini -> "gemini"]

AllCommands == Operation
\* The commands that two callers give at once; the others run beside the
\* start-up task only.
Overlapping == {"enable", "disable", "switch", "failover", "auto_failover",
                "stop_with_restore"}
OthersAlone == \/ \A p \in Callers : job[p].op \in Overlapping \/ pc[p] = "idle"
               \/ \A p, q \in Callers : p # q => "idle" \in {pc[p], pc[q]}

EnableOrStop == {"enable", "stop_with_restore"}

EveryFault == {"write", "sync", "start"}
NoFault == {}

Symmetric == Permutations(Callers) \cup Permutations(Ports)
=============================================================================
