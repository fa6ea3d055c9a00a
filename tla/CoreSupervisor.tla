--------------------------- MODULE CoreSupervisor ---------------------------
(***************************************************************************)
(* What the gateway service promises about the core processes it spawns,   *)
(* as long as its commands are given one at a time: a new one is spawned   *)
(* only when the last one has ended or has been told to, and only the end  *)
(* of the application leaves one behind.                                   *)
(***************************************************************************)
CONSTANT Processes

VARIABLES
    own,  \* the core process of this run that runs and is not told to stop
    left  \* those of earlier runs

Init == own = {} /\ left = {}

Spawn == /\ own = {}
         /\ \E p \in Processes \ left : own' = {p}
         /\ UNCHANGED left

\* It ends, or is told to.
End == own # {} /\ own' = {} /\ UNCHANGED left

\* The application ends without stopping it.
Abandon == own # {} /\ own' = {} /\ left' = left \cup own

\* One that was left behind ends, or is told to.
Reclaim == (\E p \in left : left' = left \ {p}) /\ UNCHANGED own

Next == Spawn \/ End \/ Abandon \/ Reclaim

Spec == Init /\ [][Next]_<<own, left>>
=============================================================================
