----------------------- MODULE GatewayLifecycleProofs -----------------------
(* Proofs about GatewayLifecycle, for every set of callers and processes.   *)
EXTENDS GatewayLifecycle, TLAPS

-----------------------------------------------------------------------------
(* Which processes live and run after a step *)

CoreState == {"gone", "booting", "serving", "closing", "exited"}
Label == {"idle", "loading", "stopping", "opening", "previous", "waiting", "probing", "spawning"}

LEMMA NoneIsNoProcess == "none" \notin Processes
BY NoneAssumption

LEMMA ExitsEffect ==
    ASSUME TypeOK, NEW p \in Processes, Exits(p)
    PROVE  /\ core' \in [Processes -> CoreState]
           /\ Alive' = Alive \ {p}
           /\ Running' = Running \ {p}
           /\ signaled' \subseteq Alive'
<1>1. core' \in [Processes -> CoreState]  BY DEF Exits, TypeOK, CoreState
<1>2. \A q \in Processes \ {p} : core'[q] = core[q]  BY DEF Exits, TypeOK
<1>3. core'[p] \in {"exited", "gone"}  BY DEF Exits, TypeOK
<1>4. Alive' = Alive \ {p}  BY <1>2, <1>3 DEF Alive
<1>5. QED  BY <1>1, <1>4 DEF Exits, Running, TypeOK

LEMMA AppEndsEffect ==
    ASSUME TypeOK, AppEnds
    PROVE  /\ core' \in [Processes -> CoreState]
           /\ Alive' = Alive
<1>1. core' \in [Processes -> CoreState]  BY DEF AppEnds, TypeOK, CoreState
<1>2. \A q \in Processes : (core[q] = "exited" /\ core'[q] = "gone") \/ core'[q] = core[q]
  BY DEF AppEnds, TypeOK
<1>3. QED  BY <1>1, <1>2 DEF Alive

LEMMA StopBeginsEffect ==
    ASSUME TypeOK, NEW c \in Callers, NEW part \in {"stop", "start", "fail", "quit"},
           StopBegins(c, part)
    PROVE  /\ pc' \in [Callers -> Label]
           /\ why' \in [Callers -> {"none", "stop", "start", "fail", "quit"}]
           /\ marker' \in {marker, "none"}
           /\ mishaps' \in {mishaps, mishaps \cup {"discarded"}}
           /\ Alive' = Alive
           /\ Running' = Running \ {child}
           /\ signaled' \subseteq Alive'
<1>1. pc' \in [Callers -> Label] /\ why' \in [Callers -> {"none", "stop", "start", "fail", "quit"}]
  BY DEF StopBegins, Goto, TypeOK, Label
<1>2. marker' \in {marker, "none"}  BY DEF StopBegins, MarkerAfterStop
<1>3. mishaps' \in {mishaps, mishaps \cup {"discarded"}}  BY DEF StopBegins, Discarded
<1>4. Alive' = Alive  BY DEF StopBegins, Alive
<1>5. Running' = Running \ {child}  BY <1>4 DEF StopBegins, Running
<1>6. signaled' \subseteq Alive'  BY <1>4 DEF StopBegins, TypeOK
<1>7. QED  BY <1>1, <1>2, <1>3, <1>4, <1>5, <1>6

\* A spawn takes an id that stands for no process.
LEMMA SpawningEffect ==
    ASSUME TypeOK, NEW c \in Callers, Spawning(c)
    PROVE  \E p \in Unused :
               /\ child' = p /\ marker' = p /\ ours' = ours \cup {p}
               /\ core' \in [Processes -> CoreState]
               /\ Alive' = Alive \cup {p}
               /\ Running' = Running \cup {p}
               /\ p \notin Alive
<1>1. PICK p \in Unused : /\ child' = p /\ marker' = p /\ ours' = ours \cup {p}
                          /\ core' = [core EXCEPT ![p] = "booting"]
  BY DEF Spawning
<1>2. p \in Processes /\ core[p] = "gone"  BY DEF Unused
<1>3. core' \in [Processes -> CoreState]  BY <1>1, <1>2 DEF TypeOK, CoreState
<1>4. \A q \in Processes \ {p} : core'[q] = core[q]  BY <1>1 DEF TypeOK
<1>5. core'[p] = "booting"  BY <1>1, <1>2 DEF TypeOK
<1>6. Alive' = Alive \cup {p} /\ p \notin Alive  BY <1>2, <1>4, <1>5 DEF Alive
<1>7. Running' = Running \cup {p}  BY <1>6 DEF Running, Spawning, TypeOK
<1>8. QED  BY <1>1, <1>3, <1>6, <1>7

\* The steps of a core process that do not end it leave the same ones alive.
LEMMA PortEffect ==
    ASSUME TypeOK, NEW p \in Alive, NEW s \in {"serving", "closing"},
           core' = [core EXCEPT ![p] = s]
    PROVE  core' \in [Processes -> CoreState] /\ Alive' = Alive
<1>1. core' \in [Processes -> CoreState]  BY DEF TypeOK, CoreState, Alive
<1>2. \A q \in Processes \ {p} : core'[q] = core[q]  BY DEF TypeOK
<1>3. core'[p] = s  BY DEF TypeOK, Alive
<1>4. QED  BY <1>1, <1>2, <1>3 DEF Alive

LEMMA HandleExitEffect ==
    ASSUME TypeOK, NEW p \in Processes, HandleExit(p)
    PROVE  /\ core' \in [Processes -> CoreState]
           /\ Alive' = Alive /\ Running' = Running
           /\ p \notin Alive
<1>1. core' \in [Processes -> CoreState]  BY DEF HandleExit, TypeOK, CoreState
<1>2. \A q \in Processes \ {p} : core'[q] = core[q]  BY DEF HandleExit, TypeOK
<1>3. core[p] = "exited" /\ core'[p] = "gone"  BY DEF HandleExit, TypeOK
<1>4. Alive' = Alive /\ p \notin Alive  BY <1>2, <1>3 DEF Alive
<1>5. QED  BY <1>1, <1>4 DEF HandleExit, Running

-----------------------------------------------------------------------------
(* Type correctness *)

LEMMA FaultType ==
    ASSUME TypeOK, Fault \/ UNCHANGED faults
    PROVE  faults' \in 0..MaxFaults
BY MaxFaultsAssumption DEF Fault, TypeOK

LEMMA GotoType ==
    ASSUME TypeOK, NEW c \in Callers, NEW label \in Label, Goto(c, label)
    PROVE  pc' \in [Callers -> Label]
BY DEF Goto, TypeOK, Label

LEMMA StopBeginsType ==
    ASSUME TypeOK, NEW c \in Callers, NEW part \in {"stop", "start", "fail", "quit"},
           StopBegins(c, part), Fault \/ UNCHANGED faults,
           app' \in BOOLEAN, UNCHANGED <<known, status>>
    PROVE  TypeOK'
<1>1. faults' \in 0..MaxFaults  BY FaultType
<1>2. QED  BY <1>1, StopBeginsEffect DEF StopBegins, TypeOK, Label

LEMMA AppEndsType ==
    ASSUME TypeOK, AppEnds, Fault \/ UNCHANGED faults, UNCHANGED <<marker, signaled>>,
           mishaps' \in {mishaps, mishaps \cup {"crossed"}}
    PROVE  TypeOK'
<1>1. faults' \in 0..MaxFaults  BY FaultType
<1>2. QED  BY <1>1, AppEndsEffect DEF AppEnds, TypeOK, CoreState

LEMMA StopEndsType ==
    ASSUME TypeOK, NEW c \in Callers, StopEnds(c)
    PROVE  TypeOK'
<1>1. mishaps' \in {mishaps, mishaps \cup {"crossed"}}  BY DEF StopEnds
<1>2. CASE AppEnds  BY <1>1, <1>2, AppEndsType DEF StopEnds
<1>3. CASE /\ Goto(c, "idle") /\ why' = [why EXCEPT ![c] = "none"]
           /\ status' \in {"stopped", "error"}
           /\ UNCHANGED <<app, known, child, target, core, ours>>
  <2>1. pc' \in [Callers -> Label]  BY <1>3, GotoType DEF Label
  <2>2. Alive' = Alive  BY <1>3 DEF Alive
  <2>3. QED  BY <1>1, <1>3, <2>1, <2>2 DEF StopEnds, TypeOK, Label
<1>4. CASE /\ Goto(c, "opening") /\ status' = "starting" /\ known' = TRUE
           /\ UNCHANGED <<app, child, why, target, core, ours>>
  <2>1. pc' \in [Callers -> Label]  BY <1>4, GotoType DEF Label
  <2>2. Alive' = Alive  BY <1>4 DEF Alive
  <2>3. QED  BY <1>1, <1>4, <2>1, <2>2 DEF StopEnds, TypeOK, Label
<1>5. QED  BY <1>2, <1>3, <1>4 DEF StopEnds

LEMMA OpeningType ==
    ASSUME TypeOK, NEW c \in Callers, Opening(c)
    PROVE  TypeOK'
<1>1. CASE Fault /\ StopBegins(c, "fail")
  BY <1>1, StopBeginsType DEF Opening, TypeOK
<1>2. CASE /\ target' = [target EXCEPT ![c] = marker]
           /\ Goto(c, IF marker = "none" THEN "probing" ELSE "previous")
           /\ UNCHANGED <<app, known, child, status, marker, why, processes, mishaps, faults>>
  <2>1. UNCHANGED <<app, known, status>> /\ target' = [target EXCEPT ![c] = marker]
    BY <1>2
  <2>2. pc' \in [Callers -> Label]  BY <1>2, GotoType DEF Label
  <2>3. target' \in [Callers -> Processes \cup {"none"}]  BY <2>1 DEF TypeOK
  <2>4. Alive' = Alive  BY <1>2 DEF Alive, processes
  <2>5. QED  BY <1>2, <2>2, <2>3, <2>4 DEF TypeOK, Label, processes
<1>3. QED  BY <1>1, <1>2 DEF Opening

LEMMA PreviousType ==
    ASSUME TypeOK, NEW c \in Callers, Previous(c)
    PROVE  TypeOK'
<1>1. pc' \in [Callers -> Label]  BY GotoType DEF Previous, Label
<1>2. faults' \in 0..MaxFaults  BY FaultType DEF Previous
<1>3. Alive' = Alive  BY DEF Previous, Alive
<1>4. signaled' \subseteq Alive'  BY <1>3 DEF Previous, TypeOK, Serving, Alive
<1>5. mishaps' \in {mishaps, mishaps \cup {"missed"}}  BY DEF Previous
<1>6. QED  BY <1>1, <1>2, <1>3, <1>4, <1>5 DEF Previous, TypeOK, Label

LEMMA WaitingType ==
    ASSUME TypeOK, NEW c \in Callers, Waiting(c)
    PROVE  TypeOK'
<1>1. pc' \in [Callers -> Label]  BY GotoType DEF Waiting, Label
<1>2. faults' \in 0..MaxFaults  BY FaultType DEF Waiting
<1>3. core' \in [Processes -> CoreState] /\ signaled' \subseteq Alive'
  <2>1. CASE target[c] \in Alive /\ Exits(target[c])  BY <2>1, ExitsEffect DEF Alive
  <2>2. CASE UNCHANGED <<core, signaled>>  BY <2>2 DEF Alive, TypeOK, CoreState
  <2>3. QED  BY <2>1, <2>2 DEF Waiting
<1>4. mishaps' \in {mishaps, mishaps \cup {"discarded"}}  BY DEF Waiting
<1>5. QED  BY <1>1, <1>2, <1>3, <1>4 DEF Waiting, TypeOK, Label, CoreState

LEMMA ProbingType ==
    ASSUME TypeOK, NEW c \in Callers, Probing(c)
    PROVE  TypeOK'
<1>1. CASE Serving # {}
  BY <1>1, StopBeginsType DEF Probing, TypeOK
<1>2. CASE Serving = {}
  <2>1. pc' \in [Callers -> Label]  BY <1>2, GotoType DEF Probing, Label
  <2>2. Alive' = Alive  BY <1>2 DEF Probing, Alive, processes
  <2>3. QED  BY <1>2, <2>1, <2>2 DEF Probing, TypeOK, Label, processes
<1>3. QED  BY <1>1, <1>2

LEMMA SpawningType ==
    ASSUME TypeOK, NEW c \in Callers, Spawning(c)
    PROVE  TypeOK'
<1>1. pc' \in [Callers -> Label]  BY GotoType DEF Spawning, Label
<1>2. mishaps' \in {mishaps, mishaps \cup {"overwritten"}}  BY DEF Spawning
<1>3. PICK p \in Unused : /\ child' = p /\ marker' = p /\ ours' = ours \cup {p}
                          /\ core' \in [Processes -> CoreState]
                          /\ Alive' = Alive \cup {p}
  BY SpawningEffect
<1>4. p \in Processes  BY DEF Unused
<1>5. QED  BY <1>1, <1>2, <1>3, <1>4 DEF Spawning, TypeOK, Label, CoreState

\* The steps of the core processes and the events of their exits.
LEMMA ProcessType ==
    ASSUME TypeOK, NEW p \in Processes, Boots(p) \/ Obeys(p) \/ Dies(p) \/ HandleExit(p)
    PROVE  TypeOK'
<1>1. faults' \in 0..MaxFaults  BY FaultType DEF Boots, Obeys, Dies, HandleExit
<1>2. CASE Exits(p) /\ UNCHANGED <<app, known, child, status, marker, command, ours, mishaps>>
  BY <1>1, <1>2, ExitsEffect DEF TypeOK, CoreState, command
<1>3. CASE /\ p \in Alive /\ \E s \in {"serving", "closing"} : core' = [core EXCEPT ![p] = s]
           /\ UNCHANGED <<app, known, child, status, marker, command, signaled, ours, mishaps>>
  BY <1>1, <1>3, PortEffect DEF TypeOK, CoreState, command
<1>4. CASE HandleExit(p)
  <2>1. /\ status' \in {status, "error"} /\ marker' \in {marker, "none"}
        /\ mishaps' \in {mishaps, mishaps \cup {"lateExit"}}
    BY <1>4 DEF HandleExit
  <2>2. QED  BY <1>1, <1>4, <2>1, HandleExitEffect DEF HandleExit, TypeOK, CoreState, command
<1>5. ASSUME Boots(p) PROVE TypeOK'
  <2>1. p \in Alive  BY <1>5 DEF Boots, Alive
  <2>2. QED  BY <1>2, <1>3, <1>5, <2>1 DEF Boots
<1>6. ASSUME Obeys(p) PROVE TypeOK'
  <2>1. p \in Alive  BY <1>6 DEF Obeys, TypeOK
  <2>2. QED  BY <1>2, <1>3, <1>6, <2>1 DEF Obeys
<1>7. ASSUME Dies(p) PROVE TypeOK'  BY <1>2, <1>7 DEF Dies
<1>8. QED  BY <1>4, <1>5, <1>6, <1>7

LEMMA LaunchType ==
    ASSUME TypeOK, Launch
    PROVE  TypeOK'
<1>1. pc' \in [Callers -> Label]  BY GotoType DEF Launch, Label
<1>2. Alive' = Alive  BY DEF Launch, processes, Alive
<1>3. QED  BY <1>1, <1>2 DEF Launch, TypeOK, Label, processes

LEMMA UpdateConfigType ==
    ASSUME TypeOK, UpdateConfig
    PROVE  TypeOK'
BY DEF UpdateConfig, TypeOK, Alive, command, processes

LEMMA TypeInit == Init => TypeOK
<1> SUFFICES ASSUME Init PROVE TypeOK  OBVIOUS
<1>1. faults \in 0..MaxFaults  BY MaxFaultsAssumption DEF Init
<1>2. core \in [Processes -> CoreState]  BY DEF Init, CoreState
<1>3. pc \in [Callers -> Label]  BY DEF Init, Label
<1>4. QED  BY <1>1, <1>2, <1>3 DEF Init, TypeOK, CoreState, Label

LEMMA TypeStep == TypeOK /\ [Next]_vars => TypeOK'
<1> SUFFICES ASSUME TypeOK, [Next]_vars PROVE TypeOK'  OBVIOUS
<1>1. CASE UNCHANGED vars
  BY <1>1 DEF TypeOK, Alive, vars, command, processes
<1>2. CASE Crash  BY <1>2, AppEndsType DEF Crash
<1>3. CASE Launch \/ UpdateConfig  BY <1>3, LaunchType, UpdateConfigType
<1>4. ASSUME NEW c \in Callers, Command(c) \/ Loading(c) PROVE TypeOK'
  BY <1>4, StopBeginsType DEF Command, Loading, TypeOK
<1>5. ASSUME NEW c \in Callers, Step(c), ~Loading(c) PROVE TypeOK'
  BY <1>5, StopEndsType, OpeningType, PreviousType, WaitingType, ProbingType, SpawningType
     DEF Step
<1>6. ASSUME NEW p \in Processes, Boots(p) \/ Obeys(p) \/ Dies(p) \/ HandleExit(p)
      PROVE  TypeOK'
  BY <1>6, ProcessType
<1>7. QED  BY <1>1, <1>2, <1>3, <1>4, <1>5, <1>6 DEF Next, Step

\* Type correctness, for every set of callers and processes: among the rest, no
\* process is counted as told to stop once it has ended (TypeOK).
THEOREM TypeCorrect == Spec => []TypeOK
<1>1. QED  BY TypeInit, TypeStep, PTL DEF Spec

-----------------------------------------------------------------------------
(* What a step does to the cores that run *)

\* A caller that is not in start or stop.
Resting == {"idle", "loading"}

\* No start or stop begins.
NoneBegins == \A c \in Callers : pc'[c] \notin Resting => pc[c] \notin Resting

\* A stop begins: the child is told to stop.
ChildStopped == child' = "none" /\ Running' = Running \ {child} /\ UNCHANGED ours

\* The application ends, or crashes: its core goes on.
RunEnded == child' = "none" /\ Running' = Running /\ ours' = {}

\* At most one process ends or is told to; for the rest nothing changes.
OneLost == /\ \E p \in Processes \cup {"none"} : Running' = Running \ {p}
           /\ UNCHANGED <<child, ours>>
           /\ NoneBegins

\* The application hears of an exit.
ExitHeard == /\ \E p \in Processes : p \notin Running /\ ours' = ours \ {p}
             /\ UNCHANGED child
             /\ Running' = Running
             /\ NoneBegins

LEMMA NoneRuns == "none" \notin Running /\ Running \subseteq Processes
BY NoneIsNoProcess DEF Running, Alive

LEMMA NothingLost ==
    ASSUME Running' = Running, UNCHANGED <<child, ours>>, NoneBegins
    PROVE  OneLost
BY NoneRuns DEF OneLost

LEMMA GotoBegins ==
    ASSUME TypeOK, NEW c \in Callers, NEW label, Goto(c, label),
           label \in Resting \/ pc[c] \notin Resting
    PROVE  NoneBegins
BY DEF Goto, TypeOK, NoneBegins

LEMMA StepShape ==
    ASSUME TypeOK, [Next]_vars
    PROVE  \/ ChildStopped
           \/ RunEnded
           \/ \E c \in Callers : Spawning(c)
           \/ OneLost
           \/ ExitHeard
<1>1. ASSUME NEW c \in Callers, NEW part \in {"stop", "start", "fail", "quit"}, StopBegins(c, part)
      PROVE  ChildStopped
  BY <1>1, StopBeginsEffect DEF ChildStopped, StopBegins
<1>2. ASSUME AppEnds, UNCHANGED signaled PROVE RunEnded
  BY <1>2, AppEndsEffect DEF RunEnded, AppEnds, Running
<1>3. CASE UNCHANGED vars
  <2>1. Running' = Running /\ NoneBegins
    BY <1>3 DEF vars, command, processes, Running, Alive, NoneBegins
  <2>2. QED  BY <1>3, <2>1, NothingLost DEF vars, processes
<1>4. CASE Crash  BY <1>2, <1>4 DEF Crash
<1>5. CASE Launch \/ UpdateConfig
  <2>1. UNCHANGED <<child, ours, core, signaled>>
    BY <1>5 DEF Launch, UpdateConfig, processes
  <2>2. Running' = Running  BY <2>1 DEF Running, Alive
  <2>3. NoneBegins
    <3>1. CASE Launch  BY <3>1, GotoBegins DEF Launch, Resting
    <3>2. CASE UpdateConfig  BY <3>2 DEF UpdateConfig, command, NoneBegins
    <3>3. QED  BY <1>5, <3>1, <3>2
  <2>4. QED  BY <2>1, <2>2, <2>3, NothingLost
<1>6. ASSUME NEW c \in Callers, Command(c) \/ Loading(c) PROVE ChildStopped
  BY <1>1, <1>6 DEF Command, Loading
<1>7. ASSUME NEW c \in Callers, StopEnds(c) PROVE RunEnded \/ OneLost
  <2>1. CASE AppEnds  BY <1>2, <1>7, <2>1 DEF StopEnds
  <2>2. CASE ~AppEnds
    <3>1. /\ UNCHANGED <<child, ours, core, signaled>>
          /\ Goto(c, "idle") \/ Goto(c, "opening")
          /\ pc[c] \notin Resting
      BY <1>7, <2>2 DEF StopEnds, Resting
    <3>2. Running' = Running  BY <3>1 DEF Running, Alive
    <3>3. QED  BY <3>1, <3>2, GotoBegins, NothingLost
  <2>3. QED  BY <2>1, <2>2
<1>8. ASSUME NEW c \in Callers, Opening(c) PROVE ChildStopped \/ OneLost
  <2>1. CASE StopBegins(c, "fail")  BY <1>1, <2>1
  <2>2. CASE ~StopBegins(c, "fail")
    <3>1. /\ UNCHANGED <<child, ours, core, signaled>>
          /\ \E label : Goto(c, label)
          /\ pc[c] \notin Resting
      BY <1>8, <2>2 DEF Opening, processes, Resting
    <3>2. Running' = Running  BY <3>1 DEF Running, Alive
    <3>3. QED  BY <3>1, <3>2, GotoBegins, NothingLost
  <2>3. QED  BY <2>1, <2>2
<1>9. ASSUME NEW c \in Callers, Previous(c) PROVE OneLost
  <2>1. NoneBegins
    <3>1. Goto(c, "waiting") \/ Goto(c, "probing")  BY <1>9 DEF Previous
    <3>2. pc[c] \notin Resting  BY <1>9 DEF Previous, Resting
    <3>3. QED  BY <3>1, <3>2, GotoBegins
  <2>2. Alive' = Alive  BY <1>9 DEF Previous, Alive
  <2>3. target[c] \in Processes \cup {"none"}  BY DEF TypeOK
  <2>4. Running' = Running \ {target[c]} \/ Running' = Running
    BY <1>9, <2>2 DEF Previous, Running
  <2>5. UNCHANGED <<child, ours>>  BY <1>9 DEF Previous
  <2>6. QED  BY <2>1, <2>3, <2>4, <2>5, NothingLost DEF OneLost
<1>10. ASSUME NEW c \in Callers, Waiting(c) PROVE OneLost
  <2>1. NoneBegins
    <3>1. Goto(c, "probing") /\ pc[c] \notin Resting  BY <1>10 DEF Waiting, Resting
    <3>2. QED  BY <3>1, GotoBegins
  <2>2. UNCHANGED <<child, ours>>  BY <1>10 DEF Waiting
  <2>3. CASE target[c] \in Alive /\ Exits(target[c])
    <3>1. target[c] \in Processes  BY <2>3 DEF Alive
    <3>2. QED  BY <2>1, <2>2, <2>3, <3>1, ExitsEffect DEF OneLost
  <2>4. CASE UNCHANGED <<core, signaled>>
    <3>1. Running' = Running  BY <2>4 DEF Running, Alive
    <3>2. QED  BY <2>1, <2>2, <3>1, NothingLost
  <2>5. QED  BY <1>10, <2>3, <2>4 DEF Waiting
<1>11. ASSUME NEW c \in Callers, Probing(c) PROVE ChildStopped \/ OneLost
  <2>1. CASE Serving # {}  BY <1>1, <1>11, <2>1 DEF Probing
  <2>2. CASE Serving = {}
    <3>1. UNCHANGED <<child, ours, core, signaled>> /\ Goto(c, "spawning") /\ pc[c] \notin Resting
      BY <1>11, <2>2 DEF Probing, processes, Resting
    <3>2. Running' = Running  BY <3>1 DEF Running, Alive
    <3>3. QED  BY <3>1, <3>2, GotoBegins, NothingLost
  <2>3. QED  BY <2>1, <2>2
<1>12. ASSUME NEW p \in Processes, Boots(p) \/ Obeys(p) \/ Dies(p) PROVE OneLost
  <2>1. UNCHANGED <<child, ours>> /\ NoneBegins
    BY <1>12 DEF Boots, Obeys, Dies, command, NoneBegins
  <2>2. CASE Exits(p)  BY <2>1, <2>2, ExitsEffect DEF OneLost
  <2>3. CASE ~Exits(p)
    <3>1. UNCHANGED signaled /\ \E s \in {"serving", "closing"} : core' = [core EXCEPT ![p] = s]
      BY <1>12, <2>3 DEF Boots, Obeys, Dies
    <3>2. p \in Alive  BY <1>12 DEF Boots, Obeys, Dies, Alive, TypeOK
    <3>3. Running' = Running  BY <3>1, <3>2, PortEffect DEF Running
    <3>4. QED  BY <2>1, <3>3, NothingLost
  <2>4. QED  BY <2>2, <2>3
<1>13. ASSUME NEW p \in Processes, HandleExit(p) PROVE ExitHeard
  <2>1. NoneBegins /\ UNCHANGED child /\ ours' = ours \ {p}
    BY <1>13 DEF HandleExit, command, NoneBegins
  <2>2. QED  BY <1>13, <2>1, HandleExitEffect DEF ExitHeard, Running
<1>14. QED  BY <1>3, <1>4, <1>5, <1>6, <1>7, <1>8, <1>9, <1>10, <1>11, <1>12, <1>13
            DEF Next, Step

\* What went wrong once is not forgotten.
LEMMA MishapsStay ==
    ASSUME [Next]_vars
    PROVE  mishaps \subseteq mishaps'
<1>1. \A c \in Callers : \A part : StopBegins(c, part) => mishaps \subseteq mishaps'
  BY DEF StopBegins
<1>2. CASE UNCHANGED vars  BY <1>2 DEF vars
<1>3. CASE Crash \/ Launch \/ UpdateConfig  BY <1>3 DEF Crash, Launch, UpdateConfig
<1>4. ASSUME NEW c \in Callers, Command(c) \/ Loading(c) \/ StopEnds(c) \/ Opening(c)
      PROVE  mishaps \subseteq mishaps'
  BY <1>1, <1>4 DEF Command, Loading, StopEnds, Opening
<1>5. ASSUME NEW c \in Callers, Previous(c) \/ Waiting(c) \/ Probing(c) \/ Spawning(c)
      PROVE  mishaps \subseteq mishaps'
  BY <1>1, <1>5 DEF Previous, Waiting, Probing, Spawning
<1>6. ASSUME NEW p \in Processes, Boots(p) \/ Obeys(p) \/ Dies(p) \/ HandleExit(p)
      PROVE  mishaps \subseteq mishaps'
  BY <1>6 DEF Boots, Obeys, Dies, HandleExit
<1>7. QED  BY <1>2, <1>3, <1>4, <1>5, <1>6 DEF Next, Step

-----------------------------------------------------------------------------
(* One core per run of the application *)

LEMMA OneCoreStep ==
    ASSUME TypeOK, OneCorePerRun, [Next]_vars
    PROVE  OneCorePerRun'
<1> SUFFICES ASSUME "overwritten" \notin mishaps' PROVE (Running \cap ours \subseteq {child})'
  BY DEF OneCorePerRun
<1>1. Running \cap ours \subseteq {child}  BY MishapsStay DEF OneCorePerRun
<1>2. ASSUME NEW c \in Callers, Spawning(c) PROVE (Running \cap ours \subseteq {child})'
  <2>1. child = "none"  BY <1>2 DEF Spawning
  <2>2. Running \cap ours = {}  BY <1>1, <2>1, NoneRuns
  <2>3. QED  BY <1>2, <2>2, SpawningEffect
<1>3. CASE ChildStopped \/ RunEnded  BY <1>1, <1>3 DEF ChildStopped, RunEnded
<1>4. CASE OneLost \/ ExitHeard  BY <1>1, <1>4 DEF OneLost, ExitHeard
<1>5. QED  BY <1>2, <1>3, <1>4, StepShape

\* Whatever commands, exits and crashes cross each other, only the child of the
\* service runs among the cores of this run, unless a start took the place of a
\* child nobody had stopped (OneCorePerRun).
THEOREM OneCore == Spec => []OneCorePerRun
<1>1. Init => OneCorePerRun  BY DEF Init, OneCorePerRun
<1>2. TypeOK /\ OneCorePerRun /\ [Next]_vars => OneCorePerRun'  BY OneCoreStep
<1>3. QED  BY <1>1, <1>2, TypeCorrect, PTL DEF Spec

-----------------------------------------------------------------------------
(* The marker file *)

\* A start that found the stop behind it done has a configuration, and so has an
\* application that spawned a core; an exit that is not heard of is of this run.
Configured ==
    /\ \A c \in Callers :
          pc[c] \in {"opening", "previous", "waiting", "probing", "spawning"} => known
    /\ ours # {} => known
    /\ \A p \in Processes : core[p] = "exited" => p \in ours

\* A core that runs although it is not the child: the marker names it.
Orphan == Running \ {child}

\* What the marker file tells of the cores that run, and of which of them a start
\* under way is going to end.
Marked ==
    /\ Running \subseteq {child, marker}
    /\ child \in Running => marker = child
    /\ ours # {} /\ marker \in Running => marker \in ours
    /\ \A c \in Callers :
          /\ pc[c] = "previous" /\ marker \in Orphan => marker = target[c]
          /\ pc[c] \in {"waiting", "probing", "spawning"} => marker \notin Orphan

MarkerInv ==
    /\ TypeOK
    /\ OneCorePerRun
    /\ Configured
    /\ mishaps \subseteq {"crossed"} => Marked

LEMMA ExitsHeard ==
    ASSUME TypeOK, Configured, NEW p \in Processes, Exits(p), UNCHANGED <<pc, known, ours>>
    PROVE  Configured'
BY DEF Exits, TypeOK, Configured

LEMMA StopBeginsConfigured ==
    ASSUME TypeOK, Configured, NEW c \in Callers, NEW part, StopBegins(c, part), UNCHANGED known
    PROVE  Configured'
<1>1. \A d \in Callers : pc'[d] = "stopping" \/ pc'[d] = pc[d]
  BY DEF StopBegins, Goto, TypeOK
<1>2. QED  BY <1>1 DEF StopBegins, Configured

LEMMA AppEndsConfigured ==
    ASSUME TypeOK, AppEnds
    PROVE  Configured'
BY DEF AppEnds, Configured, TypeOK

LEMMA ConfiguredStep ==
    ASSUME TypeOK, Configured, [Next]_vars
    PROVE  Configured'
<1>1. CASE UNCHANGED vars  BY <1>1 DEF vars, command, processes, Configured
<1>2. CASE Crash  BY <1>2, AppEndsConfigured DEF Crash
<1>3. CASE Launch \/ UpdateConfig
  BY <1>3 DEF Launch, UpdateConfig, Goto, TypeOK, command, processes, Configured
<1>4. ASSUME NEW c \in Callers, Command(c) \/ Loading(c) PROVE Configured'
  BY <1>4, StopBeginsConfigured DEF Command, Loading
<1>5. ASSUME NEW c \in Callers, StopEnds(c) PROVE Configured'
  <2>1. CASE AppEnds  BY <2>1, AppEndsConfigured
  <2>2. CASE Goto(c, "idle") /\ UNCHANGED <<known, core, ours>>
    BY <2>2 DEF Goto, TypeOK, Configured
  <2>3. CASE Goto(c, "opening") /\ known' = TRUE /\ UNCHANGED <<core, ours>>
    BY <2>3 DEF Goto, TypeOK, Configured
  <2>4. QED  BY <1>5, <2>1, <2>2, <2>3 DEF StopEnds
<1>6. ASSUME NEW c \in Callers, Opening(c) PROVE Configured'
  <2>1. CASE StopBegins(c, "fail")  BY <1>6, <2>1, StopBeginsConfigured DEF Opening
  <2>2. CASE ~StopBegins(c, "fail")
    <3>1. /\ pc[c] = "opening" /\ UNCHANGED <<known, core, ours>>
          /\ \E label : Goto(c, label)
      BY <1>6, <2>2 DEF Opening, processes
    <3>2. QED  BY <3>1 DEF Goto, TypeOK, Configured
  <2>3. QED  BY <2>1, <2>2
<1>7. ASSUME NEW c \in Callers, Previous(c) PROVE Configured'
  BY <1>7 DEF Previous, Goto, TypeOK, Configured
<1>8. ASSUME NEW c \in Callers, Waiting(c) PROVE Configured'
  <2>1. /\ pc[c] = "waiting" /\ UNCHANGED <<known, ours>> /\ Goto(c, "probing")
    BY <1>8 DEF Waiting
  <2>2. \A p \in Processes : core'[p] = "exited" => p \in ours
    BY <1>8 DEF Waiting, Exits, TypeOK, Configured
  <2>3. QED  BY <2>1, <2>2 DEF Goto, TypeOK, Configured
<1>9. ASSUME NEW c \in Callers, Probing(c) PROVE Configured'
  <2>1. CASE Serving # {}  BY <1>9, <2>1, StopBeginsConfigured DEF Probing
  <2>2. CASE Serving = {}
    BY <1>9, <2>2 DEF Probing, processes, Goto, TypeOK, Configured
  <2>3. QED  BY <2>1, <2>2
<1>10. ASSUME NEW c \in Callers, Spawning(c) PROVE Configured'
  <2>1. PICK p \in Unused : core' = [core EXCEPT ![p] = "booting"] /\ ours' = ours \cup {p}
    BY <1>10 DEF Spawning
  <2>2. \A q \in Processes : core'[q] = "exited" => q \in ours'
    BY <2>1 DEF TypeOK, Configured
  <2>3. known' /\ UNCHANGED known  BY <1>10 DEF Spawning, Configured
  <2>4. QED  BY <2>2, <2>3 DEF Configured
<1>11. ASSUME NEW p \in Processes, Boots(p) \/ Obeys(p) \/ Dies(p) PROVE Configured'
  <2>1. UNCHANGED <<pc, known, ours>>  BY <1>11 DEF Boots, Obeys, Dies, command
  <2>2. CASE Exits(p)  BY <2>1, <2>2, ExitsHeard
  <2>3. CASE ~Exits(p)
    <3>1. \E s \in {"serving", "closing"} : core' = [core EXCEPT ![p] = s]
      BY <1>11, <2>3 DEF Boots, Obeys, Dies
    <3>2. \A q \in Processes : core'[q] = "exited" => core[q] = "exited"
      BY <3>1 DEF TypeOK
    <3>3. QED  BY <2>1, <3>2 DEF Configured
  <2>4. QED  BY <2>2, <2>3
<1>12. ASSUME NEW p \in Processes, HandleExit(p) PROVE Configured'
  <2>1. \A q \in Processes : core'[q] = "exited" => q # p /\ core[q] = "exited"
    BY <1>12 DEF HandleExit, TypeOK
  <2>2. QED  BY <1>12, <2>1 DEF HandleExit, command, Configured
<1>13. QED  BY <1>1, <1>2, <1>3, <1>4, <1>5, <1>6, <1>7, <1>8, <1>9, <1>10, <1>11, <1>12
            DEF Next, Step

-----------------------------------------------------------------------------
\* Nothing runs any more.
LEMMA NothingMarked ==
    ASSUME Running' = {}
    PROVE  Marked'
BY DEF Marked, Orphan

\* The marker, the child and the starts stay as they are, or a start forgets.
LEMMA StillMarked ==
    ASSUME Marked, UNCHANGED <<child, marker, target>>,
           Running' \subseteq Running, ours' = ours,
           \A c \in Callers : pc'[c] = pc[c] \/ pc'[c] \in {"idle", "loading", "stopping", "opening"}
    PROVE  Marked'
BY DEF Marked, Orphan

LEMMA StopBeginsMarked ==
    ASSUME MarkerInv, Marked, NEW c \in Callers, NEW part \in {"stop", "start", "fail", "quit"},
           StopBegins(c, part), mishaps' \subseteq {"crossed"}
    PROVE  Marked'
<1>1. Running' = Running \ {child}  BY StopBeginsEffect DEF MarkerInv
<1>2. CASE known
  <2>1. marker \notin Running \ {child}  BY <1>2 DEF StopBegins, Discarded
  <2>2. Running' = {}  BY <1>1, <2>1 DEF Marked
  <2>3. QED  BY <2>2, NothingMarked
<1>3. CASE ~known
  <2>1. ours' = {}  BY <1>3 DEF MarkerInv, Configured, StopBegins
  <2>2. marker' = marker /\ child' = "none"  BY <1>3 DEF StopBegins, MarkerAfterStop
  <2>3. \A d \in Callers : pc'[d] \notin {"previous", "waiting", "probing", "spawning"}
    BY <1>3 DEF StopBegins, Goto, MarkerInv, TypeOK, Configured
  <2>4. Running' \subseteq {marker}  BY <1>1 DEF Marked
  <2>5. "none" \notin Running'  BY <1>1, NoneRuns
  <2>6. QED  BY <2>1, <2>2, <2>3, <2>4, <2>5 DEF Marked
<1>4. QED  BY <1>2, <1>3

LEMMA AppEndsMarked ==
    ASSUME MarkerInv, Marked, AppEnds, UNCHANGED <<marker, signaled>>
    PROVE  Marked'
<1>1. Running' = Running  BY AppEndsEffect DEF MarkerInv, Running
<1>2. Running \subseteq {marker}  BY DEF Marked
<1>3. ours' = {} /\ child' = "none" /\ \A c \in Callers : pc'[c] = "idle"  BY DEF AppEnds
<1>4. QED  BY <1>1, <1>2, <1>3, NoneRuns DEF Marked

LEMMA PreviousMarked ==
    ASSUME MarkerInv, Marked, NEW c \in Callers, Previous(c), mishaps' \subseteq {"crossed"}
    PROVE  Marked'
<1>1. Alive' = Alive  BY DEF Previous, Alive
<1>2. Running' \subseteq Running /\ target[c] \notin Running'
  <2>1. CASE signaled' = signaled \cup {target[c]}  BY <1>1, <2>1 DEF Running
  <2>2. CASE signaled' # signaled \cup {target[c]}
    <3>1. UNCHANGED signaled /\ target[c] \notin Running  BY <2>2 DEF Previous
    <3>2. QED  BY <1>1, <3>1 DEF Running
  <2>3. QED  BY <2>1, <2>2
<1>3. UNCHANGED <<child, marker, target, ours>>  BY DEF Previous
<1>4. marker \notin Orphan'
  BY <1>2, <1>3 DEF Marked, Orphan, Previous
<1>5. \A d \in Callers \ {c} : pc'[d] = pc[d]
  BY DEF Previous, Goto, MarkerInv, TypeOK
<1>6. pc'[c] \in {"waiting", "probing"}  BY DEF Previous, Goto, MarkerInv, TypeOK
<1>7. QED  BY <1>2, <1>3, <1>4, <1>5, <1>6 DEF Marked, Orphan

LEMMA WaitingMarked ==
    ASSUME MarkerInv, Marked, NEW c \in Callers, Waiting(c), mishaps' \subseteq {"crossed"}
    PROVE  Marked'
<1>1. marker \notin Running  BY DEF Waiting
<1>2. Running = {}  BY <1>1 DEF Marked
<1>3. Running' \subseteq Running
  <2>1. CASE target[c] \in Alive /\ Exits(target[c])
    BY <2>1, ExitsEffect DEF MarkerInv, Alive
  <2>2. CASE UNCHANGED <<core, signaled>>  BY <2>2 DEF Running, Alive
  <2>3. QED  BY <2>1, <2>2 DEF Waiting
<1>4. QED  BY <1>2, <1>3, NothingMarked

LEMMA SpawningMarked ==
    ASSUME MarkerInv, Marked, NEW c \in Callers, Spawning(c), mishaps' \subseteq {"crossed"}
    PROVE  Marked'
<1>1. child = "none" /\ pc[c] = "spawning"  BY DEF Spawning
<1>2. Running = {}  BY <1>1, NoneRuns DEF Marked, Orphan
<1>3. PICK p \in Unused : child' = p /\ marker' = p /\ ours' = ours \cup {p} /\ Running' = {p}
  BY <1>2, SpawningEffect DEF MarkerInv
<1>4. QED  BY <1>3 DEF Marked, Orphan

LEMMA HandleExitMarked ==
    ASSUME MarkerInv, Marked, NEW p \in Processes, HandleExit(p), mishaps' \subseteq {"crossed"}
    PROVE  Marked'
<1>1. Running' = Running /\ p \notin Running
  BY HandleExitEffect DEF MarkerInv, Running
<1>2. UNCHANGED <<child, pc, target>> /\ ours' = ours \ {p}  BY DEF HandleExit, command
<1>3. CASE marker' = marker
  BY <1>1, <1>2, <1>3 DEF Marked, Orphan
<1>4. CASE marker' # marker
  <2>1. child \in {"none", p}  BY <1>4 DEF HandleExit
  <2>2. child \notin Running  BY <1>1, <2>1, NoneRuns
  <2>3. p \in ours  BY DEF HandleExit, MarkerInv, Configured
  <2>4. "overwritten" \notin mishaps  BY MishapsStay DEF HandleExit
  <2>5. Running \cap ours \subseteq {child}  BY <2>4 DEF MarkerInv, OneCorePerRun
  <2>6. Running = {}  BY <2>2, <2>3, <2>5 DEF Marked
  <2>7. QED  BY <1>1, <2>6, NothingMarked
<1>5. QED  BY <1>3, <1>4

LEMMA MarkedStep ==
    ASSUME MarkerInv, Marked, [Next]_vars, mishaps' \subseteq {"crossed"}
    PROVE  Marked'
<1> USE DEF MarkerInv
<1>1. CASE UNCHANGED vars
  <2>1. Running' = Running  BY <1>1 DEF vars, processes, Running, Alive
  <2>2. QED  BY <1>1, <2>1, StillMarked DEF vars, command, processes
<1>2. CASE Crash  BY <1>2, AppEndsMarked DEF Crash
<1>3. CASE Launch \/ UpdateConfig
  <2>1. UNCHANGED <<child, marker, target, core, signaled, ours>>
    BY <1>3 DEF Launch, UpdateConfig, command, processes
  <2>2. Running' = Running  BY <2>1 DEF Running, Alive
  <2>3. \A d \in Callers : pc'[d] = pc[d] \/ pc'[d] = "loading"
    BY <1>3 DEF Launch, UpdateConfig, Goto, TypeOK, command
  <2>4. QED  BY <2>1, <2>2, <2>3, StillMarked
<1>4. ASSUME NEW c \in Callers, Command(c) \/ Loading(c) PROVE Marked'
  BY <1>4, StopBeginsMarked DEF Command, Loading
<1>5. ASSUME NEW c \in Callers, StopEnds(c) PROVE Marked'
  <2>1. CASE AppEnds  BY <1>5, <2>1, AppEndsMarked DEF StopEnds
  <2>2. CASE ~AppEnds
    <3>1. /\ Goto(c, "idle") \/ Goto(c, "opening")
          /\ UNCHANGED <<child, marker, target, core, signaled, ours>>
      BY <1>5, <2>2 DEF StopEnds
    <3>2. Running' = Running  BY <3>1 DEF Running, Alive
    <3>3. \A d \in Callers : pc'[d] = pc[d] \/ pc'[d] \in {"idle", "stopping", "opening"}
      BY <3>1 DEF Goto, TypeOK
    <3>4. QED  BY <3>1, <3>2, <3>3, StillMarked
  <2>3. QED  BY <2>1, <2>2
<1>6. ASSUME NEW c \in Callers, Opening(c) PROVE Marked'
  <2>1. CASE StopBegins(c, "fail")  BY <2>1, StopBeginsMarked
  <2>2. CASE ~StopBegins(c, "fail")
    <3>1. /\ UNCHANGED <<child, marker, core, signaled, ours>>
          /\ target' = [target EXCEPT ![c] = marker]
          /\ Goto(c, IF marker = "none" THEN "probing" ELSE "previous")
      BY <1>6, <2>2 DEF Opening, processes
    <3>2. Running' = Running  BY <3>1 DEF Running, Alive
    <3>3. \A d \in Callers \ {c} : pc'[d] = pc[d] /\ target'[d] = target[d]
      BY <3>1 DEF Goto, TypeOK
    <3>4. target'[c] = marker /\ pc'[c] = IF marker = "none" THEN "probing" ELSE "previous"
      BY <3>1 DEF Goto, TypeOK
    <3>5. QED  BY <3>1, <3>2, <3>3, <3>4, NoneRuns DEF Marked, Orphan
  <2>3. QED  BY <2>1, <2>2
<1>7. ASSUME NEW c \in Callers, Probing(c) PROVE Marked'
  <2>1. CASE Serving # {}  BY <1>7, <2>1, StopBeginsMarked DEF Probing
  <2>2. CASE Serving = {}
    <3>1. /\ UNCHANGED <<child, marker, target, core, signaled, ours>>
          /\ Goto(c, "spawning") /\ pc[c] = "probing"
      BY <1>7, <2>2 DEF Probing, processes
    <3>2. Running' = Running  BY <3>1 DEF Running, Alive
    <3>3. \A d \in Callers \ {c} : pc'[d] = pc[d]  BY <3>1 DEF Goto, TypeOK
    <3>4. pc'[c] = "spawning"  BY <3>1 DEF Goto, TypeOK
    <3>5. QED  BY <3>1, <3>2, <3>3, <3>4 DEF Marked, Orphan
  <2>3. QED  BY <2>1, <2>2
<1>8. ASSUME NEW c \in Callers, Previous(c) \/ Waiting(c) \/ Spawning(c) PROVE Marked'
  BY <1>8, PreviousMarked, WaitingMarked, SpawningMarked
<1>9. ASSUME NEW p \in Processes, Boots(p) \/ Obeys(p) \/ Dies(p) PROVE Marked'
  <2>1. UNCHANGED <<child, marker, target, pc, ours>>
    BY <1>9 DEF Boots, Obeys, Dies, command
  <2>2. Running' \subseteq Running
    <3>1. CASE Exits(p)  BY <3>1, ExitsEffect
    <3>2. CASE ~Exits(p)
      <4>1. UNCHANGED signaled /\ \E s \in {"serving", "closing"} : core' = [core EXCEPT ![p] = s]
        BY <1>9, <3>2 DEF Boots, Obeys, Dies
      <4>2. p \in Alive  BY <1>9 DEF Boots, Obeys, Dies, Alive, TypeOK
      <4>3. QED  BY <4>1, <4>2, PortEffect DEF Running
    <3>3. QED  BY <3>1, <3>2
  <2>3. QED  BY <2>1, <2>2, StillMarked
<1>10. ASSUME NEW p \in Processes, HandleExit(p) PROVE Marked'
  BY <1>10, HandleExitMarked
<1>11. QED  BY <1>1, <1>2, <1>3, <1>4, <1>5, <1>6, <1>7, <1>8, <1>9, <1>10 DEF Next, Step

LEMMA MarkerInit == Init => MarkerInv
<1> SUFFICES ASSUME Init PROVE MarkerInv  OBVIOUS
<1>1. Running = {}  BY DEF Init, Running, Alive
<1>2. Configured  BY DEF Init, Configured
<1>3. QED  BY <1>1, <1>2, TypeInit DEF Init, MarkerInv, OneCorePerRun, Marked, Orphan

LEMMA MarkerStep == MarkerInv /\ [Next]_vars => MarkerInv'
<1> SUFFICES ASSUME MarkerInv, [Next]_vars PROVE MarkerInv'  OBVIOUS
<1>1. TypeOK' /\ OneCorePerRun' /\ Configured'
  BY TypeStep, OneCoreStep, ConfiguredStep DEF MarkerInv
<1>2. ASSUME mishaps' \subseteq {"crossed"} PROVE Marked'
  BY <1>2, MishapsStay, MarkedStep DEF MarkerInv
<1>3. QED  BY <1>1, <1>2 DEF MarkerInv

\* A core that runs is the child or is named by the marker file, after any crash
\* and whatever commands cross, unless one of the mishaps has happened
\* (NoStrayCore).
THEOREM NoCoreIsLost == Spec => []NoStrayCore
<1>1. MarkerInv => NoStrayCore  BY DEF MarkerInv, Marked, NoStrayCore
<1>2. QED  BY <1>1, MarkerInit, MarkerStep, PTL DEF Spec

-----------------------------------------------------------------------------
(* What the status tells *)

\* An application that does not run has nothing under way.
Grounded == ~app => status = "stopped" /\ AllIdle

\* A start that may already have told the child of another to stop.
Replacing == {"waiting", "probing", "spawning"}

\* A status that says that the core runs is wrong only while a command is under
\* way that will put it right.
StatusTrue ==
    /\ child \in Running => status = "running"
    /\ status = "running" /\ child = "none" => \E c \in Callers : pc[c] = "stopping"
    /\ status = "running" /\ child # "none" =>
          /\ child \in ours
          /\ \/ child \in Running \/ core[child] = "exited"
             \/ \E c \in Callers : pc[c] \in Replacing

StatusInv ==
    /\ TypeOK
    /\ OneCorePerRun
    /\ Grounded
    /\ mishaps = {} => StatusTrue

LEMMA GroundedStep ==
    ASSUME TypeOK, Grounded, [Next]_vars
    PROVE  Grounded'
<1>1. CASE UNCHANGED vars  BY <1>1 DEF vars, command, Grounded, AllIdle
<1>2. CASE AppEnds  BY <1>2 DEF AppEnds, Grounded, AllIdle
<1>3. CASE app' /\ ~AppEnds  BY <1>3 DEF Grounded
<1>4. CASE Launch \/ UpdateConfig  BY <1>3, <1>4 DEF Launch, UpdateConfig, AppEnds, Grounded
<1>5. CASE Crash  BY <1>2, <1>5 DEF Crash
<1>6. ASSUME NEW c \in Callers, Command(c) PROVE Grounded'
  BY <1>6 DEF Command, Grounded
<1>7. ASSUME NEW c \in Callers, Step(c) PROVE Grounded'
  <2>1. pc[c] # "idle"
    BY <1>7 DEF Step, Loading, StopEnds, Opening, Previous, Waiting, Probing, Spawning
  <2>2. app  BY <2>1 DEF Grounded, AllIdle
  <2>3. AppEnds \/ app' = app
    BY <1>7 DEF Step, Loading, StopEnds, Opening, Previous, Waiting, Probing, Spawning
  <2>4. QED  BY <1>2, <2>2, <2>3 DEF Grounded
<1>8. ASSUME NEW p \in Processes, Boots(p) \/ Obeys(p) \/ Dies(p) \/ HandleExit(p)
      PROVE  Grounded'
  <2>1. UNCHANGED <<app, pc>>  BY <1>8 DEF Boots, Obeys, Dies, HandleExit, command
  <2>2. status = "stopped" => status' = "stopped"  BY <1>8 DEF Boots, Obeys, Dies, HandleExit
  <2>3. QED  BY <2>1, <2>2 DEF Grounded, AllIdle
<1>9. QED  BY <1>1, <1>4, <1>5, <1>6, <1>7, <1>8 DEF Next

LEMMA StopBeginsStatus ==
    ASSUME TypeOK, StatusTrue, NEW c \in Callers, NEW part \in {"stop", "start", "fail", "quit"},
           StopBegins(c, part)
    PROVE  StatusTrue'
<1>1. child' = "none" /\ pc'[c] = "stopping"  BY DEF StopBegins, Goto, TypeOK
<1>2. "none" \notin Running'  BY StopBeginsEffect, NoneRuns
<1>3. QED  BY <1>1, <1>2 DEF StatusTrue

LEMMA AppEndsStatus ==
    ASSUME TypeOK, AppEnds, UNCHANGED signaled
    PROVE  StatusTrue'
<1>1. Running' = Running  BY AppEndsEffect DEF Running
<1>2. child' = "none" /\ status' = "stopped"  BY DEF AppEnds
<1>3. QED  BY <1>1, <1>2, NoneRuns DEF StatusTrue

\* The child, the cores and the status stay as they are, and so do the commands
\* that will put a wrong status right.
LEMMA StatusKept ==
    ASSUME StatusTrue, UNCHANGED <<child, status, core, ours>>, Running' = Running,
           \A c \in Callers : /\ pc[c] = "stopping" => pc'[c] = "stopping"
                              /\ pc[c] \in Replacing => pc'[c] \in Replacing
    PROVE  StatusTrue'
BY DEF StatusTrue

\* A start is under way that will take the place of the child.
LEMMA StatusReplaced ==
    ASSUME StatusTrue, UNCHANGED <<child, status, ours>>, Running' \subseteq Running,
           NEW c \in Callers, pc'[c] \in Replacing,
           \A d \in Callers : pc[d] = "stopping" => pc'[d] = "stopping"
    PROVE  StatusTrue'
BY DEF StatusTrue

LEMMA StopEndsStatus ==
    ASSUME TypeOK, NEW c \in Callers, StopEnds(c), mishaps' = {}
    PROVE  StatusTrue'
<1>1. child = "none"  BY DEF StopEnds
<1>2. CASE AppEnds  BY <1>2, AppEndsStatus DEF StopEnds
<1>3. CASE ~AppEnds
  <2>1. UNCHANGED <<child, core, signaled>> /\ status' \in {"stopped", "error", "starting"}
    BY <1>3 DEF StopEnds
  <2>2. Running' = Running  BY <2>1 DEF Running, Alive
  <2>3. QED  BY <1>1, <2>1, <2>2, NoneRuns DEF StatusTrue
<1>4. QED  BY <1>2, <1>3

LEMMA OpeningStatus ==
    ASSUME TypeOK, StatusTrue, NEW c \in Callers, Opening(c)
    PROVE  StatusTrue'
<1>1. CASE StopBegins(c, "fail")  BY <1>1, StopBeginsStatus
<1>2. CASE ~StopBegins(c, "fail")
  <2>1. /\ UNCHANGED <<child, status, core, signaled, ours>>
        /\ pc[c] = "opening" /\ \E label : Goto(c, label)
    BY <1>2 DEF Opening, processes
  <2>2. Running' = Running  BY <2>1 DEF Running, Alive
  <2>3. \A d \in Callers : d # c => pc'[d] = pc[d]  BY <2>1 DEF Goto, TypeOK
  <2>4. QED  BY <2>1, <2>2, <2>3, StatusKept DEF Replacing
<1>3. QED  BY <1>1, <1>2

LEMMA PreviousStatus ==
    ASSUME TypeOK, StatusTrue, NEW c \in Callers, Previous(c)
    PROVE  StatusTrue'
<1>1. UNCHANGED <<child, status, core, ours>>  BY DEF Previous
<1>2. Running' \subseteq Running  BY <1>1 DEF Previous, Running, Alive
<1>3. pc'[c] \in {"waiting", "probing"} /\ \A d \in Callers : d # c => pc'[d] = pc[d]
  BY DEF Previous, Goto, TypeOK
<1>4. pc[c] = "previous"  BY DEF Previous
<1>5. QED  BY <1>1, <1>2, <1>3, <1>4, StatusReplaced DEF Replacing

LEMMA WaitingStatus ==
    ASSUME TypeOK, StatusTrue, NEW c \in Callers, Waiting(c)
    PROVE  StatusTrue'
<1>1. UNCHANGED <<child, status, ours>>  BY DEF Waiting
<1>2. Running' \subseteq Running
  <2>1. CASE target[c] \in Alive /\ Exits(target[c])  BY <2>1, ExitsEffect DEF Alive
  <2>2. CASE UNCHANGED <<core, signaled>>  BY <2>2 DEF Running, Alive
  <2>3. QED  BY <2>1, <2>2 DEF Waiting
<1>3. pc'[c] = "probing" /\ \A d \in Callers : d # c => pc'[d] = pc[d]
  BY DEF Waiting, Goto, TypeOK
<1>4. pc[c] = "waiting"  BY DEF Waiting
<1>5. QED  BY <1>1, <1>2, <1>3, <1>4, StatusReplaced DEF Replacing

LEMMA ProbingStatus ==
    ASSUME TypeOK, StatusTrue, NEW c \in Callers, Probing(c)
    PROVE  StatusTrue'
<1>1. CASE Serving # {}  BY <1>1, StopBeginsStatus DEF Probing
<1>2. CASE Serving = {}
  <2>1. /\ UNCHANGED <<child, status, core, signaled, ours>>
        /\ Goto(c, "spawning") /\ pc[c] = "probing"
    BY <1>2 DEF Probing, processes
  <2>2. Running' = Running  BY <2>1 DEF Running, Alive
  <2>3. pc'[c] = "spawning" /\ \A d \in Callers : d # c => pc'[d] = pc[d]
    BY <2>1 DEF Goto, TypeOK
  <2>4. QED  BY <2>1, <2>2, <2>3, StatusReplaced DEF Replacing
<1>3. QED  BY <1>1, <1>2

LEMMA SpawningStatus ==
    ASSUME TypeOK, NEW c \in Callers, Spawning(c)
    PROVE  StatusTrue'
<1>1. PICK p \in Unused : child' = p /\ ours' = ours \cup {p} /\ Running' = Running \cup {p}
  BY SpawningEffect
<1>2. p # "none"  BY NoneIsNoProcess DEF Unused
<1>3. status' = "running"  BY DEF Spawning
<1>4. QED  BY <1>1, <1>2, <1>3 DEF StatusTrue

\* A core that ends is heard of, if it is the child.
LEMMA ProcessStatus ==
    ASSUME TypeOK, StatusTrue, NEW p \in Processes, Boots(p) \/ Obeys(p) \/ Dies(p)
    PROVE  StatusTrue'
<1>1. UNCHANGED <<child, status, pc, ours>>  BY DEF Boots, Obeys, Dies, command
<1>2. p \in Alive  BY DEF Boots, Obeys, Dies, Alive, TypeOK
<1>3. \A q \in Processes \ {p} : core'[q] = core[q]  BY DEF Boots, Obeys, Dies, Exits, TypeOK
<1>4. Running' \subseteq Running /\ Running \ {p} \subseteq Running'
      /\ (p \in Running => p \in Running' \/ core'[p] = "exited" \/ p \notin ours)
  <2>1. CASE Exits(p)
    <3>1. core'[p] = "exited" \/ p \notin ours  BY <2>1 DEF Exits, TypeOK
    <3>2. QED  BY <2>1, <3>1, ExitsEffect
  <2>2. CASE ~Exits(p)
    <3>1. UNCHANGED signaled /\ \E s \in {"serving", "closing"} : core' = [core EXCEPT ![p] = s]
      BY <2>2 DEF Boots, Obeys, Dies
    <3>2. Running' = Running  BY <1>2, <3>1, PortEffect DEF Running
    <3>3. QED  BY <3>2
  <2>3. QED  BY <2>1, <2>2
<1>5. core[p] # "exited"  BY <1>2 DEF Alive
<1>6. child \in Processes \cup {"none"}  BY DEF TypeOK
<1>7. CASE child = p
  BY <1>1, <1>4, <1>5, <1>7 DEF StatusTrue
<1>8. CASE child # p
  <2>1. child # "none" => core'[child] = core[child]  BY <1>3, <1>6, <1>8
  <2>2. child \in Running' <=> child \in Running  BY <1>4, <1>8
  <2>3. QED  BY <1>1, <2>1, <2>2 DEF StatusTrue
<1>9. QED  BY <1>7, <1>8

\* Only the exit of the child, or of a core after it was stopped, is reported.
LEMMA HandleExitStatus ==
    ASSUME TypeOK, StatusTrue, NEW p \in Processes, HandleExit(p), mishaps' = {}
    PROVE  StatusTrue'
<1>1. Running' = Running /\ p \notin Running  BY HandleExitEffect DEF Running
<1>2. child' = child  BY DEF HandleExit
<1>3. CASE status = "stopped"
  <2>1. status' = "stopped"  BY <1>3 DEF HandleExit
  <2>2. child \notin Running  BY <1>3 DEF StatusTrue
  <2>3. QED  BY <1>1, <1>2, <2>1, <2>2 DEF StatusTrue
<1>4. CASE status # "stopped"
  <2>1. status' = "error" /\ child \in {"none", p}  BY <1>4 DEF HandleExit
  <2>2. child \notin Running  BY <1>1, <2>1, NoneRuns
  <2>3. QED  BY <1>1, <1>2, <2>1, <2>2 DEF StatusTrue
<1>5. QED  BY <1>3, <1>4

LEMMA StatusStep ==
    ASSUME TypeOK, Grounded, StatusTrue, [Next]_vars, mishaps' = {}
    PROVE  StatusTrue'
<1>1. CASE UNCHANGED vars
  <2>1. Running' = Running  BY <1>1 DEF vars, processes, Running, Alive
  <2>2. QED  BY <1>1, <2>1, StatusKept DEF vars, command, processes
<1>2. CASE Crash  BY <1>2, AppEndsStatus DEF Crash
<1>3. CASE UpdateConfig
  <2>1. UNCHANGED <<child, status, core, signaled, ours, pc>>
    BY <1>3 DEF UpdateConfig, command, processes
  <2>2. Running' = Running  BY <2>1 DEF Running, Alive
  <2>3. QED  BY <2>1, <2>2, StatusKept
<1>4. CASE Launch
  <2>1. UNCHANGED <<child, status, core, signaled>> /\ status = "stopped"
    BY <1>4 DEF Launch, processes, Grounded
  <2>2. Running' = Running  BY <2>1 DEF Running, Alive
  <2>3. QED  BY <2>1, <2>2 DEF StatusTrue
<1>5. ASSUME NEW c \in Callers, Command(c) \/ Loading(c) PROVE StatusTrue'
  BY <1>5, StopBeginsStatus DEF Command, Loading
<1>6. ASSUME NEW c \in Callers, Step(c), ~Loading(c) PROVE StatusTrue'
  BY <1>6, StopEndsStatus, OpeningStatus, PreviousStatus, WaitingStatus, ProbingStatus,
     SpawningStatus DEF Step
<1>7. ASSUME NEW p \in Processes, Boots(p) \/ Obeys(p) \/ Dies(p) PROVE StatusTrue'
  BY <1>7, ProcessStatus
<1>8. ASSUME NEW p \in Processes, HandleExit(p) PROVE StatusTrue'
  BY <1>8, HandleExitStatus
<1>9. QED  BY <1>1, <1>2, <1>3, <1>4, <1>5, <1>6, <1>7, <1>8 DEF Next, Step

LEMMA StatusInit == Init => StatusInv
<1> SUFFICES ASSUME Init PROVE StatusInv  OBVIOUS
<1>1. Running = {}  BY DEF Init, Running, Alive
<1>2. QED  BY <1>1, TypeInit DEF Init, StatusInv, OneCorePerRun, Grounded, AllIdle, StatusTrue

LEMMA StatusInvStep == StatusInv /\ [Next]_vars => StatusInv'
<1> SUFFICES ASSUME StatusInv, [Next]_vars PROVE StatusInv'  OBVIOUS
<1>1. TypeOK' /\ OneCorePerRun' /\ Grounded'
  BY TypeStep, OneCoreStep, GroundedStep DEF StatusInv
<1>2. ASSUME mishaps' = {} PROVE StatusTrue'
  <2>1. mishaps = {}  BY <1>2, MishapsStay
  <2>2. QED  BY <1>2, <2>1, StatusStep DEF StatusInv
<1>3. QED  BY <1>1, <1>2 DEF StatusInv

\* When no command is under way, the status says that the core runs if and only if
\* the child does, or has just exited, unless one of the mishaps has happened
\* (StatusTellsCore).
THEOREM StatusIsTrue == Spec => []StatusTellsCore
<1>1. StatusInv => StatusTellsCore
  <2> SUFFICES ASSUME StatusInv, AllIdle, mishaps = {}
               PROVE  /\ status = "running" => child \in Running \/ core[child] = "exited"
                      /\ Running \cap ours # {} => status = "running"
    BY DEF StatusTellsCore
  <2>1. \A c \in Callers : pc[c] # "stopping" /\ pc[c] \notin Replacing
    BY DEF AllIdle, Replacing
  <2>2. StatusTrue /\ Running \cap ours \subseteq {child}
    BY DEF StatusInv, OneCorePerRun
  <2>3. QED  BY <2>1, <2>2 DEF StatusTrue
<1>2. QED  BY <1>1, StatusInit, StatusInvStep, PTL DEF Spec

-----------------------------------------------------------------------------
(* Commands given one at a time *)

\* A start under way has no child, and the child that runs is of this run.
AloneInv ==
    /\ TypeOK
    /\ OneCorePerRun
    /\ "overwritten" \notin mishaps
    /\ child \in Running => child \in ours
    /\ \A c \in Callers : pc[c] \notin Resting => child = "none"

OneCaller == \A c, d \in Callers : c = d

LEMMA AloneInit == Init => AloneInv
<1> SUFFICES ASSUME Init PROVE AloneInv  OBVIOUS
<1>1. Running = {}  BY DEF Init, Running, Alive
<1>2. QED  BY <1>1, TypeInit DEF Init, AloneInv, OneCorePerRun, Resting

\* The only step that may overwrite a child is a spawn.
LEMMA OverwrittenBySpawn ==
    ASSUME [Next]_vars, \A c \in Callers : ~Spawning(c), "overwritten" \notin mishaps
    PROVE  "overwritten" \notin mishaps'
<1>1. \A c \in Callers : \A part : StopBegins(c, part) => "overwritten" \notin mishaps'
  BY DEF StopBegins, Discarded
<1>2. CASE UNCHANGED vars  BY <1>2 DEF vars
<1>3. CASE Crash \/ Launch \/ UpdateConfig  BY <1>3 DEF Crash, Launch, UpdateConfig
<1>4. ASSUME NEW c \in Callers, Command(c) \/ Loading(c) \/ StopEnds(c) \/ Opening(c)
      PROVE  "overwritten" \notin mishaps'
  BY <1>1, <1>4 DEF Command, Loading, StopEnds, Opening
<1>5. ASSUME NEW c \in Callers, Previous(c) \/ Waiting(c) \/ Probing(c)
      PROVE  "overwritten" \notin mishaps'
  BY <1>1, <1>5 DEF Previous, Waiting, Probing
<1>6. ASSUME NEW p \in Processes, Boots(p) \/ Obeys(p) \/ Dies(p) \/ HandleExit(p)
      PROVE  "overwritten" \notin mishaps'
  BY <1>6 DEF Boots, Obeys, Dies, HandleExit
<1>7. QED  BY <1>2, <1>3, <1>4, <1>5, <1>6 DEF Next, Step

LEMMA SpawnAlone ==
    ASSUME OneCaller, AloneInv, NEW c \in Callers, Spawning(c)
    PROVE  /\ "overwritten" \notin mishaps'
           /\ (child \in Running => child \in ours)'
           /\ (\A d \in Callers : pc[d] \notin Resting => child = "none")'
<1>1. child = "none"  BY DEF Spawning, AloneInv, Resting
<1>2. "overwritten" \notin mishaps'  BY <1>1 DEF Spawning, AloneInv
<1>3. pc'[c] = "idle"  BY DEF Spawning, Goto, AloneInv, TypeOK
<1>4. \A d \in Callers : pc'[d] = "idle"  BY <1>3 DEF OneCaller
<1>5. child' \in ours'  BY SpawningEffect DEF AloneInv
<1>6. QED  BY <1>2, <1>4, <1>5 DEF Resting

LEMMA AloneStep == OneCaller /\ AloneInv /\ [Next]_vars => AloneInv'
<1> SUFFICES ASSUME OneCaller, AloneInv, [Next]_vars PROVE AloneInv'  OBVIOUS
<1>1. TypeOK' /\ OneCorePerRun'  BY TypeStep, OneCoreStep DEF AloneInv
<1>2. ASSUME NEW c \in Callers, Spawning(c) PROVE AloneInv'
  BY <1>1, <1>2, SpawnAlone DEF AloneInv
<1>3. ASSUME \A c \in Callers : ~Spawning(c) PROVE AloneInv'
  <2>1. "overwritten" \notin mishaps'  BY <1>3, OverwrittenBySpawn DEF AloneInv
  <2>2. CASE ChildStopped \/ RunEnded
    <3>1. child' = "none" /\ "none" \notin Running'
      BY <2>2, NoneRuns DEF ChildStopped, RunEnded
    <3>2. QED  BY <1>1, <2>1, <3>1 DEF AloneInv
  <2>3. CASE OneLost \/ ExitHeard
    <3>1. child' = child /\ NoneBegins  BY <2>3 DEF OneLost, ExitHeard
    <3>2. (child \in Running => child \in ours)'
      BY <2>3, <3>1 DEF OneLost, ExitHeard, AloneInv
    <3>3. \A c \in Callers : pc'[c] \notin Resting => child' = "none"
      BY <3>1 DEF AloneInv, NoneBegins
    <3>4. QED  BY <1>1, <2>1, <3>2, <3>3 DEF AloneInv
  <2>4. TypeOK  BY DEF AloneInv
  <2>5. QED  BY <1>3, <2>2, <2>3, <2>4, StepShape
<1>4. QED  BY <1>2, <1>3

\* The core of this run and those of earlier ones, as CoreSupervisor sees them.
Own == Running \cap ours
Left == Running \ ours

LEMMA OwnIsChild ==
    ASSUME AloneInv
    PROVE  Own = {} \/ Own = {child}
BY DEF AloneInv, OneCorePerRun, Own

LEMMA StepSimulation ==
    ASSUME OneCaller, AloneInv, [Next]_vars
    PROVE  [Supervisor!Next]_<<Own, Left>>
<1> USE OwnIsChild DEF Own, Left
<1>1. CASE ChildStopped
  <2>1. Own' = {} /\ Left' = Left  BY <1>1 DEF ChildStopped, AloneInv
  <2>2. CASE Own = {}  BY <2>1, <2>2
  <2>3. CASE Own # {}  BY <2>1, <2>3 DEF Supervisor!Next, Supervisor!End
  <2>4. QED  BY <2>2, <2>3
<1>2. CASE RunEnded
  <2>1. Own' = {} /\ Left' = Left \cup Own  BY <1>2 DEF RunEnded
  <2>2. CASE Own = {}  BY <2>1, <2>2
  <2>3. CASE Own # {}  BY <2>1, <2>3 DEF Supervisor!Next, Supervisor!Abandon
  <2>4. QED  BY <2>2, <2>3
<1>3. ASSUME NEW c \in Callers, Spawning(c) PROVE [Supervisor!Next]_<<Own, Left>>
  <2>1. child = "none"  BY <1>3 DEF Spawning, AloneInv, Resting
  <2>2. Own = {}  BY <2>1, NoneRuns
  <2>3. PICK p \in Unused : ours' = ours \cup {p} /\ Running' = Running \cup {p} /\ p \notin Alive
    BY <1>3, SpawningEffect DEF AloneInv
  <2>4. p \in Processes /\ p \notin Running  BY <2>3 DEF Unused, Running
  <2>5. Own' = {p} /\ Left' = Left  BY <2>2, <2>3, <2>4
  <2>6. QED  BY <2>2, <2>4, <2>5 DEF Supervisor!Next, Supervisor!Spawn
<1>4. CASE OneLost
  <2>1. PICK p \in Processes \cup {"none"} : Running' = Running \ {p} /\ ours' = ours
    BY <1>4 DEF OneLost
  <2>2. CASE p \in Own
    <3>1. Own' = {} /\ Left' = Left  BY <2>1, <2>2
    <3>2. QED  BY <2>2, <3>1 DEF Supervisor!Next, Supervisor!End
  <2>3. CASE p \in Left
    <3>1. Own' = Own /\ Left' = Left \ {p}  BY <2>1, <2>3
    <3>2. QED  BY <2>3, <3>1 DEF Supervisor!Next, Supervisor!Reclaim
  <2>4. CASE p \notin Running  BY <2>1, <2>4
  <2>5. QED  BY <2>2, <2>3, <2>4
<1>5. CASE ExitHeard  BY <1>5 DEF ExitHeard
<1>6. QED  BY <1>1, <1>2, <1>3, <1>4, <1>5, StepShape DEF AloneInv

\* With one command at a time the service keeps the promise of CoreSupervisor: it
\* spawns a core only when the last one of this run has ended or has been told
\* to, and only the end of the application leaves one behind (OneAtATime).
THEOREM SupervisorImplemented == OneCaller => (Spec => OneAtATime)
<1> SUFFICES ASSUME OneCaller PROVE Spec => OneAtATime  OBVIOUS
<1>1. Init => Supervisor!Init
  BY DEF Init, Supervisor!Init, Running, Alive
<1>2. AloneInv /\ [Next]_vars => [Supervisor!Next]_<<Running \cap ours, Running \ ours>>
  BY StepSimulation DEF Own, Left
<1>3. AloneInv /\ [Next]_vars => AloneInv'  BY AloneStep
<1>4. QED  BY <1>1, <1>2, <1>3, AloneInit, PTL DEF Spec, OneAtATime, Supervisor!Spec
=============================================================================
