-------------------------- MODULE GatewayLifecycle --------------------------
(***************************************************************************)
(* Starting and stopping the gateway of claude-code-router: the service in *)
(* the desktop application and the core process it spawns, watches, kills  *)
(* and, after a crash of the application, finds again by a marker file     *)
(* (claude-code-router/src/server/gateway/service.ts, called from          *)
(* src/main/{main,ipc,profile-launch-service}.ts).                         *)
(*                                                                         *)
(* A step is the code between two awaits.  Nothing keeps a start or a stop *)
(* from beginning while another is under way.  A core process first boots, *)
(* answering nobody, then serves its port, and on SIGTERM closes the port  *)
(* before it exits; the event of its exit comes later still.  The gateway  *)
(* is enabled in every configuration here.                                 *)
(*                                                                         *)
(* "mishaps" records the five things that may leave a core process astray  *)
(* or the status wrong; the properties say that nothing else does.         *)
(***************************************************************************)
EXTENDS FiniteSets, Integers

CONSTANTS
    Callers,   \* commands that may be under way together
    Processes, \* core processes, used again once nothing refers to them
    MaxFaults  \* bound: failed starts, slow answers, crashes

ASSUME CallersAssumption == IsFiniteSet(Callers) /\ IsFiniteSet(Processes)
ASSUME MaxFaultsAssumption == MaxFaults \in Nat
ASSUME NoneAssumption == "none" \notin Processes

VARIABLES
    app,      \* whether the application runs
    known,    \* GatewayService.config is set
    child,    \* GatewayService.child
    status,   \* GatewayService.status.state
    marker,   \* the process named by the marker file
    pc,       \* where each caller is
    why,      \* what its stop is part of
    target,   \* the process it found in the marker file
    core,     \* the state of each core process
    signaled, \* core processes told to stop
    ours,     \* core processes spawned by this run of the application
    mishaps,
    faults

command == <<pc, why, target>>
processes == <<core, signaled, ours>>
vars == <<app, known, child, status, marker, command, processes, mishaps, faults>>

Alive == {p \in Processes : core[p] \in {"booting", "serving", "closing"}}
Serving == {p \in Processes : core[p] = "serving"}
\* Processes that live and that nobody has told to stop.
Running == Alive \ signaled
\* Ids that stand for no process: the next spawn takes one of them.
Unused == {p \in Processes : core[p] = "gone"} \ {child, marker}

Init ==
    /\ app = FALSE
    /\ known = FALSE
    /\ child = "none"
    /\ status = "stopped"
    /\ marker = "none"
    /\ pc = [c \in Callers |-> "idle"]
    /\ why = [c \in Callers |-> "none"]
    /\ target = [c \in Callers |-> "none"]
    /\ core = [p \in Processes |-> "gone"]
    /\ signaled = {}
    /\ ours = {}
    /\ mishaps = {}
    /\ faults = 0

Fault == faults < MaxFaults /\ faults' = faults + 1

\* MUTANT of Exits: an ended process is still counted among those told to stop.
ExitsSignaled(p) ==
    /\ core' = [core EXCEPT ![p] = IF p \in ours THEN "exited" ELSE "gone"]
    /\ UNCHANGED signaled
\* The process ends; the application hears of it if it spawned it.
Exits(p) ==
    /\ core' = [core EXCEPT ![p] = IF p \in ours THEN "exited" ELSE "gone"]
    /\ signaled' = signaled \ {p}

Goto(c, label) == pc' = [pc EXCEPT ![c] = label]

-----------------------------------------------------------------------------
\* MUTANT of MarkerAfterStop: the file is removed whoever wrote it.
MarkerRemoved == "none"
\* removeManagedCoreGatewayMarker knows the file only from a configuration: the
\* first stop of a run leaves it for stopPreviousManagedCoreGateway.
MarkerAfterStop == IF known THEN "none" ELSE marker

\* The file that is removed names a running core nothing else refers to.
Discarded == IF known /\ marker \in Running \ {child} THEN {"discarded"} ELSE {}

\* MUTANT of StopBegins: the process is told to stop only when it serves.
StopBeginsServing(c, part) ==
    /\ Goto(c, "stopping")
    /\ why' = [why EXCEPT ![c] = part]
    /\ child' = "none"
    /\ signaled' = signaled \cup ({child} \cap Serving)
    /\ marker' = MarkerAfterStop
    /\ mishaps' = mishaps \cup Discarded
    /\ UNCHANGED <<target, core, ours>>
\* GatewayService.stop up to its first await.
StopBegins(c, part) ==
    /\ Goto(c, "stopping")
    /\ why' = [why EXCEPT ![c] = part]
    /\ child' = "none"
    /\ signaled' = signaled \cup ({child} \cap Alive)
    /\ marker' = MarkerAfterStop
    /\ mishaps' = mishaps \cup Discarded
    /\ UNCHANGED <<target, core, ours>>

\* The configuration a launch waited for has been read: start begins.
Loading(c) ==
    /\ pc[c] = "loading"
    /\ StopBegins(c, "start")
    /\ UNCHANGED <<app, known, status, faults>>

\* updateConfig: a configuration saved without a restart is set at once.
UpdateConfig ==
    /\ app /\ ~known
    /\ known' = TRUE
    /\ UNCHANGED <<app, child, status, marker, command, processes, mishaps, faults>>

\* The application's commands: startGateway, restartGateway, saveConfig and the
\* rest call start, which begins with a stop.
Command(c) ==
    /\ app /\ pc[c] = "idle"
    /\ \A d \in Callers : why[d] # "quit"
    /\ Cardinality(Unused) >= Cardinality(Callers)
    /\ \E part \in {"stop", "start", "quit"} : StopBegins(c, part)
    /\ UNCHANGED <<app, known, status, faults>>

\* The process of the application ends; its children live on, unwatched.
AppEnds ==
    /\ app' = FALSE
    /\ known' = FALSE
    /\ child' = "none"
    /\ status' = "stopped"
    /\ pc' = [c \in Callers |-> "idle"]
    /\ why' = [c \in Callers |-> "none"]
    /\ target' = [c \in Callers |-> "none"]
    /\ core' = [p \in Processes |-> IF core[p] = "exited" THEN "gone" ELSE core[p]]
    /\ ours' = {}

\* The rest of stop, and of the caller that was waiting for it.
StopEnds(c) ==
    /\ pc[c] = "stopping"
    /\ mishaps' = mishaps \cup (IF child # "none" THEN {"crossed"} ELSE {})
    /\ \/ /\ why[c] = "quit"
          /\ AppEnds
       \/ /\ why[c] \in {"stop", "fail"}
          /\ status' = IF why[c] = "stop" THEN "stopped" ELSE "error"
          /\ Goto(c, "idle")
          /\ why' = [why EXCEPT ![c] = "none"]
          /\ UNCHANGED <<app, known, child, target, core, ours>>
       \/ /\ why[c] = "start"
          /\ status' = "starting"
          /\ known' = TRUE
          /\ Goto(c, "opening")
          /\ UNCHANGED <<app, child, why, target, core, ours>>
    /\ UNCHANGED <<marker, signaled, faults>>

-----------------------------------------------------------------------------
\* The plugins start, the server listens and the proxy attaches to it; any of
\* it may fail.  Then the marker file is read.
Opening(c) ==
    /\ pc[c] = "opening"
    /\ \/ /\ Fault
          /\ StopBegins(c, "fail")
       \/ /\ target' = [target EXCEPT ![c] = marker]
          /\ Goto(c, IF marker = "none" THEN "probing" ELSE "previous")
          /\ UNCHANGED <<child, marker, why, processes, mishaps, faults>>
    /\ UNCHANGED <<app, known, status>>

\* stopPreviousManagedCoreGateway: only a process that answers with the id in
\* the marker is killed; an answer may come too late to be counted.
Previous(c) ==
    LET answers == target[c] \in Serving IN
    /\ pc[c] = "previous"
    /\ \/ /\ answers
          /\ signaled' = signaled \cup {target[c]}
          /\ Goto(c, "waiting")
          /\ UNCHANGED <<mishaps, faults>>
       \/ /\ IF answers THEN Fault ELSE UNCHANGED faults
          /\ Goto(c, "probing")
          /\ mishaps' = mishaps \cup (IF target[c] \in Running THEN {"missed"} ELSE {})
          /\ UNCHANGED signaled
    /\ UNCHANGED <<app, known, child, status, marker, why, target, core, ours>>

\* waitForCoreGatewayStop, then SIGKILL when the process is slow.
Waiting(c) ==
    /\ pc[c] = "waiting"
    /\ \/ /\ Serving = {}
          /\ UNCHANGED <<core, signaled, faults>>
       \/ /\ Fault
          /\ IF target[c] \in Alive THEN Exits(target[c]) ELSE UNCHANGED <<core, signaled>>
    /\ marker' = "none"
    /\ mishaps' = mishaps \cup (IF marker \in Running THEN {"discarded"} ELSE {})
    /\ Goto(c, "probing")
    /\ UNCHANGED <<app, known, child, status, why, target, ours>>

\* isCoreGatewayHealthy before the spawn.
Probing(c) ==
    /\ pc[c] = "probing"
    /\ IF Serving # {}
       THEN StopBegins(c, "fail")
       ELSE /\ Goto(c, "spawning")
            /\ UNCHANGED <<child, marker, why, target, processes, mishaps>>
    /\ UNCHANGED <<app, known, status, faults>>

\* MUTANT of Spawning: the marker is not written.
SpawnUnmarked(c) ==
    /\ pc[c] = "spawning"
    /\ \E p \in Unused :
          /\ child' = p
          /\ core' = [core EXCEPT ![p] = "booting"]
          /\ ours' = ours \cup {p}
    /\ marker' = marker
    /\ UNCHANGED signaled
    /\ mishaps' = mishaps \cup (IF child # "none" THEN {"overwritten"} ELSE {})
    /\ status' = "running"
    /\ pc' = [pc EXCEPT ![c] = "idle"]
    /\ why' = [why EXCEPT ![c] = "none"]
    /\ target' = [target EXCEPT ![c] = "none"]
    /\ UNCHANGED <<app, known, faults>>
\* The system's proxy has been read: spawnGatewayProcess, the marker file and
\* the new status, without an await between them.
Spawning(c) ==
    /\ pc[c] = "spawning"
    /\ \E p \in Unused :
          /\ child' = p
          /\ marker' = p
          /\ core' = [core EXCEPT ![p] = "booting"]
          /\ ours' = ours \cup {p}
    /\ UNCHANGED signaled
    /\ mishaps' = mishaps \cup (IF child # "none" THEN {"overwritten"} ELSE {})
    /\ status' = "running"
    /\ Goto(c, "idle")
    /\ why' = [why EXCEPT ![c] = "none"]
    /\ target' = [target EXCEPT ![c] = "none"]
    /\ UNCHANGED <<app, known, faults>>

Step(c) ==
    \/ Loading(c)
    \/ StopEnds(c) \/ Opening(c) \/ Previous(c) \/ Waiting(c) \/ Probing(c) \/ Spawning(c)

-----------------------------------------------------------------------------
\* A process that cannot have the port exits.
Boots(p) ==
    /\ core[p] = "booting"
    /\ IF Serving = {}
       THEN core' = [core EXCEPT ![p] = "serving"] /\ UNCHANGED signaled
       ELSE Exits(p)
    /\ UNCHANGED <<app, known, child, status, marker, command, ours, mishaps, faults>>

\* SIGTERM: the port is closed, then the process exits.
Obeys(p) ==
    /\ p \in signaled
    /\ IF core[p] = "serving"
       THEN core' = [core EXCEPT ![p] = "closing"] /\ UNCHANGED signaled
       ELSE Exits(p)
    /\ UNCHANGED <<app, known, child, status, marker, command, ours, mishaps, faults>>

\* A process ends by itself.
Dies(p) ==
    /\ p \in Alive
    /\ Fault
    /\ Exits(p)
    /\ UNCHANGED <<app, known, child, status, marker, command, ours, mishaps>>

\* handleCoreGatewayExit: whichever process it was, unless all is stopped.
HandleExit(p) ==
    /\ core[p] = "exited"
    /\ core' = [core EXCEPT ![p] = "gone"]
    /\ IF status = "stopped"
       THEN UNCHANGED <<status, marker, mishaps>>
       ELSE /\ status' = "error"
            /\ marker' = IF known THEN "none" ELSE marker
            /\ mishaps' = mishaps \cup (IF child \notin {"none", p} THEN {"lateExit"} ELSE {})
    /\ ours' = ours \ {p}
    /\ UNCHANGED <<app, known, child, command, signaled, faults>>

Crash ==
    /\ app /\ Fault
    /\ AppEnds
    /\ UNCHANGED <<marker, signaled, mishaps>>

\* A launch of the application: startConfiguredServices reads the configuration
\* (Loading), then calls start.
Launch ==
    /\ ~app
    /\ Cardinality(Unused) >= Cardinality(Callers)
    /\ app' = TRUE
    /\ \E c \in Callers : Goto(c, "loading")
    /\ UNCHANGED <<known, child, status, marker, why, target, processes, mishaps, faults>>

Next ==
    \/ Crash \/ Launch \/ UpdateConfig
    \/ \E c \in Callers : Command(c) \/ Step(c)
    \/ \E p \in Processes : Boots(p) \/ Obeys(p) \/ Dies(p) \/ HandleExit(p)

Spec == Init /\ [][Next]_vars

\* Every await of the service is answered, the operating system runs the core
\* processes, and somebody starts the application again.
Fairness ==
    /\ \A c \in Callers : WF_vars(Step(c))
    /\ \A p \in Processes : WF_vars(Boots(p)) /\ WF_vars(Obeys(p)) /\ WF_vars(HandleExit(p))
    /\ WF_vars(Launch)

FairSpec == Spec /\ Fairness

-----------------------------------------------------------------------------
TypeOK ==
    /\ app \in BOOLEAN /\ known \in BOOLEAN
    /\ child \in Processes \cup {"none"}
    /\ status \in {"stopped", "starting", "running", "error"}
    /\ marker \in Processes \cup {"none"}
    /\ pc \in [Callers -> {"idle", "loading", "stopping", "opening", "previous",
                           "waiting", "probing", "spawning"}]
    /\ why \in [Callers -> {"none", "stop", "start", "fail", "quit"}]
    /\ target \in [Callers -> Processes \cup {"none"}]
    /\ core \in [Processes -> {"gone", "booting", "serving", "closing", "exited"}]
    /\ signaled \subseteq Alive
    /\ ours \subseteq Processes
    /\ mishaps \subseteq {"crossed", "missed", "overwritten", "discarded", "lateExit"}
    /\ faults \in 0..MaxFaults

AllIdle == \A c \in Callers : pc[c] = "idle"

\* Whatever commands and exits cross each other, the core process of this run is
\* the one the next stop will kill, unless a start took the place of a child.
OneCorePerRun ==
    "overwritten" \notin mishaps => Running \cap ours \subseteq {child}

\* A core process that runs outlives a crash of the application only with the
\* marker file that lets the next start find it.
NoStrayCore ==
    mishaps \subseteq {"crossed"} => Running \subseteq {child, marker}

\* When no command is under way, the status tells whether the core runs; a core
\* that is gone is reported once the event of its exit arrives.
StatusTellsCore ==
    AllIdle /\ mishaps = {} =>
        /\ status = "running" => child \in Running \/ core[child] = "exited"
        /\ Running \cap ours # {} => status = "running"

\* Commands given one at a time keep the promise of CoreSupervisor: no step
\* spawns a core while another of this run has not been told to stop.
Supervisor == INSTANCE CoreSupervisor WITH own <- Running \cap ours, left <- Running \ ours
OneAtATime == Supervisor!Spec

\* The core process of a run that crashed is ended by the next start: it does
\* not keep the port from its successor for good.
OrphanReclaimed ==
    \A p \in Processes :
        (~app /\ p \in Running /\ marker = p)
            ~> (p \notin Running \/ mishaps # {})
=============================================================================
