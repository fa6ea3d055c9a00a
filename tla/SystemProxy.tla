---------------------------- MODULE SystemProxy ----------------------------
(***************************************************************************)
(* How the claude-code-router desktop application takes over the proxy     *)
(* settings of macOS and gives them back                                   *)
(* (claude-code-router/src/server/proxy/{system-proxy,service}.ts and the  *)
(* start and quit sequences of src/main/main.ts).                          *)
(*                                                                         *)
(* A network service has three settings: the HTTP ("web") and HTTPS        *)
(* ("secure") proxies, which the application points at itself, and the     *)
(* SOCKS proxy, which it switches off.  A read is one networksetup command *)
(* and a write is two: the first stores the address and switches the       *)
(* setting on, the second switches it on or off.  An operation can be cut  *)
(* between any two commands: by one that fails, by a crash, or by the      *)
(* application quitting.  What the user had is kept in memory and in a     *)
(* file.                                                                   *)
(*                                                                         *)
(* Two operations can be under way at once: a restore that exceeds its     *)
(* time limit goes on behind the caller's back, and quitting does not wait *)
(* for a start.  The second slot, "late", holds the one that was overtaken.*)
(* There, and in what the names of lossCause say, is where the settings of *)
(* the user can be lost; the properties say that it is only there.         *)
(***************************************************************************)
EXTENDS Integers, Sequences, FiniteSets, SequencesExt

CONSTANTS
    Services,     \* the enabled network services, in the order the system lists them
    Endpoints,    \* the addresses the proxy may listen at
    UserValues,   \* the addresses a user may set
    UserSettings, \* bound: what a user may have set
    MaxFaults     \* bound: failed commands, elapsed time limits, quits and crashes

ASSUME ServicesAssumption ==
    Services \in Seq(ToSet(Services)) /\ IsInjective(Services) /\ Services # <<>>
ASSUME ValuesAssumption ==
    /\ {"off", "none"} \cap (Endpoints \cup UserValues) = {}
    /\ Endpoints \cap UserValues = {}
ASSUME MaxFaultsAssumption == MaxFaults \in Nat

Kind == {"web", "secure", "socks"}
Field == ToSet(Services) \X Kind
Http == ToSet(Services) \X {"web", "secure"}
\* A setting is "off" or points at an address; while it is off it may still
\* hold one.
Choice == UserValues \cup {"off"}
Chosen == {c \in [value : Choice, held : UserValues \cup {"none"}] :
              c.value = "off" \/ c.value = c.held}
ASSUME UserSettingsAssumption == UserSettings \subseteq [Field -> Chosen]
Value == Choice \cup Endpoints
Setting == [Field -> Value]
Address == UserValues \cup Endpoints \cup {"none"}
Snapshot == {s \in [endpoint : Endpoints, set : Setting, held : [Field -> Address]] :
                \A f \in Field : s.set[f] = "off" \/ s.set[f] = s.held[f]}
NoSnapshot == [endpoint |-> "none"]

\* For each service in turn, its settings in the order the code visits them.
InOrder(kinds) ==
    LET k == Len(kinds) IN
    [n \in 1..(Len(Services) * k) |->
        <<Services[((n - 1) \div k) + 1], kinds[((n - 1) % k) + 1]>>]
\* MUTANT of CheckOrder: only the HTTPS proxy tells who manages the settings.
CheckSecureOnly == InOrder(<<"secure">>)
CheckOrder == InOrder(<<"web", "secure">>)
\* MUTANT of ReadOrder: the SOCKS proxy is missing from the snapshot.
ReadNoSocks == InOrder(<<"secure", "web">>)
ReadOrder == InOrder(<<"secure", "socks", "web">>)
WriteOrder == InOrder(<<"web", "secure", "socks">>)

Slot == {"main", "late"}
Other(t) == IF t = "main" THEN "late" ELSE "main"
\* What follows a restore.
Then == {"stop", "attach", "quit", "nothing"}
Task == [pc : {"idle", "check", "undo", "capture", "apply", "rollback", "resume", "launch"},
         enable : BOOLEAN, \* an enable, or a restore
         i : 1..Len(WriteOrder),
         half : BOOLEAN, \* setting i has its address already, and is on
         snap : Snapshot \cup {NoSnapshot}, then : Then]
Idle == [pc |-> "idle", enable |-> FALSE, i |-> 1, half |-> FALSE, snap |-> NoSnapshot,
         then |-> "nothing"]

VARIABLES
    os,        \* the settings of the system: what each points at, or "off"
    held,      \* the address each setting holds, on or off
    disk,      \* the snapshot in system-proxy-snapshot.json
    app,       \* whether the application runs
    mem,       \* SystemProxyManager.snapshot
    endpoint,  \* ProxyService.status.endpoint
    running,   \* ProxyService.status.state is "running"
    seen,      \* ProxyService.status.systemProxy.state
    tasks,     \* the operations under way
    user,      \* the settings the user last chose
    lossCause, \* what has happened that may cost the user a setting
    faults     \* faults so far

vars == <<os, held, disk, app, mem, endpoint, running, seen, tasks, user, lossCause, faults>>

Init ==
    /\ \E choice \in UserSettings :
           /\ os = [f \in Field |-> choice[f].value]
           /\ held = [f \in Field |-> choice[f].held]
    /\ user = os
    /\ disk = NoSnapshot
    /\ app = FALSE
    /\ mem = NoSnapshot
    /\ endpoint \in Endpoints
    /\ running = FALSE
    /\ seen = "inactive"
    /\ tasks = [t \in Slot |-> Idle]
    /\ lossCause = {}
    /\ faults = 0

-----------------------------------------------------------------------------
\* matchesManagedEndpoint: the setting is on and points at the proxy.
ManagedBy(e) == {f \in Http : os[f] = e}

\* sanitizeMacProxySettingsForRestore: never point the system at the proxy.
Sanitized(snap, f) ==
    IF f \in Http /\ snap.set[f] = snap.endpoint THEN "off" ELSE snap.set[f]

Undoing(t) == tasks[t].pc \in {"undo", "rollback"}
Enabling(task) == task.enable \/ task.then = "attach"

\* Setting f, which the user had off, is on: its address has been put back.
TurnedOn(t, f) ==
    /\ Undoing(t) /\ tasks[t].half
    /\ f = WriteOrder[tasks[t].i] /\ Sanitized(tasks[t].snap, f) = "off"
Flickers(f) == \E t \in Slot : TurnedOn(t, f)

\* Operations of these slots that are cut while they put the settings back.
\* "half": an HTTP setting of the user stays on that was off.  "cut": a SOCKS
\* setting does, or the HTTP settings are back, before the SOCKS setting, and
\* a later start recognises nothing.
CutCause(slots) ==
    {"half" : f \in {g \in Http : \E t \in slots : TurnedOn(t, g)}} \cup
    (IF \E t \in slots :
            \/ Undoing(t) /\ ManagedBy(tasks[t].snap.endpoint) = {} /\ os # user
            \/ \E f \in Field \ Http : TurnedOn(t, f)
     THEN {"cut"} ELSE {})

\* Two operations overlap, and one of them takes the settings over.
RaceCause(t, task) ==
    IF tasks[Other(t)].pc # "idle" /\ (Enabling(task) \/ Enabling(tasks[Other(t)]))
    THEN {"raced"} ELSE {}

\* MUTANT of MoreLeft: off by one.
MoreLeftOffByOne(t, order) == tasks[t].i <= Len(order)
\* The operation of slot t has not reached the last of its commands.
MoreLeft(t, order) == tasks[t].i < Len(order)

Fault == faults < MaxFaults /\ faults' = faults + 1

-----------------------------------------------------------------------------
\* The end of an operation of slot t, with the status it reports.
Finish(t, outcome) ==
    /\ tasks' = [tasks EXCEPT ![t] =
          IF tasks[t].enable \/ tasks[t].then = "nothing"
          THEN Idle ELSE [tasks[t] EXCEPT !.pc = "resume", !.snap = NoSnapshot, !.i = 1,
                                          !.half = FALSE]]
    /\ seen' = IF tasks[t].then = "nothing" /\ ~tasks[t].enable THEN seen ELSE outcome

\* MUTANT of KnownSnapshot: what the last run left in the file is not looked at.
SnapshotInMemory == mem
\* The snapshot to restore from: the one in memory, else the one in the file.
KnownSnapshot == IF mem # NoSnapshot THEN mem ELSE disk

\* SystemProxyManager.restore up to its first await.
BeginRestore(t, then) ==
    LET snap == KnownSnapshot
        task == [pc |-> "check", enable |-> FALSE, i |-> 1, half |-> FALSE, snap |-> snap,
                 then |-> then] IN
    /\ mem' = NoSnapshot
    /\ lossCause' = lossCause \cup RaceCause(t, task)
    /\ IF snap = NoSnapshot
       THEN /\ tasks' = [tasks EXCEPT ![t] = [task EXCEPT !.pc = "resume"]]
            /\ seen' = "inactive"
       ELSE /\ tasks' = [tasks EXCEPT ![t] =
                   IF mem # NoSnapshot THEN [task EXCEPT !.pc = "undo"] ELSE task]
            /\ UNCHANGED seen

\* The capture of the settings begins with an empty snapshot.
Capturing(task) ==
    [task EXCEPT !.pc = "capture", !.i = 1, !.half = FALSE,
                 !.snap = [endpoint |-> endpoint, set |-> [f \in Field |-> "off"],
                           held |-> [f \in Field |-> "none"]]]

\* SystemProxyManager.enable up to its first await.
BeginEnable(t) ==
    LET task == [pc |-> "check", enable |-> TRUE, i |-> 1, half |-> FALSE, snap |-> disk,
                 then |-> "nothing"] IN
    /\ tasks' = [tasks EXCEPT ![t] = IF disk = NoSnapshot THEN Capturing(task) ELSE task]
    /\ lossCause' = lossCause \cup RaceCause(t, task)
    /\ UNCHANGED <<mem, seen>>

\* ProxyService.stop and attach: both begin by restoring.  An attach that is
\* not to switch the system proxy, or may not, is a stop here.
Command ==
    /\ app /\ tasks["main"].pc = "idle"
    /\ \E then \in {"stop", "attach"} : BeginRestore("main", then)
    /\ UNCHANGED <<os, held, disk, app, endpoint, running, user, faults>>

\* ProxyService.ensureSystemProxyActive.
Ensure ==
    /\ app /\ tasks["main"].pc = "idle"
    /\ running /\ seen # "active"
    /\ BeginEnable("main")
    /\ UNCHANGED <<os, held, disk, app, endpoint, running, user, faults>>

\* startConfiguredServices at launch: GatewayService.start stops first.
Started ==
    /\ \E t \in Slot : tasks[t].pc = "launch" /\ BeginRestore(t, "attach")
    /\ UNCHANGED <<os, held, disk, app, endpoint, running, user, faults>>

\* stopServicesForQuit.  Whatever is under way goes on.
Quit ==
    /\ app /\ tasks["main"].then # "quit" /\ tasks["late"].pc = "idle"
    /\ Fault
    /\ LET snap == KnownSnapshot
           task == [pc |-> IF snap = NoSnapshot THEN "resume"
                           ELSE IF mem # NoSnapshot THEN "undo" ELSE "check",
                    enable |-> FALSE, i |-> 1, half |-> FALSE, snap |-> snap, then |-> "quit"] IN
       /\ tasks' = [main |-> task, late |-> tasks["main"]]
       /\ lossCause' = lossCause \cup
             (IF tasks["main"].pc # "idle" /\ Enabling(tasks["main"]) THEN {"raced"} ELSE {})
    /\ mem' = NoSnapshot
    /\ UNCHANGED <<os, held, disk, app, endpoint, running, seen, user>>

-----------------------------------------------------------------------------
\* currentProxyUsesManagedEndpoint: one setting is read; a read that fails
\* counts as a setting that is not managed.
Check(t) ==
    LET task == tasks[t]
        f == CheckOrder[task.i]
        \* Nothing is managed: the file is of no use any more.
        NotManaged ==
            /\ disk' = NoSnapshot
            /\ IF task.enable
               THEN tasks' = [tasks EXCEPT ![t] = Capturing(task)] /\ UNCHANGED seen
               ELSE Finish(t, "inactive")
        Unmatched ==
            IF MoreLeft(t, CheckOrder)
            THEN /\ tasks' = [tasks EXCEPT ![t].i = @ + 1]
                 /\ UNCHANGED <<disk, seen>>
            ELSE NotManaged IN
    /\ task.pc = "check"
    /\ \/ /\ os[f] = task.snap.endpoint
          /\ tasks' = [tasks EXCEPT ![t].pc = "undo", ![t].i = 1]
          /\ UNCHANGED <<disk, seen, lossCause, faults>>
       \/ /\ os[f] # task.snap.endpoint
          /\ Unmatched
          /\ UNCHANGED <<lossCause, faults>>
       \/ /\ os[f] = task.snap.endpoint
          /\ Fault
          /\ Unmatched
          /\ lossCause' = lossCause \cup {"blind"}
    /\ UNCHANGED <<os, held, app, mem, endpoint, running, user>>

\* restoreSnapshotAfterEnableFailure, up to its first await.
EnableFails(t) ==
    /\ mem' = NoSnapshot
    /\ IF mem = NoSnapshot
       THEN Finish(t, "error")
       ELSE /\ tasks' = [tasks EXCEPT ![t].pc = "rollback", ![t].i = 1, ![t].half = FALSE,
                                     ![t].snap = mem]
            /\ UNCHANGED seen

\* The two commands of setMacProxySettings: the address, with which the setting
\* is on; then whether it is on.  The first is left out when there is no address.
WriteAddress(t, f, address) ==
    /\ ~tasks[t].half /\ address # "none"
    /\ os' = [os EXCEPT ![f] = address]
    /\ held' = [held EXCEPT ![f] = address]
    /\ tasks' = [tasks EXCEPT ![t].half = TRUE]
WriteState(t, f, address, on) ==
    /\ tasks[t].half \/ address = "none"
    /\ os' = [os EXCEPT ![f] = IF on THEN held[f] ELSE "off"]
    /\ UNCHANGED held
NextSetting(t) == tasks' = [tasks EXCEPT ![t].i = @ + 1, ![t].half = FALSE]

\* One command of restoreMacSystemProxy.
Undo(t) ==
    LET task == tasks[t]
        f == WriteOrder[task.i]
        AllWritten ==
            /\ disk' = NoSnapshot
            /\ CASE task.pc = "rollback" -> Finish(t, "error")
                 [] task.enable /\ task.pc = "undo" ->
                        tasks' = [tasks EXCEPT ![t] = Capturing(task)] /\ UNCHANGED seen
                 [] OTHER -> Finish(t, "restored") IN
    /\ Undoing(t)
    /\ \/ /\ WriteAddress(t, f, task.snap.held[f])
          /\ UNCHANGED <<disk, seen, mem, lossCause, faults>>
       \/ /\ WriteState(t, f, task.snap.held[f], Sanitized(task.snap, f) # "off")
          /\ IF MoreLeft(t, WriteOrder)
             THEN NextSetting(t) /\ UNCHANGED <<disk, seen>>
             ELSE AllWritten
          /\ UNCHANGED <<mem, lossCause, faults>>
       \/ /\ Fault
          /\ lossCause' = lossCause \cup CutCause({t})
          /\ IF task.enable /\ task.pc = "undo"
             THEN EnableFails(t)
             ELSE Finish(t, "error") /\ UNCHANGED mem
          /\ UNCHANGED <<os, held, disk>>
    /\ UNCHANGED <<app, endpoint, running, user>>

\* One command of captureMacSystemProxySnapshot.  With the last answer the
\* snapshot is kept, in memory and in the file, before anything is changed.
Capture(t) ==
    LET task == tasks[t]
        f == ReadOrder[task.i]
        snap == [task.snap EXCEPT !.set[f] = os[f], !.held[f] = held[f]] IN
    /\ task.pc = "capture"
    /\ \/ /\ MoreLeft(t, ReadOrder)
          /\ tasks' = [tasks EXCEPT ![t].i = @ + 1, ![t].snap = snap]
          /\ UNCHANGED <<disk, mem, seen, faults>>
       \/ /\ ~MoreLeft(t, ReadOrder)
          /\ mem' = snap
          /\ disk' = snap
          /\ tasks' = [tasks EXCEPT ![t].pc = "apply", ![t].i = 1, ![t].snap = snap]
          /\ UNCHANGED <<seen, faults>>
       \/ /\ Fault
          /\ EnableFails(t)
          /\ UNCHANGED disk
    /\ UNCHANGED <<os, held, app, endpoint, running, user, lossCause>>

\* One command of applyMacSystemProxy.  A SOCKS proxy that is off is left alone.
Apply(t) ==
    LET task == tasks[t]
        f == WriteOrder[task.i]
        address == IF f \in Http THEN task.snap.endpoint ELSE task.snap.held[f]
        Written == IF MoreLeft(t, WriteOrder)
                   THEN NextSetting(t) /\ UNCHANGED seen
                   ELSE Finish(t, "active") IN
    /\ task.pc = "apply"
    /\ \/ /\ f \notin Http /\ task.snap.set[f] = "off"
          /\ Written
          /\ UNCHANGED <<os, held, mem, faults>>
       \/ /\ f \in Http \/ task.snap.set[f] # "off"
          /\ \/ WriteAddress(t, f, address) /\ UNCHANGED seen
             \/ WriteState(t, f, address, f \in Http) /\ Written
          /\ UNCHANGED <<mem, faults>>
       \/ /\ Fault
          /\ EnableFails(t)
          /\ UNCHANGED <<os, held>>
    /\ UNCHANGED <<disk, app, endpoint, running, user, lossCause>>

\* withTimeout: the caller goes on and the restore too, with nobody waiting.
TimeOut ==
    /\ tasks["main"].pc \in {"check", "undo"} /\ ~tasks["main"].enable
    /\ tasks["late"].pc = "idle"
    /\ Fault
    /\ tasks' = [main |-> [tasks["main"] EXCEPT !.pc = "resume", !.snap = NoSnapshot, !.i = 1,
                                                !.half = FALSE],
                 late |-> [tasks["main"] EXCEPT !.then = "nothing"]]
    /\ seen' = "error"
    /\ UNCHANGED <<os, held, disk, app, mem, endpoint, running, user, lossCause>>

\* The process ends; what it was about to do is never done.
Ended ==
    /\ app' = FALSE
    /\ mem' = NoSnapshot
    /\ running' = FALSE
    /\ seen' = "inactive"
    /\ tasks' = [t \in Slot |-> Idle]
    /\ lossCause' = lossCause \cup CutCause(Slot)
    /\ UNCHANGED <<os, held, disk, endpoint, user>>

\* The caller of a restore goes on.
Resume(t) ==
    /\ tasks[t].pc = "resume"
    /\ \/ /\ tasks[t].then = "stop"
          /\ running' = FALSE
          /\ tasks' = [tasks EXCEPT ![t] = Idle]
          /\ UNCHANGED <<os, held, disk, app, mem, endpoint, seen, user, lossCause>>
       \/ /\ tasks[t].then = "attach"
          /\ running' = TRUE
          /\ BeginEnable(t)
          /\ UNCHANGED <<os, held, disk, app, endpoint, user>>
       \/ tasks[t].then = "quit" /\ Ended
    /\ UNCHANGED faults

Crash == app /\ Fault /\ Ended

\* The next launch, perhaps with another port configured.
Launch ==
    /\ ~app
    /\ app' = TRUE
    /\ endpoint' \in Endpoints
    /\ tasks' = [tasks EXCEPT !["main"].pc = "launch", !["main"].then = "attach"]
    /\ UNCHANGED <<os, held, disk, mem, running, seen, user, lossCause, faults>>

\* While the application is not running, the user sets all the settings.
UserSets ==
    /\ ~app
    /\ \E choice \in UserSettings :
           /\ os' = [f \in Field |-> choice[f].value]
           /\ held' = [f \in Field |-> choice[f].held]
    /\ user' = os'
    /\ lossCause' = {}
    /\ UNCHANGED <<disk, app, mem, endpoint, running, seen, tasks, faults>>

Step(t) == Check(t) \/ Undo(t) \/ Capture(t) \/ Apply(t) \/ Resume(t)

Next ==
    \/ Command \/ Ensure \/ Started \/ Quit \/ TimeOut \/ Crash \/ Launch \/ UserSets
    \/ \E t \in Slot : Step(t)

Spec == Init /\ [][Next]_vars

\* The commands of an operation are answered, and a user who finds the network
\* gone starts the application again; startup calls startConfiguredServices.
Fairness ==
    /\ \A t \in Slot : WF_vars(Step(t))
    /\ WF_vars(Started)
    /\ WF_vars(Launch)

FairSpec == Spec /\ Fairness

-----------------------------------------------------------------------------
TypeOK ==
    /\ os \in Setting /\ held \in [Field -> Address]
    /\ \A f \in Field : os[f] = "off" \/ os[f] = held[f]
    /\ user \in [Field -> Choice]
    /\ disk \in Snapshot \cup {NoSnapshot}
    /\ mem \in Snapshot \cup {NoSnapshot}
    /\ app \in BOOLEAN /\ running \in BOOLEAN
    /\ endpoint \in Endpoints
    /\ seen \in {"inactive", "active", "restored", "error"}
    /\ tasks \in [Slot -> Task]
    /\ lossCause \subseteq {"cut", "half", "blind", "raced"}
    /\ faults \in 0..MaxFaults

AllIdle == \A t \in Slot : tasks[t].pc = "idle"

\* What a crash now and an undisturbed start afterwards leave behind: the start
\* puts back what the file says, if it recognises that the settings are managed.
Recognised == disk # NoSnapshot /\ ManagedBy(disk.endpoint) # {}
AfterRestart(f) == IF Recognised THEN Sanitized(disk, f) ELSE os[f]

\* A crash at any moment, in the middle of taking over or of giving back
\* included, leaves what the next start needs to put the user's HTTP and HTTPS
\* proxies back, with one exception: a setting the user had off is on between
\* the two commands that put it back, and no other tells the next start that
\* the settings are managed.  The same holds of the SOCKS proxy except while
\* the settings are put back.
SettingsSurviveCrash ==
    /\ lossCause \subseteq {"cut"} =>
           \A f \in Http :
               \/ AfterRestart(f) = user[f]
               \/ ~Recognised /\ Flickers(f)
    /\ lossCause = {} /\ ~(\E t \in Slot : Undoing(t))
           => \A f \in Field : AfterRestart(f) = user[f]

\* When nothing is under way, the status the user reads tells what is set.
StatusTellsSettings ==
    app /\ AllIdle /\ lossCause = {} =>
        /\ seen \in {"restored", "inactive"} => os = user
        /\ seen = "active" => Http = ManagedBy(endpoint)

\* The network of a user whose application ended while it was taken over comes
\* back, unless the commands that put it back fail and the status says so.
NetworkComesBack ==
    (~app /\ \E f \in Http : os[f] \in Endpoints)
        ~> \/ \A f \in Http : os[f] = user[f]
           \/ AllIdle /\ seen = "error"
           \/ lossCause # {}
=============================================================================
