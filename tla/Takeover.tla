------------------------------ MODULE Takeover ------------------------------
(***************************************************************************)
(* The takeover of the client's live configuration files by the local      *)
(* proxy (cc-switch/src-tauri/src/services/proxy.rs), with the commands,   *)
(* the failover switch, the start-up recovery (lib.rs) and the clean-up at *)
(* exit that call it.                                                      *)
(*                                                                         *)
(* Each application (Claude Code, Codex, Gemini) has a live configuration  *)
(* file.  Taking it over saves the file in a backup row of the database,   *)
(* then writes into the file the proxy's address and a placeholder for the *)
(* token; releasing it writes the backup back.  A mutex per application    *)
(* serialises takeovers and switches; the database rows, the server handle *)
(* and the loops over all applications are outside that mutex.  An action  *)
(* is one section of a handler between two accesses to shared state.       *)
(*                                                                         *)
(* A file's content is abstracted to where it came from: User (the user's  *)
(* own file), a provider (that provider's saved settings, whatever they    *)
(* are), Clean (placeholders stripped, unusable but harmless), or a port   *)
(* (a takeover that points at the proxy on that port).                     *)
(***************************************************************************)
EXTENDS Naturals, Sequences

CONSTANTS
    Order,      \* the applications, in the order the code visits them
    Kind,       \* Kind[a] \in {"claude", "codex", "gemini"}
    Providers,
    Official,   \* those that may not be used through the proxy
    Ports,      \* the ports the user may configure
    Callers,    \* commands and failover switches in progress at once
    Boot,       \* the start-up task
    Commands,   \* the operations a caller may begin
    Faults,     \* what may fail: "write" a file, "sync" tokens, "start" the server
    User, Clean, None

Apps == {Order[i] : i \in 1 .. Len(Order)}
Procs == Callers \cup {Boot}
Content == Providers \cup Ports \cup {User, Clean}

Operation == {"enable", "disable", "switch", "failover", "auto_failover",
              "stop_with_restore", "start_server", "stop_server",
              "update_config", "exit"}

ASSUME OrderAssumption ==
    /\ Order \in Seq(Apps)
    /\ \A i, j \in 1 .. Len(Order) : Order[i] = Order[j] => i = j
ASSUME KindAssumption == Kind \in [Apps -> {"claude", "codex", "gemini"}]
ASSUME ContentAssumption ==
    /\ Providers \cap Ports = {}
    /\ {User, Clean} \cap (Providers \cup Ports) = {}
    /\ User # Clean /\ None \notin Content
ASSUME ProcsAssumption == Boot \notin Callers /\ None \notin Procs
ASSUME OfficialAssumption == Official \subseteq Providers
ASSUME CommandsAssumption == Commands \subseteq Operation
ASSUME FaultsAssumption == Faults \subseteq {"write", "sync", "start"}

VARIABLES
    up,         \* the program runs
    live,       \* live[a]: the client's configuration file
    backup,     \* backup[a]: the row of proxy_live_backup, or None
    enabled,    \* enabled[a]: proxy_config.enabled
    current,    \* current[a]: the current provider
    port,       \* the configured listen port
    server,     \* RwLock<Option<ProxyServer>>: its port, or None
    lock,       \* lock[a]: who holds the switch lock, or None
    pc, job,    \* where each process is, and its local variables
    switched,   \* (history) a's settings were replaced by a provider's
    exposed     \* (history) a was taken over without its lock; or its lock was
                \* granted between its restore by a stop or a recovery and the
                \* deletion of the backups by the same; or a token sync failed
                \* when it was already taken over

files == <<live, backup, enabled, current>>
proxy == <<port, server>>
history == <<switched, exposed>>
procs == <<pc, job, lock>>
vars == <<up, files, proxy, procs, history>>

NoJob == [op |-> "none", app |-> None, to |-> None, has_backup |-> FALSE,
          taken |-> FALSE, todo |-> {}, failed |-> FALSE]

Init ==
    /\ up = FALSE
    /\ live = [a \in Apps |-> User]
    /\ backup = [a \in Apps |-> None]
    /\ enabled = [a \in Apps |-> FALSE]
    /\ current \in [Apps -> Providers]
    /\ port \in Ports
    /\ server = None
    /\ lock = [a \in Apps |-> None]
    /\ pc = [p \in Procs |-> "idle"]
    /\ job = [p \in Procs |-> NoJob]
    /\ switched = [a \in Apps |-> FALSE]
    /\ exposed = [a \in Apps |-> FALSE]

-----------------------------------------------------------------------------
(* Helpers *)

TakenOver(content) == content \in Ports

\* What a crash, or a failed restore, leaves behind.
Residue == \E a \in Apps : backup[a] # None \/ TakenOver(live[a])

\* build_proxy_urls: the running server's port, else the configured one.
ProxyUrl == IF server # None THEN server ELSE port

EnabledApps == {a \in Apps : enabled[a]}

\* A loop over applications takes them in their order.
Foremost(a, todo) ==
    /\ a \in todo
    /\ \E i \in DOMAIN Order : Order[i] = a /\ \A j \in 1..i - 1 : Order[j] \notin todo

Goto(p, from, to) ==
    /\ up
    /\ pc[p] = from
    /\ pc' = [pc EXCEPT ![p] = to]
    /\ UNCHANGED up

At(p, from, to) == Goto(p, from, to) /\ UNCHANGED <<job, lock>>

Unlocked(p) == [a \in Apps |-> IF lock[a] = p THEN None ELSE lock[a]]

\* A handler returns, and its guard releases the lock.  The start-up task goes
\* on with the next application.
Return(p, from) ==
    /\ Goto(p, from, IF p = Boot THEN "boot_next" ELSE "idle")
    /\ job' = [job EXCEPT ![p] = IF p = Boot THEN @ ELSE NoJob]
    /\ lock' = Unlocked(p)

\* It returns an error: the start-up task then calls
\* set_takeover_for_app(false) for an application it could not take over.
Fail(p, from) ==
    IF p = Boot /\ job[p].op = "enable"
    THEN /\ Goto(p, from, "lock")
         /\ job' = [job EXCEPT ![p].op = "disable"]
         /\ lock' = Unlocked(p)
    ELSE Return(p, from)

\* Stops and recoveries that have restored a and have yet to delete its backup.
Deleting(a) ==
    {q \in Procs : /\ pc[q] \in {"restore_all", "clear_all", "delete_all"}
                   /\ a \notin job[q].todo}

\* Without a backup: the current provider's settings are written
\* (restore_live_from_ssot_for_app); if that fails, the placeholders are removed.
Rebuilt(a) == {current[a]} \cup (IF "write" \in Faults THEN {Clean} ELSE {})

\* restore_live_config_for_app_with_fallback_inner: what the file becomes.
Restored(a) ==
    IF backup[a] # None /\ ~TakenOver(backup[a]) THEN {backup[a]}
    ELSE IF TakenOver(live[a]) THEN Rebuilt(a)
    ELSE {live[a]}

-----------------------------------------------------------------------------
(* Beginnings *)

\* The first step of each operation.
Entry(op) ==
    CASE op \in {"enable", "disable", "switch"} -> "lock"
      [] op = "failover" -> "fo_check"
      [] op = "auto_failover" -> "af_read"
      [] op = "stop_with_restore" -> "stop"
      [] op = "start_server" -> "st_start"
      [] op = "stop_server" -> "ss_check"
      [] op = "update_config" -> "uc_save"
      [] op = "exit" -> "exit_check"

Targets(op) ==
    CASE op \in {"switch", "failover", "auto_failover"} -> Providers
      [] op = "update_config" -> Ports
      [] OTHER -> {None}

Subjects(op) ==
    IF op \in {"enable", "disable", "switch", "failover", "auto_failover"}
    THEN Apps ELSE {None}

\* A failover switch is spawned by a request the server has answered, unless
\* the same switch is pending.
Begin(p, op) ==
    /\ Goto(p, "idle", Entry(op))
    /\ \E a \in Subjects(op), x \in Targets(op) :
          /\ op = "failover" =>
                /\ server # None
                /\ \A q \in Callers : <<job[q].op, job[q].app, job[q].to>> # <<op, a, x>>
          /\ job' = [job EXCEPT ![p] = [NoJob EXCEPT !.op = op, !.app = a, !.to = x]]
    /\ UNCHANGED <<lock, files, proxy, history>>

\* lock_for_app
Acquire(p) ==
    LET a == job[p].app
    IN  /\ pc[p] = "lock"
        /\ lock[a] = None
        /\ lock' = [lock EXCEPT ![a] = p]
        /\ Goto(p, "lock", CASE job[p].op = "enable" -> "en_start"
                             [] job[p].op = "disable" -> "dis_check"
                             [] job[p].op = "switch" -> "sw_decide"
                             [] OTHER -> "hs_read")
        /\ exposed' = [exposed EXCEPT ![a] = @ \/ Deleting(a) # {}]
        /\ UNCHANGED <<job, files, proxy, switched>>

-----------------------------------------------------------------------------
(* set_takeover_for_app(app, true) *)

EnsureServer(p) ==
    \/ /\ At(p, "en_start", "en_check")
       /\ server' = ProxyUrl
       /\ UNCHANGED <<port, files, history>>
    \/ /\ server = None /\ "start" \in Faults
       /\ Fail(p, "en_start")
       /\ UNCHANGED <<files, proxy, history>>

\* Nothing to do if the file points at this proxy and there is a backup; an
\* enabled application that has a backup is restored from it first.
CheckTaken(p) ==
    LET a == job[p].app
        ours == enabled[a] /\ backup[a] # None
    IN  /\ pc[p] = "en_check"
        /\ \/ ours /\ live[a] = ProxyUrl /\ Return(p, "en_check")
           \/ ours /\ live[a] # ProxyUrl /\ At(p, "en_check", "en_restore")
           \/ ~ours /\ At(p, "en_check", "en_backup")
        /\ UNCHANGED <<files, proxy, history>>

\* MUTANT of RestoreExisting: a missing backup is not noticed.
RestoreExistingUnchecked(p) ==
    /\ At(p, "en_restore", "en_takeover")
    /\ live' = [live EXCEPT ![job[p].app] = backup[job[p].app]]
    /\ UNCHANGED <<backup, enabled, current, proxy, history>>

\* restore_live_config_for_app_inner
RestoreExisting(p) ==
    LET a == job[p].app
    IN  \/ /\ At(p, "en_restore", "en_takeover")
           /\ live' = [live EXCEPT ![a] = IF backup[a] = None THEN @ ELSE backup[a]]
           /\ UNCHANGED <<backup, enabled, current, proxy, history>>
        \/ /\ Fail(p, "en_restore")
           /\ "write" \in Faults /\ backup[a] # None
           /\ UNCHANGED <<files, proxy, history>>

\* MUTANT of BackupLive: a placeholder is saved like any other content.
BackupAnything(p) ==
    LET a == job[p].app
    IN  /\ At(p, "en_backup", "en_sync")
        /\ backup' = [backup EXCEPT ![a] = live[a]]
        /\ UNCHANGED <<live, enabled, current, proxy, history>>

\* backup_live_config_strict never saves a placeholder.
BackupLive(p) ==
    LET a == job[p].app
    IN  /\ \/ /\ At(p, "en_backup", "en_sync")
              /\ backup' = [backup EXCEPT ![a] =
                               IF TakenOver(live[a]) THEN @ ELSE live[a]]
           \/ "sync" \in Faults /\ Fail(p, "en_backup") /\ UNCHANGED backup
        /\ UNCHANGED <<live, enabled, current, proxy, history>>

\* sync_live_to_provider copies the file's token to the current provider; if it
\* fails, the backup is deleted, whoever saved it.
SyncTokens(p) ==
    LET a == job[p].app
    IN  \/ /\ At(p, "en_sync", "en_takeover")
           /\ UNCHANGED <<files, proxy, history>>
        \/ /\ "sync" \in Faults
           /\ Fail(p, "en_sync")
           /\ backup' = [backup EXCEPT ![a] = None]
           /\ exposed' = [exposed EXCEPT ![a] = @ \/ TakenOver(live[a])]
           /\ UNCHANGED <<live, enabled, current, proxy, switched>>

\* takeover_live_config_strict
WriteTakeover(p) ==
    \/ /\ At(p, "en_takeover", "en_enable")
       /\ live' = [live EXCEPT ![job[p].app] = ProxyUrl]
       /\ UNCHANGED <<backup, enabled, current, proxy, history>>
    \/ /\ "write" \in Faults
       /\ At(p, "en_takeover", "en_rollback")
       /\ UNCHANGED <<files, proxy, history>>

\* MUTANT of RollBack: the backup goes even if it could not be written back.
RollBackForgetful(p) ==
    LET a == job[p].app
    IN  /\ Fail(p, "en_rollback")
        /\ \/ live' = [live EXCEPT ![a] = IF backup[a] = None THEN @ ELSE backup[a]]
           \/ UNCHANGED live
        /\ backup' = [backup EXCEPT ![a] = None]
        /\ UNCHANGED <<enabled, current, proxy, history>>

\* The backup is deleted only once it has been written back.
RollBack(p) ==
    LET a == job[p].app
    IN  /\ Fail(p, "en_rollback")
        /\ \/ /\ live' = [live EXCEPT ![a] = IF backup[a] = None THEN @ ELSE backup[a]]
              /\ backup' = [backup EXCEPT ![a] = None]
           \/ UNCHANGED <<live, backup>>
        /\ UNCHANGED <<enabled, current, proxy, history>>

SetEnabled(p) ==
    /\ Return(p, "en_enable")
    /\ enabled' = [enabled EXCEPT ![job[p].app] = TRUE]
    /\ UNCHANGED <<live, backup, current, proxy, history>>

-----------------------------------------------------------------------------
(* set_takeover_for_app(app, false) *)

CheckEnabled(p) ==
    /\ pc[p] = "dis_check"
    /\ IF enabled[job[p].app] THEN At(p, "dis_check", "dis_restore")
                              ELSE Return(p, "dis_check")
    /\ UNCHANGED <<files, proxy, history>>

RestoreLive(p) ==
    LET a == job[p].app
    IN  \/ /\ At(p, "dis_restore", "dis_delete")
           /\ \E content \in Restored(a) : live' = [live EXCEPT ![a] = content]
           /\ UNCHANGED <<backup, enabled, current, proxy, history>>
        \/ /\ "write" \in Faults
           /\ Return(p, "dis_restore")
           /\ UNCHANGED <<files, proxy, history>>

DeleteBackup(p) ==
    /\ At(p, "dis_delete", "dis_clear")
    /\ backup' = [backup EXCEPT ![job[p].app] = None]
    /\ UNCHANGED <<live, enabled, current, proxy, history>>

ClearEnabled(p) ==
    /\ At(p, "dis_clear", "dis_count")
    /\ enabled' = [enabled EXCEPT ![job[p].app] = FALSE]
    /\ UNCHANGED <<live, backup, current, proxy, history>>

\* The last application to be released stops the server.
CountEnabled(p) ==
    /\ IF EnabledApps = {} THEN At(p, "dis_count", "dis_stop")
                             ELSE Return(p, "dis_count")
    /\ UNCHANGED <<files, proxy, history>>

StopIfLast(p) ==
    /\ Return(p, "dis_stop")
    /\ server' = None
    /\ UNCHANGED <<port, files, history>>

-----------------------------------------------------------------------------
(* Switching the provider *)

\* MUTANT of DecideSwitch: the flag is asked, not the file and its backup.
DecideSwitchByFlag(p) ==
    /\ pc[p] = "sw_decide"
    /\ IF enabled[job[p].app] THEN At(p, "sw_decide", "hs_read")
       ELSE /\ Goto(p, "sw_decide", "hs_current")
            /\ job' = [job EXCEPT ![p].op = "normal"]
            /\ UNCHANGED lock
    /\ UNCHANGED <<files, proxy, history>>

\* ProviderService::switch: with a backup or a placeholder the proxy owns the
\* file, and the switch is a hot one.
DecideSwitch(p) ==
    LET a == job[p].app
    IN  /\ pc[p] = "sw_decide"
        /\ IF backup[a] # None \/ TakenOver(live[a])
           THEN At(p, "sw_decide", "hs_read")
           ELSE /\ Goto(p, "sw_decide", "hs_current")
                /\ job' = [job EXCEPT ![p].op = "normal"]
                /\ UNCHANGED lock
        /\ UNCHANGED <<files, proxy, history>>

\* do_switch: only an application under the proxy is switched.
CheckFailover(p) ==
    /\ pc[p] = "fo_check"
    /\ IF enabled[job[p].app] THEN At(p, "fo_check", "lock")
                              ELSE Return(p, "fo_check")
    /\ UNCHANGED <<files, proxy, history>>

\* set_auto_failover_enabled(app, true) reads the configuration row ...  (Turning
\* the flag off reads and writes the row back to back.)
ReadConfigRow(p) ==
    /\ pc[p] = "af_read"
    /\ IF enabled[job[p].app] THEN At(p, "af_read", "lock")
                              ELSE Return(p, "af_read")
    /\ UNCHANGED <<files, proxy, history>>

\* ... switches to the first provider of the queue, and writes the row back.
WriteConfigRow(p) ==
    /\ Return(p, "af_write")
    /\ enabled' = [enabled EXCEPT ![job[p].app] = TRUE]
    /\ UNCHANGED <<live, backup, current, proxy, history>>

\* hot_switch_provider_inner
ReadOwner(p) ==
    LET a == job[p].app
    IN  /\ IF job[p].to \in Official
           THEN Return(p, "hs_read")
           ELSE /\ Goto(p, "hs_read", "hs_current")
                /\ job' = [job EXCEPT ![p].has_backup = backup[a] # None,
                                      ![p].taken = TakenOver(live[a])]
                /\ UNCHANGED lock
        /\ UNCHANGED <<files, proxy, history>>

\* The end of a hot switch; set_auto_failover_enabled goes on without the lock.
Switched(p, from) ==
    IF job[p].op = "auto_failover"
    THEN Goto(p, from, "af_write") /\ lock' = Unlocked(p) /\ UNCHANGED job
    ELSE Return(p, from)

SetCurrent(p) ==
    /\ IF job[p].op = "normal" THEN At(p, "hs_current", "sw_live")
       ELSE IF job[p].has_backup \/ job[p].taken THEN At(p, "hs_current", "hs_backup")
       ELSE Switched(p, "hs_current")
    /\ current' = [current EXCEPT ![job[p].app] = job[p].to]
    /\ UNCHANGED <<live, backup, enabled, proxy, history>>

\* update_live_backup_from_provider_inner; Gemini's file stays as it is.
RewriteBackup(p) ==
    LET a == job[p].app
    IN  /\ pc[p] = "hs_backup"
        /\ IF Kind[a] = "gemini" THEN Switched(p, "hs_backup")
                                 ELSE At(p, "hs_backup", "hs_live")
        /\ backup' = [backup EXCEPT ![a] = job[p].to]
        /\ switched' = [switched EXCEPT ![a] = TRUE]
        /\ UNCHANGED <<live, enabled, current, proxy, exposed>>

\* Claude's file is written as a takeover, whatever it was; Codex's as one if it
\* was one, else as the provider's.
SyncLive(p) ==
    LET a == job[p].app
    IN  /\ \/ Switched(p, "hs_live")
              /\ live' = [live EXCEPT ![a] =
                     IF Kind[a] = "claude" \/ job[p].taken THEN ProxyUrl ELSE job[p].to]
           \/ "write" \in Faults /\ Return(p, "hs_live") /\ UNCHANGED live
        /\ UNCHANGED <<backup, enabled, current, proxy, history>>

\* switch_normal
WriteProvider(p) ==
    LET a == job[p].app
    IN  /\ Return(p, "sw_live")
        /\ \/ /\ live' = [live EXCEPT ![a] = job[p].to]
              /\ switched' = [switched EXCEPT ![a] = TRUE]
           \/ "write" \in Faults /\ UNCHANGED <<live, switched>>
        /\ UNCHANGED <<backup, enabled, current, proxy, exposed>>

-----------------------------------------------------------------------------
(* stop_with_restore, stop_with_restore_keep_state at exit, and              *)
(* recover_from_crash at start-up: restore every application, then delete    *)
(* the backups.                                                              *)

RestoreAll(p, from) ==
    /\ Goto(p, from, "restore_all")
    /\ job' = [job EXCEPT ![p].todo = Apps]
    /\ UNCHANGED lock

StopFirst(p) ==
    /\ RestoreAll(p, "stop")
    /\ server' = None
    /\ UNCHANGED <<port, files, history>>

\* cleanup_before_exit
ExitCheck(p) ==
    /\ At(p, "exit_check", IF Residue THEN "stop" ELSE "exited")
    /\ UNCHANGED <<files, proxy, history>>

\* Each restore takes and releases the application's lock; an error is kept
\* for the end of the loop.
RestoreNext(p) ==
    /\ Goto(p, "restore_all", "restore_all")
    /\ \E a \in Apps :
          /\ Foremost(a, job[p].todo)
          /\ lock[a] = None
          /\ \/ /\ \E content \in Restored(a) : live' = [live EXCEPT ![a] = content]
                /\ job' = [job EXCEPT ![p].todo = @ \ {a}]
             \/ /\ "write" \in Faults
                /\ job' = [job EXCEPT ![p].todo = @ \ {a}, ![p].failed = TRUE]
                /\ UNCHANGED live
    /\ UNCHANGED <<lock, backup, enabled, current, proxy, history>>

\* Where the three go from here.
Finish(p, from) ==
    IF job[p].op = "exit" THEN At(p, from, "exited")
    ELSE IF job[p].op = "boot" THEN At(p, from, "boot_list")
    ELSE Return(p, from)

\* MUTANT of RestoreDone: the errors collected by the loop are dropped.
RestoreDoneAnyway(p) ==
    /\ job[p].todo = {}
    /\ At(p, "restore_all", IF job[p].op = "stop_with_restore"
                            THEN "clear_all" ELSE "delete_all")
    /\ UNCHANGED <<files, proxy, history>>

RestoreDone(p) ==
    /\ job[p].todo = {}
    /\ IF job[p].failed THEN Finish(p, "restore_all")
       ELSE At(p, "restore_all", IF job[p].op = "stop_with_restore"
                                 THEN "clear_all" ELSE "delete_all")
    /\ UNCHANGED <<files, proxy, history>>

ClearAll(p) ==
    /\ At(p, "clear_all", "delete_all")
    /\ enabled' = [a \in Apps |-> FALSE]
    /\ UNCHANGED <<live, backup, current, proxy, history>>

DeleteAll(p) ==
    /\ Finish(p, "delete_all")
    /\ backup' = [a \in Apps |-> None]
    /\ UNCHANGED <<live, enabled, current, proxy, history>>

-----------------------------------------------------------------------------
(* The server's own commands *)

\* start_proxy_server
StartServer(p) ==
    /\ Return(p, "st_start")
    /\ server' \in {ProxyUrl} \cup (IF "start" \in Faults THEN {server} ELSE {})
    /\ UNCHANGED <<port, files, history>>

\* stop_proxy_server refuses while an application is enabled.
StopServerCheck(p) ==
    /\ IF EnabledApps = {} THEN At(p, "ss_check", "ss_stop")
                             ELSE Return(p, "ss_check")
    /\ UNCHANGED <<files, proxy, history>>

StopServer(p) ==
    /\ Return(p, "ss_stop")
    /\ server' = None
    /\ UNCHANGED <<port, files, history>>

\* update_config saves the new port, restarts a running server on it, and
\* rewrites the files of the enabled applications without taking their locks.
SavePort(p) ==
    /\ IF job[p].to = port THEN Return(p, "uc_save") ELSE At(p, "uc_save", "uc_restart")
    /\ port' = job[p].to
    /\ UNCHANGED <<server, files, history>>

RestartServer(p) ==
    /\ \/ server = None /\ Return(p, "uc_restart") /\ UNCHANGED server
       \/ server # None /\ At(p, "uc_restart", "uc_status") /\ server' = job[p].to
       \/ /\ server # None /\ "start" \in Faults
          /\ Return(p, "uc_restart") /\ server' = None
    /\ UNCHANGED <<port, files, history>>

ReadStatus(p) ==
    /\ Goto(p, "uc_status", "uc_takeover")
    /\ job' = [job EXCEPT ![p].todo = EnabledApps]
    /\ UNCHANGED <<lock, files, proxy, history>>

\* takeover_live_config_best_effort
RewriteNext(p) ==
    /\ Goto(p, "uc_takeover", "uc_takeover")
    /\ \E a \in Apps :
          /\ Foremost(a, job[p].todo)
          /\ job' = [job EXCEPT ![p].todo = @ \ {a}]
          /\ \/ /\ live' = [live EXCEPT ![a] = ProxyUrl]
                /\ exposed' = [exposed EXCEPT ![a] = @ \/ ~TakenOver(live[a])]
                /\ UNCHANGED switched
             \/ "write" \in Faults /\ UNCHANGED <<live, history>>
    /\ UNCHANGED <<lock, backup, enabled, current, proxy>>

RewriteDone(p) ==
    /\ job[p].todo = {}
    /\ Return(p, "uc_takeover")
    /\ UNCHANGED <<files, proxy, history>>

-----------------------------------------------------------------------------
(* Starting, and stopping at any point *)

Start ==
    /\ ~up
    /\ up' = TRUE
    /\ pc' = [pc EXCEPT ![Boot] = "boot_check"]
    /\ job' = [job EXCEPT ![Boot].op = "boot"]
    /\ UNCHANGED <<lock, files, proxy, history>>

BootCheck ==
    /\ IF Residue THEN RestoreAll(Boot, "boot_check")
                  ELSE At(Boot, "boot_check", "boot_list")
    /\ UNCHANGED <<files, proxy, history>>

\* restore_proxy_state_on_startup
BootList ==
    /\ Goto(Boot, "boot_list", "boot_next")
    /\ job' = [job EXCEPT ![Boot].todo = EnabledApps, ![Boot].failed = FALSE]
    /\ UNCHANGED <<lock, files, proxy, history>>

BootNext ==
    /\ \/ /\ job[Boot].todo = {}
          /\ Goto(Boot, "boot_next", "idle")
          /\ job' = [job EXCEPT ![Boot] = NoJob]
       \/ \E a \in Apps :
             /\ Foremost(a, job[Boot].todo)
             /\ Goto(Boot, "boot_next", "lock")
             /\ job' = [job EXCEPT ![Boot].op = "enable", ![Boot].app = a,
                                   ![Boot].todo = @ \ {a}]
    /\ UNCHANGED <<lock, files, proxy, history>>

\* The process ends: after the clean-up at exit, or in a crash at any point.
\* Only the files and the database survive.
Crash ==
    /\ up
    /\ up' = FALSE
    /\ server' = None
    /\ lock' = [a \in Apps |-> None]
    /\ pc' = [p \in Procs |-> "idle"]
    /\ job' = [p \in Procs |-> NoJob]
    /\ UNCHANGED <<port, files, history>>

-----------------------------------------------------------------------------
Enable(p) ==
    \/ EnsureServer(p) \/ CheckTaken(p) \/ RestoreExisting(p) \/ BackupLive(p)
    \/ SyncTokens(p) \/ WriteTakeover(p) \/ RollBack(p) \/ SetEnabled(p)

Disable(p) ==
    \/ CheckEnabled(p) \/ RestoreLive(p) \/ DeleteBackup(p) \/ ClearEnabled(p)
    \/ CountEnabled(p) \/ StopIfLast(p)

Switch(p) ==
    \/ DecideSwitch(p) \/ CheckFailover(p) \/ ReadConfigRow(p) \/ WriteConfigRow(p)
    \/ ReadOwner(p) \/ SetCurrent(p) \/ RewriteBackup(p) \/ SyncLive(p)
    \/ WriteProvider(p)

StopAll(p) ==
    \/ StopFirst(p) \/ ExitCheck(p) \/ RestoreNext(p) \/ RestoreDone(p)
    \/ ClearAll(p) \/ DeleteAll(p)

Server(p) ==
    \/ StartServer(p) \/ StopServerCheck(p) \/ StopServer(p) \/ SavePort(p) \/ RestartServer(p)
    \/ ReadStatus(p) \/ RewriteNext(p) \/ RewriteDone(p)

Next ==
    \/ \E p \in Callers, op \in Commands : Begin(p, op)
    \/ \E p \in Procs :
          Acquire(p) \/ Enable(p) \/ Disable(p) \/ Switch(p) \/ StopAll(p) \/ Server(p)
    \/ Start \/ BootCheck \/ BootList \/ BootNext
    \/ Crash

Spec == Init /\ [][Next]_vars

-----------------------------------------------------------------------------
(* Properties *)

Label == {"idle", "lock", "en_start", "en_check", "en_restore", "en_backup",
          "en_sync", "en_takeover", "en_rollback", "en_enable", "dis_check", "dis_restore",
          "dis_delete", "dis_clear", "dis_count", "dis_stop", "sw_decide",
          "fo_check", "af_read", "af_write", "hs_read", "hs_current",
          "hs_backup", "hs_live", "sw_live", "stop", "exit_check", "exited",
          "restore_all", "clear_all", "delete_all", "st_start", "ss_check", "ss_stop",
          "uc_save", "uc_restart", "uc_status", "uc_takeover",
          "boot_check", "boot_list", "boot_next"}

Job == [op : Operation \cup {"none", "normal", "boot"}, app : Apps \cup {None},
        to : Providers \cup Ports \cup {None}, has_backup : BOOLEAN,
        taken : BOOLEAN, todo : SUBSET Apps, failed : BOOLEAN]

\* Every variable stays within its type.
TypeOK ==
    /\ up \in BOOLEAN
    /\ live \in [Apps -> Content]
    /\ backup \in [Apps -> Content \cup {None}]
    /\ enabled \in [Apps -> BOOLEAN]
    /\ current \in [Apps -> Providers]
    /\ port \in Ports
    /\ server \in Ports \cup {None}
    /\ lock \in [Apps -> Procs \cup {None}]
    /\ pc \in [Procs -> Label]
    /\ job \in [Procs -> Job]
    /\ switched \in [Apps -> BOOLEAN]
    /\ exposed \in [Apps -> BOOLEAN]

\* The backup slot never holds a takeover: a restore from it would leave the
\* client pointing at the proxy for ever.
BackupNeverTakenOver == \A a \in Apps : ~TakenOver(backup[a])

\* Whatever commands, failover switches, faults and crashes come in between,
\* the file the user had is still there, in place or in the backup, until a
\* provider switch replaces it.
UserConfigKept ==
    \A a \in Apps :
        ~switched[a] /\ ~exposed[a] => User \in {live[a], backup[a]}

\* A file that is taken over has a backup to go back to.  KeepsCustody, below,
\* says so of every step.
TakeoverHasBackup ==
    \A a \in Apps :
        ~exposed[a] /\ TakenOver(live[a]) => backup[a] # None

\* Proxying is never switched off for an application whose file still points
\* at the proxy.
NeverDisabledWhileTakenOver ==
    [][\A a \in Apps : enabled[a] /\ ~enabled'[a] /\ ~exposed[a]
                            => ~TakenOver(live'[a])]_vars

\* Where the settings of a's owner are; "lost" is no place of Custody.
Place(a) ==
    IF exposed[a] THEN "released"
    ELSE IF TakenOver(backup[a]) \/ (~switched[a] /\ User \notin {live[a], backup[a]}) THEN "lost"
    ELSE IF TakenOver(live[a]) THEN (IF backup[a] = None THEN "lost" ELSE "diverted")
    ELSE (IF backup[a] = None THEN "own" ELSE "saved")

\* A command or a failover holds a's lock to switch its provider.
UnderSwitch(a) ==
    \E p \in Procs :
        /\ pc[p] \in {"sw_decide", "hs_read", "hs_current", "hs_backup", "hs_live",
                     "sw_live"}
        /\ job[p].app = a

\* Every step of every handler keeps the promise of Custody: nothing is taken
\* over before it is saved, or given up before it is restored.  A switch gives no
\* file back and saves none, and no other handler does while it is under way; it
\* takes one over only for Claude, whose hot switch writes the file as a takeover
\* whenever there is a backup -- also where a fault or a crash had left the file
\* saved but not taken over.
Keeper == INSTANCE Custody WITH
    Following <- {a \in Apps : Kind[a] = "claude"},
    place <- [a \in Apps |-> Place(a)],
    replaced <- switched,
    switching <- [a \in Apps |-> UnderSwitch(a)]
KeepsCustody == Keeper!Spec

-----------------------------------------------------------------------------
(* What the comments of the code promise without a proviso.                  *)

\* proxy.rs:1564 and 686: the backup is the only reliable source of the user's
\* file, and is not given up before the file is restored.
UserConfigNeverLost ==
    \A a \in Apps : ~switched[a] => User \in {live[a], backup[a]}
=============================================================================
