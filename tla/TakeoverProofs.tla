--------------------------- MODULE TakeoverProofs ---------------------------
(***************************************************************************)
(* That a takeover loses neither the user's file nor the way back to it,   *)
(* for any applications, providers, ports, callers and faults, and that it *)
(* implements Custody.                                                     *)
(***************************************************************************)
EXTENDS Takeover, TLAPS

Enabling == {"en_start", "en_check", "en_restore", "en_backup", "en_sync", "en_takeover",
             "en_rollback", "en_enable"}
Disabling == {"dis_check", "dis_restore", "dis_delete", "dis_clear", "dis_count", "dis_stop"}
Switching == {"sw_decide", "hs_read", "hs_current", "hs_backup", "hs_live", "sw_live"}
\* Before a switch knows whether it is a hot one.
Undecided == {"fo_check", "af_read", "lock", "sw_decide", "hs_read"}
Updating == {"uc_save", "uc_restart", "uc_status", "uc_takeover"}

\* The labels at which a process holds the lock of its application.
Held == Enabling \cup Disabling \cup Switching

SwitchOp == {"switch", "failover", "auto_failover", "normal"}
AppOp == SwitchOp \cup {"enable", "disable"}

\* What the local variables of a process are at a label.
ControlOK(l, j) ==
    /\ l \in Enabling => j.op = "enable"
    /\ l \in Disabling => j.op = "disable"
    /\ l \in Switching \cup {"fo_check", "af_read", "af_write"} => j.op \in SwitchOp
    /\ l = "lock" => j.op \in AppOp
    /\ l \in Undecided => j.op # "normal"
    /\ l \in Updating => j.op = "update_config"
    /\ j.op \in AppOp => j.app \in Apps
    /\ j.op \in SwitchOp => j.to \in Providers
    /\ j.op = "update_config" => j.to \in Ports
    /\ l \in {"clear_all", "delete_all"} => j.todo = {} /\ ~j.failed

\* What the file and the backup of an application are, by its history: an
\* application never switched and never exposed has the user's file in one.
AppOK(content, saved, switch, expose) ==
    /\ saved \notin Ports
    /\ ~expose /\ content \in Ports => saved # None
    /\ ~expose /\ ~switch => saved \in {None, User} /\ content \in Ports \cup {User}

\* What a process knows of the application it has locked.
Knows(p) ==
    LET a == job[p].app
    IN  /\ pc[p] = "hs_live" => switched[a]
        /\ pc[p] \in {"en_restore", "en_sync", "en_takeover", "en_rollback", "hs_live"}
              => exposed[a] \/ backup[a] # None
        /\ pc[p] \in {"dis_delete", "dis_clear"} => exposed[a] \/ live[a] \notin Ports
        /\ pc[p] = "hs_backup" => exposed[a] \/ backup[a] # None
        /\ pc[p] = "hs_current" /\ job[p].op # "normal" /\ (job[p].has_backup \/ job[p].taken)
              => exposed[a] \/ backup[a] # None
        /\ pc[p] \in {"hs_backup", "hs_live"} \/ (pc[p] = "hs_current" /\ job[p].op # "normal")
              => exposed[a] \/ (job[p].taken <=> live[a] \in Ports)
        /\ pc[p] = "sw_live" \/ (pc[p] = "hs_current" /\ job[p].op = "normal")
              => exposed[a] \/ (backup[a] = None /\ live[a] \notin Ports)

\* What a stop or a recovery knows of an application it has restored.
HasRestored(q, a) ==
    q \in Deleting(a) /\ ~exposed[a] =>
        /\ lock[a] = None
        /\ job[q].failed \/ live[a] \notin Ports

Control == \A p \in Procs : ControlOK(pc[p], job[p])
Locking == \A p \in Procs : pc[p] \in Held => lock[job[p].app] = p
Knowledge == \A p \in Procs : Knows(p)
Files == \A a \in Apps : AppOK(live[a], backup[a], switched[a], exposed[a])
Restoring == \A a \in Apps, q \in Procs : HasRestored(q, a)

\* The inductive invariant.
IInv == TypeOK /\ Control /\ Locking /\ Knowledge /\ Files /\ Restoring

-----------------------------------------------------------------------------
(* What a step of one process is, apart from the files.                    *)

\* Process p goes on to label l with local variables j.
Moves(p, l, j) ==
    /\ pc' = [pc EXCEPT ![p] = l] /\ job' = [job EXCEPT ![p] = j]
    /\ l \in Label /\ j \in Job /\ ControlOK(l, j)
    /\ l \in Held => pc[p] \in Held /\ j.app = job[p].app /\ lock' = lock
    /\ lock' \in {lock, Unlocked(p)}
    /\ up' \in BOOLEAN

\* It goes where it neither holds a lock nor deletes backups.
Away == {"idle", "lock", "af_write", "exited", "boot_list", "boot_next"}
Leaves(p) == \E l \in Away, j \in Job : Moves(p, l, j)

Deletes == {"restore_all", "clear_all", "delete_all"}

\* The labels at which a process knows something of the files.
Knowing == {"en_restore", "en_sync", "en_takeover", "en_rollback", "dis_delete", "dis_clear",
            "hs_current", "hs_backup", "hs_live", "sw_live"}

FilesKept == UNCHANGED <<live, backup, switched, exposed>>
SettingsTyped ==
    /\ enabled' \in [Apps -> BOOLEAN] /\ current' \in [Apps -> Providers]
    /\ port' \in Ports /\ server' \in Ports \cup {None}

\* Only the files and the history of a are touched.
Touches(a) ==
    /\ live' \in [Apps -> Content] /\ backup' \in [Apps -> Content \cup {None}]
    /\ switched' \in [Apps -> BOOLEAN] /\ exposed' \in [Apps -> BOOLEAN]
    /\ switched[a] => switched'[a]
    /\ exposed[a] => exposed'[a]
    /\ \A b \in Apps \ {a} : /\ live'[b] = live[b] /\ backup'[b] = backup[b]
                             /\ switched'[b] = switched[b] /\ exposed'[b] = exposed[b]

LEMMA MoveControl ==
    ASSUME IInv, NEW p \in Procs, NEW l, NEW j, Moves(p, l, j)
    PROVE  /\ up' \in BOOLEAN /\ pc' \in [Procs -> Label] /\ job' \in [Procs -> Job]
           /\ lock' \in [Apps -> Procs \cup {None}]
           /\ Control' /\ Locking'
           /\ pc'[p] = l /\ job'[p] = j
           /\ \A q \in Procs \ {p} : pc'[q] = pc[q] /\ job'[q] = job[q]
           /\ \A a \in Apps : lock[a] = None => lock'[a] = None
<1>1. pc \in [Procs -> Label] /\ job \in [Procs -> Job] /\ lock \in [Apps -> Procs \cup {None}]
  BY DEF IInv, TypeOK
<1>2. pc'[p] = l /\ job'[p] = j /\ \A q \in Procs \ {p} : pc'[q] = pc[q] /\ job'[q] = job[q]
  BY <1>1 DEF Moves
<1>3. up' \in BOOLEAN /\ pc' \in [Procs -> Label] /\ job' \in [Procs -> Job]
  BY <1>1 DEF Moves
<1>4. lock' \in [Apps -> Procs \cup {None}] /\ \A a \in Apps : lock[a] = None => lock'[a] = None
  BY <1>1 DEF Moves, Unlocked
<1>5. Control'
  <2> SUFFICES ASSUME NEW q \in Procs PROVE ControlOK(pc[q], job[q])'  BY DEF Control
  <2>1. ControlOK(l, j) /\ ControlOK(pc[q], job[q])  BY DEF IInv, Control, Moves
  <2>2. CASE q = p  BY <1>2, <2>1, <2>2 DEF ControlOK
  <2>3. CASE q # p  BY <1>2, <2>1, <2>3 DEF ControlOK
  <2>4. QED  BY <2>2, <2>3
<1>6. Locking'
  <2> SUFFICES ASSUME NEW q \in Procs, pc'[q] \in Held PROVE lock'[job'[q].app] = q
    BY DEF Locking
  <2>1. CASE q = p
    <3>1. pc[p] \in Held /\ j.app = job[p].app /\ lock' = lock  BY <1>2, <2>1 DEF Moves
    <3>2. QED  BY <1>2, <2>1, <3>1 DEF IInv, Locking
  <2>2. CASE q # p
    <3>1. pc'[q] = pc[q] /\ job'[q] = job[q] /\ lock[job[q].app] = q
      BY <1>2, <2>2 DEF IInv, Locking
    <3>2. job[q].app \in Apps
      BY <3>1 DEF IInv, Control, ControlOK, Held, AppOp, SwitchOp
    <3>3. QED  BY <2>2, <3>1, <3>2 DEF Moves, Unlocked
  <2>3. QED  BY <2>1, <2>2
<1>7. QED  BY <1>2, <1>3, <1>4, <1>5, <1>6

\* Who holds a lock finds no other that has restored its application.
LEMMA HolderFacts ==
    ASSUME IInv, NEW p \in Procs, pc[p] \in Held
    PROVE  /\ job[p].app \in Apps /\ lock[job[p].app] = p /\ lock[job[p].app] # None
           /\ \A q \in Procs : q \in Deleting(job[p].app) => exposed[job[p].app]
           /\ \A q \in Procs \ {p} : pc[q] \in Held => job[q].app # job[p].app
<1>1. job[p].app \in Apps
  BY DEF IInv, Control, ControlOK, Held, AppOp, SwitchOp
<1>2. lock[job[p].app] = p /\ p # None  BY ProcsAssumption DEF IInv, Locking
<1>3. \A q \in Procs : q \in Deleting(job[p].app) => exposed[job[p].app]
  BY <1>1, <1>2 DEF IInv, Restoring, HasRestored
<1>4. \A q \in Procs \ {p} : pc[q] \in Held => job[q].app # job[p].app
  BY <1>2 DEF IInv, Locking
<1>5. QED  BY <1>1, <1>2, <1>3, <1>4

-----------------------------------------------------------------------------
(* The three kinds of step.                                                *)

\* A step that leaves the files alone.
LEMMA QuietStep ==
    ASSUME IInv, NEW p \in Procs, NEW l, NEW j, Moves(p, l, j), FilesKept, SettingsTyped,
           Knows(p)',
           l \in Deletes => \/ j.todo = Apps
                            \/ pc[p] \in Deletes /\ j.todo = job[p].todo /\ j.failed = job[p].failed
    PROVE  IInv'
<1>1. TypeOK' /\ Control' /\ Locking'
  BY MoveControl DEF IInv, TypeOK, FilesKept, SettingsTyped
<1>2. /\ pc'[p] = l /\ job'[p] = j
      /\ \A q \in Procs \ {p} : pc'[q] = pc[q] /\ job'[q] = job[q]
      /\ \A a \in Apps : lock[a] = None => lock'[a] = None
  BY MoveControl
<1>3. Knowledge'  BY <1>2 DEF IInv, Knowledge, Knows, FilesKept
<1>4. Files'  BY DEF IInv, Files, FilesKept
<1>5. Restoring'
  <2> SUFFICES ASSUME NEW a \in Apps, NEW q \in Procs PROVE HasRestored(q, a)'
    BY DEF Restoring
  <2>1. HasRestored(q, a)  BY DEF IInv, Restoring
  <2>2. CASE q # p  BY <1>2, <2>1, <2>2 DEF HasRestored, Deleting, FilesKept
  <2>3. CASE q = p  BY <1>2, <2>1, <2>3 DEF HasRestored, Deleting, FilesKept, Deletes
  <2>4. QED  BY <2>2, <2>3
<1>6. QED  BY <1>1, <1>3, <1>4, <1>5 DEF IInv

\* A step that changes the files of the application its process has locked.
LEMMA LockedStep ==
    ASSUME IInv, NEW p \in Procs, pc[p] \in Held, NEW l, NEW j, Moves(p, l, j), l \notin Deletes,
           Touches(job[p].app), SettingsTyped, Knows(p)',
           AppOK(live'[job[p].app], backup'[job[p].app], switched'[job[p].app], exposed'[job[p].app])
    PROVE  IInv'
<1> DEFINE a == job[p].app
<1>1. TypeOK' /\ Control' /\ Locking'
  BY MoveControl DEF IInv, TypeOK, Touches, SettingsTyped
<1>2. /\ pc'[p] = l /\ job'[p] = j
      /\ \A q \in Procs \ {p} : pc'[q] = pc[q] /\ job'[q] = job[q]
      /\ \A b \in Apps : lock[b] = None => lock'[b] = None
  BY MoveControl
<1>3. /\ a \in Apps
      /\ \A q \in Procs : q \in Deleting(a) => exposed[a]
      /\ \A q \in Procs \ {p} : pc[q] \in Held => job[q].app # a
  BY HolderFacts
<1>4. \A b \in Apps \ {a} : /\ live'[b] = live[b] /\ backup'[b] = backup[b]
                            /\ switched'[b] = switched[b] /\ exposed'[b] = exposed[b]
  BY DEF Touches
<1> HIDE DEF a
<1>5. Knowledge'
  <2> SUFFICES ASSUME NEW q \in Procs, q # p PROVE Knows(q)'  BY DEF Knowledge
  <2>1. Knows(q) /\ pc'[q] = pc[q] /\ job'[q] = job[q]  BY <1>2 DEF IInv, Knowledge
  <2>2. CASE pc[q] \in Held
    <3>1. job[q].app # a /\ job[q].app \in Apps  BY <1>3, <2>2, HolderFacts
    <3>2. QED  BY <1>4, <2>1, <3>1 DEF Knows
  <2>3. CASE pc[q] \notin Held
    BY <2>1, <2>3 DEF Knows, Held, Enabling, Disabling, Switching
  <2>4. QED  BY <2>2, <2>3
<1>6. Files'
  <2> SUFFICES ASSUME NEW b \in Apps PROVE AppOK(live[b], backup[b], switched[b], exposed[b])'
    BY DEF Files
  <2>1. CASE b = a  BY <2>1 DEF a, AppOK
  <2>2. CASE b # a  BY <1>4, <2>2 DEF IInv, Files, AppOK
  <2>3. QED  BY <2>1, <2>2
<1>7. Restoring'
  <2> SUFFICES ASSUME NEW b \in Apps, NEW q \in Procs, q \in Deleting(b)', ~exposed'[b]
               PROVE  lock'[b] = None /\ (job'[q].failed \/ live'[b] \notin Ports)
    BY DEF Restoring, HasRestored
  <2>1. q # p  BY <1>2 DEF Deleting, Deletes
  <2>2. q \in Deleting(b) /\ job'[q] = job[q]  BY <1>2, <2>1 DEF Deleting
  <2>3. b # a  BY <1>3, <2>2 DEF Touches, a
  <2>4. HasRestored(q, b)  BY DEF IInv, Restoring
  <2>5. QED  BY <1>2, <1>4, <2>2, <2>3, <2>4 DEF HasRestored
<1>8. QED  BY <1>1, <1>5, <1>6, <1>7 DEF IInv

LEMMA QuietLeave ==
    ASSUME IInv, NEW p \in Procs, Leaves(p), FilesKept, SettingsTyped
    PROVE  IInv'
<1>1. PICK l \in Away, j \in Job : Moves(p, l, j)  BY DEF Leaves
<1>2. pc'[p] = l  BY <1>1, MoveControl
<1>3. Knows(p)'  BY <1>2 DEF Knows, Away
<1>4. l \notin Deletes  BY DEF Deletes, Away
<1>5. QED  BY <1>1, <1>3, <1>4, QuietStep

LEMMA LockedLeave ==
    ASSUME IInv, NEW p \in Procs, pc[p] \in Held, Leaves(p),
           Touches(job[p].app), SettingsTyped,
           AppOK(live'[job[p].app], backup'[job[p].app], switched'[job[p].app], exposed'[job[p].app])
    PROVE  IInv'
<1>1. PICK l \in Away, j \in Job : Moves(p, l, j)  BY DEF Leaves
<1>2. pc'[p] = l  BY <1>1, MoveControl
<1>3. Knows(p)'  BY <1>2 DEF Knows, Away
<1>4. l \notin Deletes  BY DEF Deletes, Away
<1>5. QED  BY <1>1, <1>3, <1>4, LockedStep

-----------------------------------------------------------------------------
(* How the handlers go on.                                                 *)

LEMMA Typed ==
    ASSUME IInv
    PROVE  /\ pc \in [Procs -> Label] /\ job \in [Procs -> Job]
           /\ lock \in [Apps -> Procs \cup {None}]
           /\ live \in [Apps -> Content] /\ backup \in [Apps -> Content \cup {None}]
           /\ enabled \in [Apps -> BOOLEAN] /\ current \in [Apps -> Providers]
           /\ port \in Ports /\ server \in Ports \cup {None} /\ ProxyUrl \in Ports
           /\ switched \in [Apps -> BOOLEAN] /\ exposed \in [Apps -> BOOLEAN]
           /\ up \in BOOLEAN
           /\ \A p \in Procs : ControlOK(pc[p], job[p])
  BY DEF IInv, TypeOK, ProxyUrl, Control

LEMMA NoJobTyped == NoJob \in Job /\ ControlOK("idle", NoJob)
  BY DEF NoJob, Job, ControlOK, AppOp, SwitchOp, Enabling, Disabling, Switching, Updating, Undecided

LEMMA AtMoves ==
    ASSUME IInv, NEW p \in Procs, NEW from, NEW to \in Label, At(p, from, to),
           ControlOK(to, job[p]), to \in Held => from \in Held
    PROVE  Moves(p, to, job[p]) /\ pc[p] = from
  BY Typed DEF At, Goto, Moves

LEMMA ReturnLeaves ==
    ASSUME IInv, NEW p \in Procs, NEW from, Return(p, from)
    PROVE  Leaves(p)
<1>1. ControlOK(pc[p], job[p])  BY Typed
<1>2. CASE p = Boot
  <2>1. ControlOK("boot_next", job[p])
    BY <1>1 DEF ControlOK, Enabling, Disabling, Switching, Updating, Undecided
  <2>2. Moves(p, "boot_next", job[p])
    BY <1>2, <2>1, Typed DEF Return, Goto, Moves, Label, Held, Enabling, Disabling, Switching
  <2>3. QED  BY <2>2, Typed DEF Leaves, Away
<1>3. CASE p # Boot
  <2>1. Moves(p, "idle", NoJob)
    BY <1>3, NoJobTyped, Typed DEF Return, Goto, Moves, Label, Held, Enabling, Disabling, Switching
  <2>2. QED  BY <2>1, NoJobTyped DEF Leaves, Away
<1>4. QED  BY <1>2, <1>3

LEMMA FailLeaves ==
    ASSUME IInv, NEW p \in Procs, NEW from, Fail(p, from)
    PROVE  Leaves(p)
<1>1. CASE p = Boot /\ job[p].op = "enable"
  <2> DEFINE j == [job[p] EXCEPT !.op = "disable"]
  <2>1. pc' = [pc EXCEPT ![p] = "lock"] /\ job' = [job EXCEPT ![p] = j] /\ lock' = Unlocked(p)
        /\ up' = up
    BY <1>1 DEF Fail, Goto
  <2>2. j \in Job  BY Typed DEF Job, Operation
  <2>3. ControlOK("lock", j)
    <3>1. ControlOK(pc[p], job[p]) /\ job[p] \in Job  BY Typed
    <3>2. j.op = "disable" /\ j.app = job[p].app  BY <3>1 DEF Job
    <3>3. QED
      BY <1>1, <3>1, <3>2
      DEF ControlOK, AppOp, SwitchOp, Enabling, Disabling, Switching, Updating, Undecided
  <2>4. Moves(p, "lock", j)
    BY <2>1, <2>2, <2>3, Typed DEF Moves, Label, Held, Enabling, Disabling, Switching
  <2>5. QED  BY <2>2, <2>4 DEF Leaves, Away
<1>2. CASE ~(p = Boot /\ job[p].op = "enable")  BY <1>2, ReturnLeaves DEF Fail
<1>3. QED  BY <1>1, <1>2

LEMMA SwitchedLeaves ==
    ASSUME IInv, NEW p \in Procs, NEW from, pc[p] \in Switching, Switched(p, from)
    PROVE  Leaves(p)
<1>1. CASE job[p].op = "auto_failover"
  <2>1. ControlOK("af_write", job[p])
    <3>1. ControlOK(pc[p], job[p])  BY Typed
    <3>2. QED  BY <1>1, <3>1 DEF ControlOK, SwitchOp, Enabling, Disabling, Switching, Updating, Undecided
  <2>2. Moves(p, "af_write", job[p])
    BY <1>1, <2>1, Typed DEF Switched, Goto, Moves, Label, Held, Enabling, Disabling, Switching
  <2>3. QED  BY <2>2, Typed DEF Leaves, Away
<1>2. CASE job[p].op # "auto_failover"  BY <1>2, ReturnLeaves DEF Switched
<1>3. QED  BY <1>1, <1>2

LEMMA FinishLeaves ==
    ASSUME IInv, NEW p \in Procs, NEW from, Finish(p, from)
    PROVE  Leaves(p)
<1>1. ControlOK(pc[p], job[p])  BY Typed
<1>2. CASE job[p].op = "exit"
  <2>1. Moves(p, "exited", job[p])
    BY <1>1, <1>2, Typed
    DEF Finish, At, Goto, Moves, ControlOK, Label, Held, Enabling, Disabling, Switching,
        Updating, Undecided
  <2>2. QED  BY <2>1, Typed DEF Leaves, Away
<1>3. CASE job[p].op = "boot"
  <2>1. Moves(p, "boot_list", job[p])
    BY <1>1, <1>3, Typed
    DEF Finish, At, Goto, Moves, ControlOK, Label, Held, Enabling, Disabling, Switching,
        Updating, Undecided
  <2>2. QED  BY <2>1, Typed DEF Leaves, Away
<1>4. CASE job[p].op \notin {"exit", "boot"}  BY <1>4, ReturnLeaves DEF Finish
<1>5. QED  BY <1>2, <1>3, <1>4

\* Steps within a handler that leave the files alone.
LEMMA QuietAt ==
    ASSUME IInv, NEW p \in Procs, NEW from, NEW to \in Label, At(p, from, to),
           ControlOK(to, job[p]), to \in Held => from \in Held,
           FilesKept, SettingsTyped, to \in Deletes => from \in Deletes,
           to \in Knowing => Knows(p)'
    PROVE  IInv'
<1>1. Moves(p, to, job[p]) /\ pc[p] = from  BY AtMoves
<1>2. job[p] \in Job  BY Typed
<1>3. Knows(p)'
  <2>1. pc'[p] = to  BY <1>1, MoveControl
  <2>2. QED  BY <2>1 DEF Knows, Knowing
<1>4. QED  BY <1>1, <1>2, <1>3, QuietStep

\* Steps within a handler that change the locked application.
LEMMA LockedAt ==
    ASSUME IInv, NEW p \in Procs, NEW from \in Held, NEW to \in Held, At(p, from, to),
           ControlOK(to, job[p]), Touches(job[p].app), SettingsTyped, Knows(p)',
           AppOK(live'[job[p].app], backup'[job[p].app], switched'[job[p].app], exposed'[job[p].app])
    PROVE  IInv'
<1>1. to \in Label /\ to \notin Deletes
  BY DEF Held, Enabling, Disabling, Switching, Label, Deletes
<1>2. Moves(p, to, job[p]) /\ pc[p] = from  BY <1>1, AtMoves
<1>3. job[p] \in Job  BY Typed
<1>4. QED  BY <1>1, <1>2, <1>3, LockedStep

-----------------------------------------------------------------------------
(* Taking over                                                             *)

LEMMA HeldApp ==
    ASSUME IInv, NEW p \in Procs, pc[p] \in Held
    PROVE  /\ job[p].app \in Apps
           /\ AppOK(live[job[p].app], backup[job[p].app], switched[job[p].app], exposed[job[p].app])
           /\ Knows(p)
  BY HolderFacts DEF IInv, Files, Knowledge

\* At each label of an enabling, any other of them may follow.
LEMMA EnablingControl ==
    ASSUME IInv, NEW p \in Procs, pc[p] \in Enabling, NEW to \in Enabling
    PROVE  ControlOK(to, job[p]) /\ to \in Label /\ to \in Held /\ pc[p] \in Held /\ to \notin Deletes
<1>1. ControlOK(pc[p], job[p])  BY Typed
<1>2. QED
  BY <1>1 DEF ControlOK, Held, Enabling, Disabling, Switching, Updating, Undecided, Label, Deletes

LEMMA EnsureServerStep == ASSUME IInv, NEW p \in Procs, EnsureServer(p) PROVE IInv'
<1>1. CASE At(p, "en_start", "en_check") /\ server' = ProxyUrl /\ UNCHANGED <<port, files, history>>
  <2>1. pc[p] \in Enabling /\ "en_check" \in Enabling  BY <1>1 DEF At, Goto, Enabling
  <2>2. FilesKept /\ SettingsTyped
    BY <1>1, Typed DEF files, history, FilesKept, SettingsTyped
  <2>3. QED  BY <1>1, <2>1, <2>2, EnablingControl, QuietAt DEF Knowing, Enabling, Held
<1>2. CASE Fail(p, "en_start") /\ UNCHANGED <<files, proxy, history>>
  <2>1. FilesKept /\ SettingsTyped
    BY <1>2, Typed DEF files, history, proxy, FilesKept, SettingsTyped
  <2>2. QED  BY <1>2, <2>1, FailLeaves, QuietLeave
<1>3. QED  BY <1>1, <1>2 DEF EnsureServer

LEMMA CheckTakenStep == ASSUME IInv, NEW p \in Procs, CheckTaken(p) PROVE IInv'
<1>1. pc[p] \in Enabling /\ pc[p] = "en_check"  BY DEF CheckTaken, Enabling
<1>2. FilesKept /\ SettingsTyped
  BY Typed DEF CheckTaken, files, history, proxy, FilesKept, SettingsTyped
<1>3. CASE Return(p, "en_check")  BY <1>2, <1>3, ReturnLeaves, QuietLeave
<1>4. CASE backup[job[p].app] # None /\ At(p, "en_check", "en_restore")
  <2>1. Knows(p)'
    BY <1>2, <1>4, Typed DEF Knows, At, Goto, FilesKept
  <2>2. QED  BY <1>1, <1>2, <1>4, <2>1, EnablingControl, QuietAt DEF Enabling, Held
<1>5. CASE At(p, "en_check", "en_backup")
  BY <1>1, <1>2, <1>5, EnablingControl, QuietAt DEF Knowing, Enabling, Held
<1>6. QED  BY <1>3, <1>4, <1>5 DEF CheckTaken

LEMMA RestoreExistingStep == ASSUME IInv, NEW p \in Procs, RestoreExisting(p) PROVE IInv'
<1> DEFINE a == job[p].app
<1>1. pc[p] \in Enabling /\ pc[p] = "en_restore" /\ pc[p] \in Held
  BY DEF RestoreExisting, At, Fail, Return, Goto, Enabling, Held
<1>2. a \in Apps /\ AppOK(live[a], backup[a], switched[a], exposed[a]) /\ Knows(p)
  BY <1>1, HeldApp
<1>3. CASE /\ At(p, "en_restore", "en_takeover")
           /\ live' = [live EXCEPT ![a] = IF backup[a] = None THEN @ ELSE backup[a]]
           /\ UNCHANGED <<backup, enabled, current, proxy, history>>
  <2>1. Touches(a) /\ SettingsTyped
    BY <1>2, <1>3, Typed DEF Touches, SettingsTyped, proxy, history
  <2>2. AppOK(live'[a], backup'[a], switched'[a], exposed'[a])
    BY <1>2, <1>3, Typed DEF AppOK, history
  <2>3. Knows(p)'
    BY <1>1, <1>2, <1>3, Typed DEF Knows, At, Goto, history
  <2>4. QED
    BY <1>1, <1>3, <2>1, <2>2, <2>3, EnablingControl, LockedAt DEF Enabling
<1>4. CASE Fail(p, "en_restore") /\ UNCHANGED <<files, proxy, history>>
  <2>1. FilesKept /\ SettingsTyped
    BY <1>4, Typed DEF files, history, proxy, FilesKept, SettingsTyped
  <2>2. QED  BY <1>4, <2>1, FailLeaves, QuietLeave
<1>5. QED  BY <1>3, <1>4 DEF RestoreExisting

LEMMA BackupLiveStep == ASSUME IInv, NEW p \in Procs, BackupLive(p) PROVE IInv'
<1> DEFINE a == job[p].app
<1>1. pc[p] \in Enabling /\ pc[p] = "en_backup" /\ pc[p] \in Held
  BY DEF BackupLive, At, Fail, Return, Goto, Enabling, Held
<1>2. a \in Apps /\ AppOK(live[a], backup[a], switched[a], exposed[a]) /\ Knows(p)
  BY <1>1, HeldApp
<1>3. UNCHANGED <<live, enabled, current, port, server, switched, exposed>>
  BY DEF BackupLive, proxy, history
<1>4. CASE /\ At(p, "en_backup", "en_sync")
           /\ backup' = [backup EXCEPT ![a] = IF TakenOver(live[a]) THEN @ ELSE live[a]]
  <2>1. Touches(a) /\ SettingsTyped
    BY <1>2, <1>3, <1>4, Typed DEF Touches, SettingsTyped
  <2>2. backup'[a] = IF live[a] \in Ports THEN backup[a] ELSE live[a]
    BY <1>2, <1>4, Typed DEF TakenOver
  <2>3. live[a] # None  BY <1>2, Typed, ContentAssumption
  <2>4. AppOK(live'[a], backup'[a], switched'[a], exposed'[a])
    BY <1>2, <1>3, <2>2, <2>3 DEF AppOK
  <2>5. Knows(p)'
    BY <1>1, <1>2, <1>3, <1>4, <2>2, <2>3, Typed DEF Knows, At, Goto, AppOK
  <2>6. QED
    BY <1>1, <1>4, <2>1, <2>4, <2>5, EnablingControl, LockedAt DEF Enabling
<1>5. CASE Fail(p, "en_backup") /\ UNCHANGED backup
  <2>1. FilesKept /\ SettingsTyped  BY <1>3, <1>5, Typed DEF FilesKept, SettingsTyped
  <2>2. QED  BY <1>5, <2>1, FailLeaves, QuietLeave
<1>6. QED  BY <1>4, <1>5 DEF BackupLive

LEMMA SyncTokensStep == ASSUME IInv, NEW p \in Procs, SyncTokens(p) PROVE IInv'
<1> DEFINE a == job[p].app
<1>1. pc[p] \in Enabling /\ pc[p] = "en_sync" /\ pc[p] \in Held
  BY DEF SyncTokens, At, Fail, Return, Goto, Enabling, Held
<1>2. a \in Apps /\ AppOK(live[a], backup[a], switched[a], exposed[a]) /\ Knows(p)
  BY <1>1, HeldApp
<1>3. CASE At(p, "en_sync", "en_takeover") /\ UNCHANGED <<files, proxy, history>>
  <2>1. FilesKept /\ SettingsTyped
    BY <1>3, Typed DEF files, history, proxy, FilesKept, SettingsTyped
  <2>2. Knows(p)'  BY <1>1, <1>2, <1>3, <2>1, Typed DEF Knows, At, Goto, FilesKept
  <2>3. QED  BY <1>1, <1>3, <2>1, <2>2, EnablingControl, QuietAt DEF Enabling, Held
<1>4. CASE /\ Fail(p, "en_sync")
           /\ backup' = [backup EXCEPT ![a] = None]
           /\ exposed' = [exposed EXCEPT ![a] = @ \/ TakenOver(live[a])]
           /\ UNCHANGED <<live, enabled, current, proxy, switched>>
  <2>1. exposed'[a] \in BOOLEAN /\ exposed'[a] = (exposed[a] \/ live[a] \in Ports)
        /\ exposed' \in [Apps -> BOOLEAN]
    BY <1>2, <1>4, Typed DEF TakenOver
  <2>2. Touches(a) /\ SettingsTyped
    BY <1>2, <1>4, <2>1, Typed DEF Touches, SettingsTyped, proxy
  <2>3. AppOK(live'[a], backup'[a], switched'[a], exposed'[a])
    BY <1>2, <1>4, <2>1, Typed, ContentAssumption DEF AppOK, Content
  <2>4. QED  BY <1>1, <1>4, <2>2, <2>3, FailLeaves, LockedLeave
<1>5. QED  BY <1>3, <1>4 DEF SyncTokens

LEMMA WriteTakeoverStep == ASSUME IInv, NEW p \in Procs, WriteTakeover(p) PROVE IInv'
<1> DEFINE a == job[p].app
<1>1. pc[p] \in Enabling /\ pc[p] = "en_takeover" /\ pc[p] \in Held
  BY DEF WriteTakeover, At, Goto, Enabling, Held
<1>2. a \in Apps /\ AppOK(live[a], backup[a], switched[a], exposed[a]) /\ Knows(p)
  BY <1>1, HeldApp
<1>3. CASE /\ At(p, "en_takeover", "en_enable")
           /\ live' = [live EXCEPT ![a] = ProxyUrl]
           /\ UNCHANGED <<backup, enabled, current, proxy, history>>
  <2>1. Touches(a) /\ SettingsTyped
    BY <1>2, <1>3, Typed DEF Touches, SettingsTyped, proxy, history, Content
  <2>2. AppOK(live'[a], backup'[a], switched'[a], exposed'[a])
    BY <1>1, <1>2, <1>3, Typed DEF AppOK, Knows, history
  <2>3. Knows(p)'  BY <1>3, Typed DEF Knows, At, Goto
  <2>4. QED
    BY <1>1, <1>3, <2>1, <2>2, <2>3, EnablingControl, LockedAt DEF Enabling
<1>4. CASE At(p, "en_takeover", "en_rollback") /\ UNCHANGED <<files, proxy, history>>
  <2>1. FilesKept /\ SettingsTyped
    BY <1>4, Typed DEF files, history, proxy, FilesKept, SettingsTyped
  <2>2. Knows(p)'  BY <1>1, <1>2, <1>4, <2>1, Typed DEF Knows, At, Goto, FilesKept
  <2>3. QED  BY <1>1, <1>4, <2>1, <2>2, EnablingControl, QuietAt DEF Enabling, Held
<1>5. QED  BY <1>3, <1>4 DEF WriteTakeover

LEMMA RollBackStep == ASSUME IInv, NEW p \in Procs, RollBack(p) PROVE IInv'
<1> DEFINE a == job[p].app
<1>1. pc[p] = "en_rollback" /\ pc[p] \in Held
  BY DEF RollBack, Fail, Return, Goto, Enabling, Held
<1>2. a \in Apps /\ AppOK(live[a], backup[a], switched[a], exposed[a]) /\ Knows(p)
  BY <1>1, HeldApp
<1>3. Fail(p, "en_rollback") /\ UNCHANGED <<enabled, current, proxy, history>>  BY DEF RollBack
<1>4. CASE /\ live' = [live EXCEPT ![a] = IF backup[a] = None THEN @ ELSE backup[a]]
           /\ backup' = [backup EXCEPT ![a] = None]
  <2>1. Touches(a) /\ SettingsTyped
    BY <1>2, <1>3, <1>4, Typed DEF Touches, SettingsTyped, proxy, history
  <2>2. AppOK(live'[a], backup'[a], switched'[a], exposed'[a])
    BY <1>1, <1>2, <1>3, <1>4, Typed, ContentAssumption DEF AppOK, Knows, history, Content
  <2>3. QED  BY <1>1, <1>3, <2>1, <2>2, FailLeaves, LockedLeave
<1>5. CASE UNCHANGED <<live, backup>>
  <2>1. FilesKept /\ SettingsTyped
    BY <1>3, <1>5, Typed DEF history, proxy, FilesKept, SettingsTyped
  <2>2. QED  BY <1>3, <2>1, FailLeaves, QuietLeave
<1>6. QED  BY <1>4, <1>5 DEF RollBack

LEMMA SetEnabledStep == ASSUME IInv, NEW p \in Procs, SetEnabled(p) PROVE IInv'
<1>1. FilesKept /\ SettingsTyped
  BY Typed DEF SetEnabled, history, proxy, FilesKept, SettingsTyped
<1>2. QED  BY <1>1, ReturnLeaves, QuietLeave DEF SetEnabled

LEMMA EnableSteps == ASSUME IInv, NEW p \in Procs, Enable(p) PROVE IInv'
  BY EnsureServerStep, CheckTakenStep, RestoreExistingStep, BackupLiveStep, SyncTokensStep,
     WriteTakeoverStep, RollBackStep, SetEnabledStep DEF Enable

-----------------------------------------------------------------------------
(* Releasing                                                               *)

LEMMA DisablingControl ==
    ASSUME IInv, NEW p \in Procs, pc[p] \in Disabling, NEW to \in Disabling
    PROVE  ControlOK(to, job[p]) /\ to \in Label /\ to \in Held /\ pc[p] \in Held /\ to \notin Deletes
<1>1. ControlOK(pc[p], job[p])  BY Typed
<1>2. QED
  BY <1>1 DEF ControlOK, Held, Enabling, Disabling, Switching, Updating, Undecided, Label, Deletes

LEMMA CheckEnabledStep == ASSUME IInv, NEW p \in Procs, CheckEnabled(p) PROVE IInv'
<1>1. FilesKept /\ SettingsTyped
  BY Typed DEF CheckEnabled, files, history, proxy, FilesKept, SettingsTyped
<1>2. CASE At(p, "dis_check", "dis_restore")
  <2>1. pc[p] \in Disabling  BY <1>2 DEF At, Goto, Disabling
  <2>2. QED  BY <1>1, <1>2, <2>1, DisablingControl, QuietAt DEF Disabling, Held, Knowing
<1>3. CASE Return(p, "dis_check")  BY <1>1, <1>3, ReturnLeaves, QuietLeave
<1>4. QED  BY <1>2, <1>3 DEF CheckEnabled

\* What a restore makes of an application's file.
LEMMA RestoredOK ==
    ASSUME IInv, NEW a \in Apps, NEW content \in Restored(a)
    PROVE  /\ content \in Content
           /\ AppOK(content, backup[a], switched[a], exposed[a])
           /\ exposed[a] \/ content \notin Ports
<1>1. AppOK(live[a], backup[a], switched[a], exposed[a])  BY DEF IInv, Files
<1>2. Rebuilt(a) \subseteq Content \ Ports
  BY Typed, ContentAssumption DEF Rebuilt, Content
<1>3. CASE backup[a] # None /\ ~TakenOver(backup[a])
  BY <1>1, <1>3, Typed DEF Restored, AppOK, TakenOver
<1>4. CASE ~(backup[a] # None /\ ~TakenOver(backup[a])) /\ TakenOver(live[a])
  <2>1. content \in Rebuilt(a)  BY <1>4 DEF Restored
  <2>2. exposed[a]  BY <1>1, <1>4 DEF AppOK, TakenOver
  <2>3. QED  BY <1>1, <1>2, <2>1, <2>2 DEF AppOK
<1>5. CASE ~(backup[a] # None /\ ~TakenOver(backup[a])) /\ ~TakenOver(live[a])
  BY <1>1, <1>5, Typed DEF Restored, AppOK, TakenOver
<1>6. QED  BY <1>3, <1>4, <1>5

LEMMA RestoreLiveStep == ASSUME IInv, NEW p \in Procs, RestoreLive(p) PROVE IInv'
<1> DEFINE a == job[p].app
<1>1. pc[p] \in Disabling /\ pc[p] = "dis_restore" /\ pc[p] \in Held
  BY DEF RestoreLive, At, Return, Goto, Disabling, Held
<1>2. a \in Apps  BY <1>1, HeldApp
<1>3. CASE /\ At(p, "dis_restore", "dis_delete")
           /\ \E content \in Restored(a) : live' = [live EXCEPT ![a] = content]
           /\ UNCHANGED <<backup, enabled, current, proxy, history>>
  <2>1. PICK content \in Restored(a) : live' = [live EXCEPT ![a] = content]  BY <1>3
  <2>2. /\ content \in Content
        /\ AppOK(content, backup[a], switched[a], exposed[a])
        /\ exposed[a] \/ content \notin Ports
    BY <1>2, RestoredOK
  <2>3. Touches(a) /\ SettingsTyped
    BY <1>2, <1>3, <2>1, <2>2, Typed DEF Touches, SettingsTyped, proxy, history
  <2>4. AppOK(live'[a], backup'[a], switched'[a], exposed'[a]) /\ live'[a] = content
    BY <1>2, <1>3, <2>1, <2>2, Typed DEF history
  <2>5. Knows(p)'  BY <1>2, <1>3, <2>2, <2>4, Typed DEF Knows, At, Goto, history
  <2>6. QED
    BY <1>1, <1>3, <2>3, <2>4, <2>5, DisablingControl, LockedAt DEF Disabling
<1>4. CASE Return(p, "dis_restore") /\ UNCHANGED <<files, proxy, history>>
  <2>1. FilesKept /\ SettingsTyped
    BY <1>4, Typed DEF files, history, proxy, FilesKept, SettingsTyped
  <2>2. QED  BY <1>4, <2>1, ReturnLeaves, QuietLeave
<1>5. QED  BY <1>3, <1>4 DEF RestoreLive

LEMMA DeleteBackupStep == ASSUME IInv, NEW p \in Procs, DeleteBackup(p) PROVE IInv'
<1> DEFINE a == job[p].app
<1>1. /\ pc[p] \in Disabling /\ pc[p] = "dis_delete" /\ pc[p] \in Held
      /\ At(p, "dis_delete", "dis_clear")
      /\ backup' = [backup EXCEPT ![a] = None]
      /\ UNCHANGED <<live, enabled, current, proxy, history>>
  BY DEF DeleteBackup, At, Goto, Disabling, Held
<1>2. a \in Apps /\ AppOK(live[a], backup[a], switched[a], exposed[a]) /\ Knows(p)
  BY <1>1, HeldApp
<1>3. Touches(a) /\ SettingsTyped
  BY <1>1, <1>2, Typed DEF Touches, SettingsTyped, proxy, history
<1>4. AppOK(live'[a], backup'[a], switched'[a], exposed'[a])
  BY <1>1, <1>2, Typed, ContentAssumption DEF AppOK, Knows, history, Content
<1>5. Knows(p)'  BY <1>1, <1>2, Typed DEF Knows, At, Goto, history
<1>6. QED
  BY <1>1, <1>3, <1>4, <1>5, DisablingControl, LockedAt DEF Disabling

LEMMA ClearEnabledStep == ASSUME IInv, NEW p \in Procs, ClearEnabled(p) PROVE IInv'
<1>1. pc[p] \in Disabling /\ At(p, "dis_clear", "dis_count")
  BY DEF ClearEnabled, At, Goto, Disabling
<1>2. FilesKept /\ SettingsTyped
  BY Typed DEF ClearEnabled, history, proxy, FilesKept, SettingsTyped
<1>3. QED  BY <1>1, <1>2, DisablingControl, QuietAt DEF Disabling, Held, Knowing

LEMMA CountEnabledStep == ASSUME IInv, NEW p \in Procs, CountEnabled(p) PROVE IInv'
<1>1. FilesKept /\ SettingsTyped
  BY Typed DEF CountEnabled, files, history, proxy, FilesKept, SettingsTyped
<1>2. CASE At(p, "dis_count", "dis_stop")
  <2>1. pc[p] \in Disabling  BY <1>2 DEF At, Goto, Disabling
  <2>2. QED  BY <1>1, <1>2, <2>1, DisablingControl, QuietAt DEF Disabling, Held, Knowing
<1>3. CASE Return(p, "dis_count")  BY <1>1, <1>3, ReturnLeaves, QuietLeave
<1>4. QED  BY <1>2, <1>3 DEF CountEnabled

LEMMA StopIfLastStep == ASSUME IInv, NEW p \in Procs, StopIfLast(p) PROVE IInv'
<1>1. FilesKept /\ SettingsTyped
  BY Typed DEF StopIfLast, files, history, FilesKept, SettingsTyped
<1>2. QED  BY <1>1, ReturnLeaves, QuietLeave DEF StopIfLast

LEMMA DisableSteps == ASSUME IInv, NEW p \in Procs, Disable(p) PROVE IInv'
  BY CheckEnabledStep, RestoreLiveStep, DeleteBackupStep, ClearEnabledStep, CountEnabledStep,
     StopIfLastStep DEF Disable

-----------------------------------------------------------------------------
(* Switching the provider                                                  *)

LEMMA SwitchingControl ==
    ASSUME IInv, NEW p \in Procs, pc[p] \in Switching, NEW to \in Switching,
           to \in Undecided => pc[p] \in Undecided
    PROVE  /\ ControlOK(to, job[p]) /\ to \in Label /\ to \in Held /\ pc[p] \in Held
           /\ to \notin Deletes /\ job[p].to \in Providers
<1>1. ControlOK(pc[p], job[p])  BY Typed
<1>2. QED
  BY <1>1 DEF ControlOK, Held, Enabling, Disabling, Switching, Updating, Label, Deletes, Undecided

\* The local variables may change besides.
LEMMA QuietSwitch ==
    ASSUME IInv, NEW p \in Procs, NEW from \in Switching, NEW to \in Switching \ Undecided,
           NEW j \in Job, Goto(p, from, to), job' = [job EXCEPT ![p] = j], lock' = lock,
           j.app = job[p].app, j.to = job[p].to, j.op \in {job[p].op, "normal"},
           FilesKept, SettingsTyped, Knows(p)'
    PROVE  IInv'
<1>1. pc[p] = from /\ pc' = [pc EXCEPT ![p] = to] /\ up' = up  BY DEF Goto
<1>2. /\ ControlOK(to, job[p]) /\ to \in Label /\ from \in Held
      /\ to \notin Deletes /\ job[p].to \in Providers /\ ControlOK(from, job[p])
  BY <1>1, SwitchingControl, Typed
<1>3. job[p].op \in SwitchOp /\ job[p].app \in Apps
  BY <1>2 DEF ControlOK, Switching, SwitchOp, AppOp
<1>4. ControlOK(to, j)
  BY <1>2, <1>3 DEF ControlOK, SwitchOp, AppOp, Switching, Enabling, Disabling, Updating, Undecided
<1>5. Moves(p, to, j)  BY <1>1, <1>2, <1>4, Typed DEF Moves
<1>6. QED  BY <1>2, <1>5, QuietStep

LEMMA DecideSwitchStep == ASSUME IInv, NEW p \in Procs, DecideSwitch(p) PROVE IInv'
<1>1. FilesKept /\ SettingsTyped
  BY Typed DEF DecideSwitch, files, history, proxy, FilesKept, SettingsTyped
<1>2. CASE At(p, "sw_decide", "hs_read")
  <2>1. pc[p] \in Switching /\ pc[p] \in Undecided  BY <1>2 DEF At, Goto, Switching, Undecided
  <2>2. QED  BY <1>1, <1>2, <2>1, SwitchingControl, QuietAt DEF Switching, Held, Knowing, Undecided
<1>3. CASE /\ backup[job[p].app] = None /\ ~TakenOver(live[job[p].app])
           /\ Goto(p, "sw_decide", "hs_current")
           /\ job' = [job EXCEPT ![p].op = "normal"] /\ UNCHANGED lock
  <2> DEFINE j == [job[p] EXCEPT !.op = "normal"]
  <2>1. job[p] \in Job  BY Typed
  <2>2. j \in Job /\ j.app = job[p].app /\ j.to = job[p].to /\ j.op = "normal"  BY <2>1 DEF Job
  <2>3. job' = [job EXCEPT ![p] = j]  BY <1>3
  <2>4. Knows(p)'
    BY <1>1, <1>3, <2>2, <2>3, Typed DEF Knows, Goto, FilesKept, TakenOver
  <2>5. QED  BY <1>1, <1>3, <2>2, <2>3, <2>4, QuietSwitch DEF Switching, Undecided
<1>4. QED  BY <1>2, <1>3 DEF DecideSwitch

LEMMA CheckFailoverStep ==
    ASSUME IInv, NEW p \in Procs, CheckFailover(p) \/ ReadConfigRow(p) PROVE IInv'
<1>1. FilesKept /\ SettingsTyped
  BY Typed DEF CheckFailover, ReadConfigRow, files, history, proxy, FilesKept, SettingsTyped
<1>2. CASE At(p, pc[p], "lock") /\ pc[p] \in {"fo_check", "af_read"}
  <2>1. ControlOK(pc[p], job[p])  BY Typed
  <2>2. ControlOK("lock", job[p])
    BY <1>2, <2>1 DEF ControlOK, AppOp, Enabling, Disabling, Switching, Updating, Undecided
  <2>3. "lock" \in Label /\ "lock" \notin Held  BY DEF Label, Held, Enabling, Disabling, Switching
  <2>4. QED  BY <1>1, <1>2, <2>2, <2>3, QuietAt DEF Deletes, Knowing
<1>3. CASE Return(p, pc[p])  BY <1>1, <1>3, ReturnLeaves, QuietLeave
<1>4. QED  BY <1>2, <1>3 DEF CheckFailover, ReadConfigRow

LEMMA WriteConfigRowStep == ASSUME IInv, NEW p \in Procs, WriteConfigRow(p) PROVE IInv'
<1>1. FilesKept /\ SettingsTyped
  BY Typed DEF WriteConfigRow, history, proxy, FilesKept, SettingsTyped
<1>2. QED  BY <1>1, ReturnLeaves, QuietLeave DEF WriteConfigRow

LEMMA ReadOwnerStep == ASSUME IInv, NEW p \in Procs, ReadOwner(p) PROVE IInv'
<1> DEFINE a == job[p].app
<1>1. FilesKept /\ SettingsTyped
  BY Typed DEF ReadOwner, files, history, proxy, FilesKept, SettingsTyped
<1>2. CASE Return(p, "hs_read")  BY <1>1, <1>2, ReturnLeaves, QuietLeave
<1>3. CASE /\ Goto(p, "hs_read", "hs_current")
           /\ job' = [job EXCEPT ![p].has_backup = backup[a] # None,
                                 ![p].taken = TakenOver(live[a])]
           /\ UNCHANGED lock
  <2> DEFINE j == [job[p] EXCEPT !.has_backup = backup[a] # None, !.taken = TakenOver(live[a])]
  <2>1. job[p] \in Job  BY Typed
  <2>2. (backup[a] # None) \in BOOLEAN /\ TakenOver(live[a]) \in BOOLEAN  BY DEF TakenOver
  <2>3. j \in Job /\ j.app = job[p].app /\ j.to = job[p].to /\ j.op = job[p].op
    BY <2>1, <2>2 DEF Job
  <2>4. job' = [job EXCEPT ![p] = j]  BY <1>3
  <2>5. pc[p] = "hs_read" /\ pc[p] \in Held  BY <1>3 DEF Goto, Held, Switching
  <2>6. a \in Apps /\ AppOK(live[a], backup[a], switched[a], exposed[a]) /\ j.op # "normal"
    BY <2>3, <2>5, HeldApp, Typed DEF ControlOK, Undecided
  <2>7. j.has_backup = (backup[a] # None) /\ j.taken = TakenOver(live[a])  BY <2>1 DEF Job
  <2>8. Knows(p)'
    BY <1>1, <1>3, <2>3, <2>4, <2>6, <2>7, Typed DEF Knows, Goto, FilesKept, TakenOver, AppOK
  <2>9. QED  BY <1>1, <1>3, <2>3, <2>4, <2>8, QuietSwitch DEF Switching, Undecided
<1>4. QED  BY <1>2, <1>3 DEF ReadOwner

LEMMA SetCurrentStep == ASSUME IInv, NEW p \in Procs, SetCurrent(p) PROVE IInv'
<1>1. pc[p] \in Switching
  BY DEF SetCurrent, At, Switched, Return, Goto, Switching
<1>2. job[p].to \in Providers /\ ControlOK("hs_backup", job[p])
  BY <1>1, SwitchingControl DEF Switching, Undecided
<1>3. FilesKept /\ SettingsTyped
  BY <1>2, Typed DEF SetCurrent, history, proxy, FilesKept, SettingsTyped
<1>4. Knows(p)  BY <1>1, HeldApp DEF Held
<1>5. CASE \/ job[p].op = "normal" /\ At(p, "hs_current", "sw_live")
           \/ /\ job[p].op # "normal" /\ (job[p].has_backup \/ job[p].taken)
              /\ At(p, "hs_current", "hs_backup")
  <2>1. Knows(p)'  BY <1>3, <1>4, <1>5, Typed DEF Knows, At, Goto, FilesKept
  <2>2. QED
    BY <1>1, <1>3, <1>5, <2>1, SwitchingControl, QuietAt DEF Switching, Held, Undecided
<1>6. CASE Switched(p, "hs_current")  BY <1>1, <1>3, <1>6, SwitchedLeaves, QuietLeave
<1>7. QED  BY <1>5, <1>6 DEF SetCurrent

LEMMA RewriteBackupStep == ASSUME IInv, NEW p \in Procs, RewriteBackup(p) PROVE IInv'
<1> DEFINE a == job[p].app
<1>1. /\ pc[p] \in Switching /\ pc[p] = "hs_backup" /\ pc[p] \in Held
      /\ backup' = [backup EXCEPT ![a] = job[p].to]
      /\ switched' = [switched EXCEPT ![a] = TRUE]
      /\ UNCHANGED <<live, enabled, current, proxy, exposed>>
  BY DEF RewriteBackup, Switching, Held
<1>2. a \in Apps /\ AppOK(live[a], backup[a], switched[a], exposed[a])  BY <1>1, HeldApp
<1>3. job[p].to \in Providers  BY <1>1, SwitchingControl DEF Switching, Undecided
<1>4. job[p].to \in Content /\ job[p].to # None /\ job[p].to \notin Ports
  BY <1>3, ContentAssumption DEF Content
<1>5. Touches(a) /\ SettingsTyped
  BY <1>1, <1>2, <1>4, Typed DEF Touches, SettingsTyped, proxy
<1>6. backup'[a] = job[p].to /\ switched'[a]
  BY <1>1, <1>2, Typed
<1>7. AppOK(live'[a], backup'[a], switched'[a], exposed'[a])
  BY <1>4, <1>6 DEF AppOK
<1>8. CASE Switched(p, "hs_backup")  BY <1>1, <1>5, <1>7, <1>8, SwitchedLeaves, LockedLeave
<1>9. CASE At(p, "hs_backup", "hs_live")
  <2>1. Knows(p)  BY <1>1, HeldApp
  <2>2. pc'[p] = "hs_live" /\ job' = job  BY <1>9, Typed DEF At, Goto
  <2>3. Knows(p)'  BY <1>1, <1>4, <1>6, <2>1, <2>2 DEF Knows
  <2>4. QED
    BY <1>1, <1>5, <1>7, <1>9, <2>3, SwitchingControl, LockedAt DEF Switching, Undecided
<1>10. QED  BY <1>8, <1>9 DEF RewriteBackup

LEMMA SyncLiveStep == ASSUME IInv, NEW p \in Procs, SyncLive(p) PROVE IInv'
<1> DEFINE a == job[p].app
           content == IF Kind[a] = "claude" \/ job[p].taken THEN ProxyUrl ELSE job[p].to
<1>1. pc[p] \in Switching /\ pc[p] = "hs_live" /\ pc[p] \in Held
  BY DEF SyncLive, Switched, Return, Goto, Switching, Held
<1>2. a \in Apps /\ AppOK(live[a], backup[a], switched[a], exposed[a]) /\ Knows(p)
  BY <1>1, HeldApp
<1>3. content \in Content
  BY <1>1, Typed, SwitchingControl DEF Switching, Content, Undecided
<1>4. UNCHANGED <<backup, enabled, current, proxy, history>>  BY DEF SyncLive
<1>5. CASE Switched(p, "hs_live") /\ live' = [live EXCEPT ![a] = content]
  <2>1. Touches(a) /\ SettingsTyped
    BY <1>2, <1>3, <1>4, <1>5, Typed DEF Touches, SettingsTyped, proxy, history
  <2>2. AppOK(live'[a], backup'[a], switched'[a], exposed'[a])
    BY <1>1, <1>2, <1>4 DEF AppOK, Knows, history
  <2>3. QED  BY <1>1, <1>5, <2>1, <2>2, SwitchedLeaves, LockedLeave
<1>6. CASE Return(p, "hs_live") /\ UNCHANGED live
  <2>1. FilesKept /\ SettingsTyped
    BY <1>4, <1>6, Typed DEF history, proxy, FilesKept, SettingsTyped
  <2>2. QED  BY <1>6, <2>1, ReturnLeaves, QuietLeave
<1>7. QED  BY <1>5, <1>6 DEF SyncLive

LEMMA WriteProviderStep == ASSUME IInv, NEW p \in Procs, WriteProvider(p) PROVE IInv'
<1> DEFINE a == job[p].app
<1>1. /\ pc[p] \in Switching /\ pc[p] = "sw_live" /\ pc[p] \in Held
      /\ Return(p, "sw_live") /\ UNCHANGED <<backup, enabled, current, proxy, exposed>>
  BY DEF WriteProvider, Return, Goto, Switching, Held
<1>2. a \in Apps /\ AppOK(live[a], backup[a], switched[a], exposed[a])  BY <1>1, HeldApp
<1>3. job[p].to \in Content /\ job[p].to \notin Ports
  BY <1>1, SwitchingControl, ContentAssumption DEF Switching, Content, Undecided
<1>4. CASE /\ live' = [live EXCEPT ![a] = job[p].to]
           /\ switched' = [switched EXCEPT ![a] = TRUE]
  <2>1. Touches(a) /\ SettingsTyped
    BY <1>1, <1>2, <1>3, <1>4, Typed DEF Touches, SettingsTyped, proxy
  <2>2. live'[a] = job[p].to /\ switched'[a]  BY <1>2, <1>4, Typed
  <2>3. AppOK(live'[a], backup'[a], switched'[a], exposed'[a])
    BY <1>1, <1>2, <1>3, <2>2 DEF AppOK
  <2>4. QED  BY <1>1, <2>1, <2>3, ReturnLeaves, LockedLeave
<1>5. CASE UNCHANGED <<live, switched>>
  <2>1. FilesKept /\ SettingsTyped
    BY <1>1, <1>5, Typed DEF proxy, FilesKept, SettingsTyped
  <2>2. QED  BY <1>1, <2>1, ReturnLeaves, QuietLeave
<1>6. QED  BY <1>4, <1>5 DEF WriteProvider

LEMMA SwitchSteps == ASSUME IInv, NEW p \in Procs, Switch(p) PROVE IInv'
  BY DecideSwitchStep, CheckFailoverStep, WriteConfigRowStep, ReadOwnerStep, SetCurrentStep,
     RewriteBackupStep, SyncLiveStep, WriteProviderStep DEF Switch

-----------------------------------------------------------------------------
(* Stopping with a restore, and recovering                                 *)

\* Outside the three handlers, at a label that is neither held nor knows.
LEMMA LooseControl ==
    ASSUME IInv, NEW p \in Procs,
           NEW to \in {"stop", "exited", "exit_check", "boot_list", "restore_all"}
    PROVE  ControlOK(to, job[p]) /\ to \in Label /\ to \notin Held /\ to \notin Knowing
<1>1. ControlOK(pc[p], job[p])  BY Typed
<1>2. QED
  BY <1>1 DEF ControlOK, Held, Enabling, Disabling, Switching, Updating, Undecided, Label, Knowing

LEMMA RestoreAllStep ==
    ASSUME IInv, NEW p \in Procs, NEW from, RestoreAll(p, from), FilesKept, SettingsTyped
    PROVE  IInv'
<1> DEFINE j == [job[p] EXCEPT !.todo = Apps]
<1>1. job[p] \in Job /\ ControlOK(pc[p], job[p])  BY Typed
<1>2. /\ j \in Job /\ j.todo = Apps /\ j.op = job[p].op /\ j.app = job[p].app /\ j.to = job[p].to
  BY <1>1 DEF Job
<1>3. ControlOK("restore_all", j)
  BY <1>1, <1>2 DEF ControlOK, Enabling, Disabling, Switching, Updating, Undecided
<1>4. Moves(p, "restore_all", j)
  BY <1>2, <1>3, Typed
  DEF RestoreAll, Goto, Moves, Label, Held, Enabling, Disabling, Switching
<1>5. pc'[p] = "restore_all"  BY <1>4, MoveControl
<1>6. Knows(p)'  BY <1>5 DEF Knows
<1>7. QED  BY <1>2, <1>4, <1>6, QuietStep

LEMMA StopFirstStep == ASSUME IInv, NEW p \in Procs, StopFirst(p) PROVE IInv'
<1>1. FilesKept /\ SettingsTyped
  BY Typed DEF StopFirst, files, history, FilesKept, SettingsTyped
<1>2. QED  BY <1>1, RestoreAllStep DEF StopFirst

LEMMA ExitCheckStep == ASSUME IInv, NEW p \in Procs, ExitCheck(p) PROVE IInv'
<1>1. FilesKept /\ SettingsTyped
  BY Typed DEF ExitCheck, files, history, proxy, FilesKept, SettingsTyped
<1>2. PICK to \in {"stop", "exited"} : At(p, "exit_check", to)  BY DEF ExitCheck
<1>3. QED  BY <1>1, <1>2, LooseControl, QuietAt DEF Deletes

LEMMA RestoreNextStep == ASSUME IInv, NEW p \in Procs, RestoreNext(p) PROVE IInv'
<1>1. PICK a \in Apps :
          /\ a \in job[p].todo
          /\ lock[a] = None
          /\ \/ /\ \E content \in Restored(a) : live' = [live EXCEPT ![a] = content]
                /\ job' = [job EXCEPT ![p].todo = @ \ {a}]
             \/ /\ job' = [job EXCEPT ![p].todo = @ \ {a}, ![p].failed = TRUE]
                /\ UNCHANGED live
  BY DEF RestoreNext, Foremost
<1>2. /\ pc[p] = "restore_all" /\ pc' = [pc EXCEPT ![p] = "restore_all"] /\ up' = up
      /\ UNCHANGED <<lock, backup, enabled, current, port, server, switched, exposed>>
  BY DEF RestoreNext, Goto, proxy, history
<1>3. PICK j \in Job : /\ job' = [job EXCEPT ![p] = j]
                       /\ j.op = job[p].op /\ j.app = job[p].app /\ j.to = job[p].to
                       /\ j.todo = job[p].todo \ {a}
                       /\ job[p].failed => j.failed
                       /\ \/ j.failed /\ UNCHANGED live
                          \/ \E content \in Restored(a) : live' = [live EXCEPT ![a] = content]
  <2>1. job[p] \in Job  BY Typed
  <2>2. CASE /\ \E content \in Restored(a) : live' = [live EXCEPT ![a] = content]
             /\ job' = [job EXCEPT ![p].todo = @ \ {a}]
    <3> DEFINE k == [job[p] EXCEPT !.todo = @ \ {a}]
    <3>1. /\ k \in Job /\ k.op = job[p].op /\ k.app = job[p].app /\ k.to = job[p].to
          /\ k.todo = job[p].todo \ {a} /\ k.failed = job[p].failed
      BY <2>1 DEF Job
    <3>2. job' = [job EXCEPT ![p] = k]  BY <2>2
    <3>3. QED  BY <2>2, <3>1, <3>2
  <2>3. CASE /\ job' = [job EXCEPT ![p].todo = @ \ {a}, ![p].failed = TRUE]
             /\ UNCHANGED live
    <3> DEFINE k == [job[p] EXCEPT !.todo = @ \ {a}, !.failed = TRUE]
    <3>1. /\ k \in Job /\ k.op = job[p].op /\ k.app = job[p].app /\ k.to = job[p].to
          /\ k.todo = job[p].todo \ {a} /\ k.failed
      BY <2>1 DEF Job
    <3>2. job' = [job EXCEPT ![p] = k]  BY <2>3
    <3>3. QED  BY <2>3, <3>1, <3>2
  <2>4. QED  BY <1>1, <2>2, <2>3
<1>4. Moves(p, "restore_all", j)
  <2>1. ControlOK(pc[p], job[p])  BY Typed
  <2>2. ControlOK("restore_all", j)
    BY <1>3, <2>1 DEF ControlOK, Enabling, Disabling, Switching, Updating, Undecided
  <2>3. QED
    BY <1>2, <1>3, <2>2, Typed DEF Moves, Label, Held, Enabling, Disabling, Switching
<1>5. /\ pc'[p] = "restore_all" /\ job'[p] = j
      /\ \A q \in Procs \ {p} : pc'[q] = pc[q] /\ job'[q] = job[q]
      /\ pc' \in [Procs -> Label] /\ job' \in [Procs -> Job]
      /\ Control' /\ Locking'
  BY <1>4, MoveControl
<1>6. AppOK(live[a], backup[a], switched[a], exposed[a])  BY DEF IInv, Files
<1>7. /\ live' \in [Apps -> Content]
      /\ \A b \in Apps \ {a} : live'[b] = live[b]
      /\ AppOK(live'[a], backup[a], switched[a], exposed[a])
      /\ exposed[a] \/ j.failed \/ live'[a] \notin Ports
      /\ live[a] \notin Ports => exposed[a] \/ live'[a] \notin Ports
  <2>1. CASE j.failed /\ UNCHANGED live  BY <1>6, <2>1, Typed
  <2>2. CASE \E content \in Restored(a) : live' = [live EXCEPT ![a] = content]
    <3>1. PICK content \in Restored(a) : live' = [live EXCEPT ![a] = content]  BY <2>2
    <3>2. /\ content \in Content
          /\ AppOK(content, backup[a], switched[a], exposed[a])
          /\ exposed[a] \/ content \notin Ports
      BY RestoredOK
    <3>3. live'[a] = content  BY <3>1, Typed
    <3>4. QED  BY <3>1, <3>2, <3>3, Typed
  <2>3. QED  BY <1>3, <2>1, <2>2
<1>8. TypeOK'  BY <1>2, <1>5, <1>7 DEF IInv, TypeOK
<1>9. Knowledge'
  <2> SUFFICES ASSUME NEW q \in Procs PROVE Knows(q)'  BY DEF Knowledge
  <2>1. CASE q = p  BY <1>5, <2>1 DEF Knows
  <2>2. CASE q # p /\ pc[q] \in Held
    <3>1. job[q].app \in Apps /\ job[q].app # a  BY <1>1, <2>2, HolderFacts
    <3>2. Knows(q)  BY DEF IInv, Knowledge
    <3>3. QED  BY <1>2, <1>5, <1>7, <2>2, <3>1, <3>2 DEF Knows
  <2>3. CASE q # p /\ pc[q] \notin Held
    BY <1>5, <2>3 DEF Knows, Held, Enabling, Disabling, Switching
  <2>4. QED  BY <2>1, <2>2, <2>3
<1>10. Files'
  <2> SUFFICES ASSUME NEW b \in Apps PROVE AppOK(live[b], backup[b], switched[b], exposed[b])'
    BY DEF Files
  <2>1. CASE b = a  BY <1>2, <1>7, <2>1 DEF AppOK
  <2>2. CASE b # a  BY <1>2, <1>7, <2>2 DEF IInv, Files, AppOK
  <2>3. QED  BY <2>1, <2>2
<1>11. Restoring'
  <2> SUFFICES ASSUME NEW b \in Apps, NEW q \in Procs, q \in Deleting(b)', ~exposed'[b]
               PROVE  lock'[b] = None /\ (job'[q].failed \/ live'[b] \notin Ports)
    BY DEF Restoring, HasRestored
  <2>1. HasRestored(q, b)  BY DEF IInv, Restoring
  <2>2. CASE b # a
    <3>1. q \in Deleting(b) /\ (job[q].failed => job'[q].failed)
      BY <1>2, <1>3, <1>5, <2>2 DEF Deleting
    <3>2. QED  BY <1>2, <1>7, <2>1, <2>2, <3>1 DEF HasRestored
  <2>3. CASE b = a /\ q = p  BY <1>1, <1>2, <1>5, <1>7, <2>3
  <2>4. CASE b = a /\ q # p
    <3>1. q \in Deleting(a) /\ job'[q] = job[q]  BY <1>5, <2>4 DEF Deleting
    <3>2. QED  BY <1>1, <1>2, <1>7, <2>1, <2>4, <3>1 DEF HasRestored
  <2>5. QED  BY <2>2, <2>3, <2>4
<1>12. QED  BY <1>5, <1>8, <1>9, <1>10, <1>11 DEF IInv

LEMMA RestoreDoneStep == ASSUME IInv, NEW p \in Procs, RestoreDone(p) PROVE IInv'
<1>1. FilesKept /\ SettingsTyped
  BY Typed DEF RestoreDone, files, history, proxy, FilesKept, SettingsTyped
<1>2. CASE Finish(p, "restore_all")  BY <1>1, <1>2, FinishLeaves, QuietLeave
<1>3. CASE ~job[p].failed /\ job[p].todo = {}
           /\ \E to \in {"clear_all", "delete_all"} : At(p, "restore_all", to)
  <2>1. PICK to \in {"clear_all", "delete_all"} : At(p, "restore_all", to)  BY <1>3
  <2>2. ControlOK(pc[p], job[p])  BY Typed
  <2>3. ControlOK(to, job[p])
    BY <1>3, <2>2 DEF ControlOK, Enabling, Disabling, Switching, Updating, Undecided
  <2>4. to \in Label /\ to \notin Held /\ to \notin Knowing
    BY DEF Label, Held, Enabling, Disabling, Switching, Knowing
  <2>5. QED  BY <1>1, <2>1, <2>3, <2>4, QuietAt DEF Deletes
<1>4. QED  BY <1>2, <1>3 DEF RestoreDone

LEMMA ClearAllStep == ASSUME IInv, NEW p \in Procs, ClearAll(p) PROVE IInv'
<1>1. FilesKept /\ SettingsTyped
  BY Typed DEF ClearAll, history, proxy, FilesKept, SettingsTyped
<1>2. At(p, "clear_all", "delete_all") /\ pc[p] = "clear_all"  BY DEF ClearAll, At, Goto
<1>3. ControlOK(pc[p], job[p])  BY Typed
<1>4. ControlOK("delete_all", job[p])
  BY <1>2, <1>3 DEF ControlOK, Enabling, Disabling, Switching, Updating, Undecided
<1>5. "delete_all" \in Label /\ "delete_all" \notin Held /\ "delete_all" \notin Knowing
  BY DEF Label, Held, Enabling, Disabling, Switching, Knowing
<1>6. QED  BY <1>1, <1>2, <1>4, <1>5, QuietAt DEF Deletes

\* Whatever a deletion takes away has been restored, or was exposed.
LEMMA DeleteAllStep == ASSUME IInv, NEW p \in Procs, DeleteAll(p) PROVE IInv'
<1>1. /\ backup' = [a \in Apps |-> None]
      /\ UNCHANGED <<live, enabled, current, port, server, switched, exposed>>
      /\ Finish(p, "delete_all")
  BY DEF DeleteAll, proxy, history
<1>2. pc[p] = "delete_all"  BY <1>1 DEF Finish, At, Return, Goto
<1>3. PICK l \in Away, j \in Job : Moves(p, l, j)  BY <1>1, FinishLeaves DEF Leaves
<1>4. /\ pc'[p] = l /\ job'[p] = j
      /\ \A q \in Procs \ {p} : pc'[q] = pc[q] /\ job'[q] = job[q]
      /\ \A a \in Apps : lock[a] = None => lock'[a] = None
      /\ Control' /\ Locking'
  BY <1>3, MoveControl
<1>5. TypeOK'  BY <1>1, <1>3, MoveControl DEF IInv, TypeOK
<1>6. ASSUME NEW a \in Apps PROVE exposed[a] \/ (lock[a] = None /\ live[a] \notin Ports)
  <2>1. job[p].todo = {} /\ ~job[p].failed  BY <1>2, Typed DEF ControlOK
  <2>2. p \in Deleting(a)  BY <1>2, <2>1 DEF Deleting
  <2>3. QED  BY <2>1, <2>2 DEF IInv, Restoring, HasRestored
<1>7. Knowledge'
  <2> SUFFICES ASSUME NEW q \in Procs PROVE Knows(q)'  BY DEF Knowledge
  <2>1. CASE q = p  BY <1>4, <2>1 DEF Knows, Away
  <2>2. CASE q # p /\ pc[q] \in Held
    <3>1. job[q].app \in Apps /\ lock[job[q].app] # None  BY <2>2, HolderFacts
    <3>2. exposed[job[q].app]  BY <1>6, <3>1
    <3>3. Knows(q)  BY DEF IInv, Knowledge
    <3>4. QED  BY <1>1, <1>4, <2>2, <3>2, <3>3 DEF Knows
  <2>3. CASE q # p /\ pc[q] \notin Held
    BY <1>4, <2>3 DEF Knows, Held, Enabling, Disabling, Switching
  <2>4. QED  BY <2>1, <2>2, <2>3
<1>8. Files'
  <2> SUFFICES ASSUME NEW a \in Apps PROVE AppOK(live[a], backup[a], switched[a], exposed[a])'
    BY DEF Files
  <2>1. AppOK(live[a], backup[a], switched[a], exposed[a])  BY DEF IInv, Files
  <2>2. None \notin Ports  BY ContentAssumption DEF Content
  <2>3. QED  BY <1>1, <1>6, <2>1, <2>2 DEF AppOK
<1>9. Restoring'
  <2> SUFFICES ASSUME NEW a \in Apps, NEW q \in Procs PROVE HasRestored(q, a)'
    BY DEF Restoring
  <2>1. HasRestored(q, a)  BY DEF IInv, Restoring
  <2>2. CASE q = p  BY <1>4, <2>2 DEF HasRestored, Deleting, Away
  <2>3. CASE q # p  BY <1>1, <1>4, <2>1, <2>3 DEF HasRestored, Deleting
  <2>4. QED  BY <2>2, <2>3
<1>10. QED  BY <1>4, <1>5, <1>7, <1>8, <1>9 DEF IInv

LEMMA StopAllSteps == ASSUME IInv, NEW p \in Procs, StopAll(p) PROVE IInv'
  BY StopFirstStep, ExitCheckStep, RestoreNextStep, RestoreDoneStep, ClearAllStep,
     DeleteAllStep DEF StopAll

-----------------------------------------------------------------------------
(* The server's own commands                                               *)

LEMMA UpdatingControl ==
    ASSUME IInv, NEW p \in Procs, pc[p] \in Updating, NEW to \in Updating
    PROVE  /\ ControlOK(to, job[p]) /\ to \in Label /\ to \notin Held /\ to \notin Knowing
           /\ to \notin Deletes /\ job[p].to \in Ports
<1>1. ControlOK(pc[p], job[p])  BY Typed
<1>2. QED
  BY <1>1 DEF ControlOK, Held, Enabling, Disabling, Switching, Updating, Undecided, Label,
              Deletes, Knowing

LEMMA ServerStateSteps ==
    ASSUME IInv, NEW p \in Procs, StartServer(p) \/ StopServerCheck(p) \/ StopServer(p)
    PROVE  IInv'
<1>1. FilesKept /\ SettingsTyped
  BY Typed DEF StartServer, StopServerCheck, StopServer, files, history, proxy, FilesKept, SettingsTyped
<1>2. CASE StartServer(p)  BY <1>1, <1>2, ReturnLeaves, QuietLeave DEF StartServer
<1>3. CASE StopServer(p)  BY <1>1, <1>3, ReturnLeaves, QuietLeave DEF StopServer
<1>4. CASE At(p, "ss_check", "ss_stop")
  <2>1. ControlOK(pc[p], job[p])  BY Typed
  <2>2. ControlOK("ss_stop", job[p]) /\ "ss_stop" \in Label /\ "ss_stop" \notin Held
        /\ "ss_stop" \notin Knowing
    BY <2>1 DEF ControlOK, Label, Held, Enabling, Disabling, Switching, Updating, Undecided, Knowing
  <2>3. QED  BY <1>1, <1>4, <2>2, QuietAt DEF Deletes
<1>5. CASE Return(p, "ss_check")  BY <1>1, <1>5, ReturnLeaves, QuietLeave
<1>6. QED  BY <1>2, <1>3, <1>4, <1>5 DEF StopServerCheck

LEMMA SavePortStep == ASSUME IInv, NEW p \in Procs, SavePort(p) PROVE IInv'
<1>1. pc[p] \in Updating  BY DEF SavePort, Return, At, Goto, Updating
<1>2. FilesKept /\ SettingsTyped
  BY <1>1, UpdatingControl, Typed DEF SavePort, files, history, FilesKept, SettingsTyped
<1>3. CASE Return(p, "uc_save")  BY <1>2, <1>3, ReturnLeaves, QuietLeave
<1>4. CASE At(p, "uc_save", "uc_restart")
  <2>1. "uc_restart" \in Updating  BY DEF Updating
  <2>2. QED  BY <1>1, <1>2, <1>4, <2>1, UpdatingControl, QuietAt
<1>5. QED  BY <1>3, <1>4 DEF SavePort

LEMMA RestartServerStep == ASSUME IInv, NEW p \in Procs, RestartServer(p) PROVE IInv'
<1>1. pc[p] \in Updating  BY DEF RestartServer, Return, At, Goto, Updating
<1>2. FilesKept /\ SettingsTyped
  BY <1>1, UpdatingControl, Typed DEF RestartServer, files, history, FilesKept, SettingsTyped
<1>3. CASE Return(p, "uc_restart")  BY <1>2, <1>3, ReturnLeaves, QuietLeave
<1>4. CASE At(p, "uc_restart", "uc_status")
  <2>1. "uc_status" \in Updating  BY DEF Updating
  <2>2. QED  BY <1>1, <1>2, <1>4, <2>1, UpdatingControl, QuietAt
<1>5. QED  BY <1>3, <1>4 DEF RestartServer

LEMMA ReadStatusStep == ASSUME IInv, NEW p \in Procs, ReadStatus(p) PROVE IInv'
<1> DEFINE j == [job[p] EXCEPT !.todo = EnabledApps]
<1>1. job[p] \in Job /\ ControlOK(pc[p], job[p]) /\ pc[p] = "uc_status"
  BY Typed DEF ReadStatus, Goto
<1>2. j \in Job /\ j.op = job[p].op /\ j.app = job[p].app /\ j.to = job[p].to
  BY <1>1 DEF Job, EnabledApps
<1>3. ControlOK("uc_takeover", j)
  BY <1>1, <1>2 DEF ControlOK, Enabling, Disabling, Switching, Updating, Undecided
<1>4. Moves(p, "uc_takeover", j)
  BY <1>2, <1>3, Typed
  DEF ReadStatus, Goto, Moves, Label, Held, Enabling, Disabling, Switching
<1>5. FilesKept /\ SettingsTyped
  BY Typed DEF ReadStatus, files, history, proxy, FilesKept, SettingsTyped
<1>6. pc'[p] = "uc_takeover"  BY <1>4, MoveControl
<1>7. Knows(p)'  BY <1>6 DEF Knows
<1>8. QED  BY <1>4, <1>5, <1>7, QuietStep DEF Deletes

\* A file rewritten without its lock was taken over already, or is exposed now.
LEMMA RewriteNextStep == ASSUME IInv, NEW p \in Procs, RewriteNext(p) PROVE IInv'
<1>1. PICK a \in Apps :
          /\ job' = [job EXCEPT ![p].todo = @ \ {a}]
          /\ \/ /\ live' = [live EXCEPT ![a] = ProxyUrl]
                /\ exposed' = [exposed EXCEPT ![a] = @ \/ ~TakenOver(live[a])]
                /\ UNCHANGED switched
             \/ UNCHANGED <<live, history>>
  BY DEF RewriteNext
<1>2. /\ pc[p] = "uc_takeover" /\ pc' = [pc EXCEPT ![p] = "uc_takeover"] /\ up' = up
      /\ UNCHANGED <<lock, backup, enabled, current, port, server>>
  BY DEF RewriteNext, Goto, proxy
<1> DEFINE j == [job[p] EXCEPT !.todo = @ \ {a}]
<1>3. job[p] \in Job /\ ControlOK(pc[p], job[p])  BY Typed
<1>4. j \in Job /\ j.op = job[p].op /\ j.app = job[p].app /\ j.to = job[p].to
  BY <1>3 DEF Job
<1>5. ControlOK("uc_takeover", j)
  BY <1>2, <1>3, <1>4 DEF ControlOK, Enabling, Disabling, Switching, Updating, Undecided
<1>6. Moves(p, "uc_takeover", j)
  BY <1>1, <1>2, <1>4, <1>5, Typed DEF Moves, Label, Held, Enabling, Disabling, Switching
<1>7. pc'[p] = "uc_takeover"  BY <1>6, MoveControl
<1>8. Knows(p)'  BY <1>7 DEF Knows
<1>9. CASE UNCHANGED <<live, history>>
  <2>1. FilesKept /\ SettingsTyped
    BY <1>2, <1>9, Typed DEF history, FilesKept, SettingsTyped
  <2>2. QED  BY <1>6, <1>8, <2>1, QuietStep DEF Deletes
<1>10. CASE /\ live' = [live EXCEPT ![a] = ProxyUrl]
            /\ exposed' = [exposed EXCEPT ![a] = @ \/ ~TakenOver(live[a])]
            /\ UNCHANGED switched
  <2>1. /\ pc' \in [Procs -> Label] /\ job' \in [Procs -> Job] /\ up' \in BOOLEAN
        /\ \A q \in Procs \ {p} : pc'[q] = pc[q] /\ job'[q] = job[q]
        /\ Control' /\ Locking'
    BY <1>6, MoveControl
  <2>2. /\ live' \in [Apps -> Content] /\ live'[a] \in Ports
        /\ exposed' \in [Apps -> BOOLEAN] /\ exposed'[a] = (exposed[a] \/ live[a] \notin Ports)
        /\ \A b \in Apps \ {a} : live'[b] = live[b] /\ exposed'[b] = exposed[b]
    BY <1>10, Typed DEF Content, TakenOver
  <2>3. TypeOK'  BY <1>2, <1>10, <2>1, <2>2 DEF IInv, TypeOK
  <2>4. Knowledge'
    <3> SUFFICES ASSUME NEW q \in Procs, q # p PROVE Knows(q)'  BY <1>8 DEF Knowledge
    <3>1. Knows(q) /\ pc'[q] = pc[q] /\ job'[q] = job[q]  BY <2>1 DEF IInv, Knowledge
    <3>2. CASE pc[q] \in Held
      <4>1. job[q].app \in Apps  BY <3>2, HolderFacts
      <4>2. exposed[job[q].app] => exposed'[job[q].app]  BY <2>2, <4>1
      <4>3. live[job[q].app] \notin Ports =>
                exposed'[job[q].app] \/ live'[job[q].app] \notin Ports
        BY <2>2, <4>1
      <4>4. live[job[q].app] \in Ports => live'[job[q].app] \in Ports  BY <2>2, <4>1
      <4>5. QED  BY <1>2, <1>10, <3>1, <4>2, <4>3, <4>4 DEF Knows
    <3>3. CASE pc[q] \notin Held
      BY <3>1, <3>3 DEF Knows, Held, Enabling, Disabling, Switching
    <3>4. QED  BY <3>2, <3>3
  <2>5. Files'
    <3> SUFFICES ASSUME NEW b \in Apps PROVE AppOK(live[b], backup[b], switched[b], exposed[b])'
      BY DEF Files
    <3>1. AppOK(live[b], backup[b], switched[b], exposed[b])  BY DEF IInv, Files
    <3>2. CASE b = a  BY <1>2, <1>10, <2>2, <3>1, <3>2 DEF AppOK
    <3>3. CASE b # a  BY <1>2, <1>10, <2>2, <3>1, <3>3 DEF AppOK
    <3>4. QED  BY <3>2, <3>3
  <2>6. Restoring'
    <3> SUFFICES ASSUME NEW b \in Apps, NEW q \in Procs, q \in Deleting(b)', ~exposed'[b]
                 PROVE  lock'[b] = None /\ (job'[q].failed \/ live'[b] \notin Ports)
      BY DEF Restoring, HasRestored
    <3>1. q # p  BY <1>7 DEF Deleting
    <3>2. q \in Deleting(b) /\ job'[q] = job[q]  BY <2>1, <3>1 DEF Deleting
    <3>3. HasRestored(q, b)  BY DEF IInv, Restoring
    <3>4. QED  BY <1>2, <2>2, <3>2, <3>3 DEF HasRestored
  <2>7. QED  BY <2>1, <2>3, <2>4, <2>5, <2>6 DEF IInv
<1>11. QED  BY <1>1, <1>9, <1>10

LEMMA RewriteDoneStep == ASSUME IInv, NEW p \in Procs, RewriteDone(p) PROVE IInv'
<1>1. FilesKept /\ SettingsTyped
  BY Typed DEF RewriteDone, files, history, proxy, FilesKept, SettingsTyped
<1>2. QED  BY <1>1, ReturnLeaves, QuietLeave DEF RewriteDone

LEMMA ServerSteps == ASSUME IInv, NEW p \in Procs, Server(p) PROVE IInv'
  BY ServerStateSteps, SavePortStep, RestartServerStep, ReadStatusStep, RewriteNextStep,
     RewriteDoneStep DEF Server

-----------------------------------------------------------------------------
(* Beginnings, the start-up and a crash                                    *)

LEMMA BeginStep ==
    ASSUME IInv, NEW p \in Callers, NEW op \in Commands, Begin(p, op) PROVE IInv'
<1>1. PICK a \in Subjects(op), x \in Targets(op) :
          job' = [job EXCEPT ![p] = [NoJob EXCEPT !.op = op, !.app = a, !.to = x]]
  BY DEF Begin
<1> DEFINE j == [NoJob EXCEPT !.op = op, !.app = a, !.to = x]
<1>2. p \in Procs /\ op \in Operation  BY CommandsAssumption DEF Procs
<1>3. /\ pc' = [pc EXCEPT ![p] = Entry(op)] /\ up' = up /\ lock' = lock
      /\ UNCHANGED <<files, proxy, history>>
  BY DEF Begin, Goto
<1>4. FilesKept /\ SettingsTyped
  BY <1>3, Typed DEF files, history, proxy, FilesKept, SettingsTyped
<1>6. /\ a \in Apps \cup {None} /\ x \in Providers \cup Ports \cup {None}
      /\ op \in AppOp => a \in Apps
      /\ op \in SwitchOp => x \in Providers
      /\ op = "update_config" => x \in Ports
  BY <1>2 DEF Subjects, Targets, AppOp, SwitchOp, Operation
<1>7. j \in Job /\ j.op = op /\ j.app = a /\ j.to = x
  BY <1>2, <1>6, NoJobTyped DEF Job
<1>8. /\ Entry(op) \in {"lock", "fo_check", "af_read", "stop", "st_start", "ss_check", "uc_save",
                        "exit_check"}
      /\ Entry(op) = "lock" => op \in AppOp
      /\ Entry(op) \in {"fo_check", "af_read"} => op \in SwitchOp
      /\ Entry(op) = "uc_save" => op = "update_config"
      /\ op # "normal"
  BY <1>2 DEF Entry, Operation, AppOp, SwitchOp
<1> DEFINE l == Entry(op)
<1>9. l \in Label /\ l \notin Held /\ l \notin Knowing /\ l \notin Deletes
  BY <1>8 DEF Label, Held, Enabling, Disabling, Switching, Knowing, Deletes
<1>10. ControlOK(l, j)
  <2> HIDE DEF l
  <2> HIDE DEF j
  <2>1. QED
    BY <1>6, <1>7, <1>8 DEF l, ControlOK, Enabling, Disabling, Switching, Updating, Undecided
<1> HIDE DEF l, j
<1>11. Moves(p, l, j)  BY <1>1, <1>3, <1>7, <1>9, <1>10, Typed DEF Moves, l, j
<1>12. pc'[p] = l  BY <1>2, <1>11, MoveControl
<1>13. Knows(p)'  BY <1>9, <1>12 DEF Knows, Knowing
<1>14. QED  BY <1>2, <1>4, <1>9, <1>11, <1>13, QuietStep

\* A lock is granted: from now on no stop restores the application and then
\* deletes its backup, or it is exposed.
LEMMA AcquireStep == ASSUME IInv, NEW p \in Procs, Acquire(p) PROVE IInv'
<1> DEFINE a == job[p].app
<1>1. pc[p] = "lock" /\ ControlOK("lock", job[p])  BY Typed DEF Acquire
<1>2. a \in Apps /\ job[p].op \in AppOp  BY <1>1 DEF ControlOK
<1>3. PICK l : /\ pc' = [pc EXCEPT ![p] = l]
               /\ l = CASE job[p].op = "enable" -> "en_start"
                        [] job[p].op = "disable" -> "dis_check"
                        [] job[p].op = "switch" -> "sw_decide"
                        [] OTHER -> "hs_read"
  BY DEF Acquire, Goto
<1>4. /\ lock[a] = None /\ lock' = [lock EXCEPT ![a] = p] /\ up' = up
      /\ exposed' = [exposed EXCEPT ![a] = @ \/ Deleting(a) # {}]
      /\ UNCHANGED <<job, live, backup, enabled, current, port, server, switched>>
  BY DEF Acquire, Goto, files, proxy
<1>5. l \in {"en_start", "dis_check", "sw_decide", "hs_read"}  BY <1>3
<1>6. l \in Label /\ ControlOK(l, job[p])
  <2>1. l \in Label  BY <1>5 DEF Label
  <2>2. /\ l = "en_start" => job[p].op = "enable"
        /\ l = "dis_check" => job[p].op = "disable"
        /\ l \in {"sw_decide", "hs_read"} => job[p].op \in SwitchOp
    BY <1>2, <1>3 DEF AppOp, SwitchOp
  <2>3. QED
    BY <1>1, <1>5, <2>1, <2>2 DEF ControlOK, Enabling, Disabling, Switching, Updating, Undecided
<1>7. /\ pc' \in [Procs -> Label] /\ pc'[p] = l
      /\ \A q \in Procs \ {p} : pc'[q] = pc[q]
  BY <1>3, <1>6, Typed
<1>8. /\ exposed' \in [Apps -> BOOLEAN] /\ exposed'[a] = (exposed[a] \/ Deleting(a) # {})
      /\ \A b \in Apps \ {a} : exposed'[b] = exposed[b]
  BY <1>2, <1>4, Typed
<1>9. /\ lock' \in [Apps -> Procs \cup {None}] /\ lock'[a] = p
      /\ \A b \in Apps \ {a} : lock'[b] = lock[b]
  BY <1>2, <1>4, Typed
<1> HIDE DEF a
<1>10. TypeOK'  BY <1>4, <1>7, <1>8, <1>9 DEF IInv, TypeOK
<1>11. Control'
  <2> SUFFICES ASSUME NEW q \in Procs PROVE ControlOK(pc[q], job[q])'  BY DEF Control
  <2>1. ControlOK(pc'[q], job[q])  BY <1>6, <1>7, Typed
  <2>2. QED  BY <1>4, <2>1 DEF ControlOK
<1>12. ASSUME NEW q \in Procs \ {p}, pc[q] \in Held PROVE job[q].app \in Apps /\ job[q].app # a
  BY <1>4, <1>12, HolderFacts DEF a
<1>13. Locking'
  <2> SUFFICES ASSUME NEW q \in Procs, pc'[q] \in Held PROVE lock'[job'[q].app] = q
    BY DEF Locking
  <2>1. CASE q = p  BY <1>4, <1>9, <2>1 DEF a
  <2>2. CASE q # p
    <3>1. pc[q] \in Held /\ lock[job[q].app] = q  BY <1>7, <2>2 DEF IInv, Locking
    <3>2. QED  BY <1>4, <1>9, <1>12, <2>2, <3>1
  <2>3. QED  BY <2>1, <2>2
<1>14. Knowledge'
  <2> SUFFICES ASSUME NEW q \in Procs PROVE Knows(q)'  BY DEF Knowledge
  <2>1. CASE q = p  BY <1>5, <1>7, <2>1 DEF Knows
  <2>2. CASE q # p /\ pc[q] \in Held
    <3>1. Knows(q)  BY DEF IInv, Knowledge
    <3>2. QED  BY <1>4, <1>7, <1>8, <1>12, <2>2, <3>1 DEF Knows
  <2>3. CASE q # p /\ pc[q] \notin Held
    BY <1>7, <2>3 DEF Knows, Held, Enabling, Disabling, Switching
  <2>4. QED  BY <2>1, <2>2, <2>3
<1>15. Files'
  <2> SUFFICES ASSUME NEW b \in Apps PROVE AppOK(live[b], backup[b], switched[b], exposed[b])'
    BY DEF Files
  <2>1. AppOK(live[b], backup[b], switched[b], exposed[b])  BY DEF IInv, Files
  <2>2. exposed[b] => exposed'[b]  BY <1>8
  <2>3. QED  BY <1>4, <2>1, <2>2 DEF AppOK
<1>16. Restoring'
  <2> SUFFICES ASSUME NEW b \in Apps, NEW q \in Procs, q \in Deleting(b)', ~exposed'[b]
               PROVE  lock'[b] = None /\ (job'[q].failed \/ live'[b] \notin Ports)
    BY DEF Restoring, HasRestored
  <2>1. q # p  BY <1>5, <1>7 DEF Deleting
  <2>2. q \in Deleting(b)  BY <1>4, <1>7, <2>1 DEF Deleting
  <2>3. b # a  BY <1>8, <2>2
  <2>4. HasRestored(q, b)  BY DEF IInv, Restoring
  <2>5. QED  BY <1>4, <1>8, <1>9, <2>2, <2>3, <2>4 DEF HasRestored
<1>17. QED  BY <1>10, <1>11, <1>13, <1>14, <1>15, <1>16 DEF IInv

LEMMA StartStep == ASSUME IInv, Start PROVE IInv'
<1> DEFINE j == [job[Boot] EXCEPT !.op = "boot"]
<1>1. Boot \in Procs  BY DEF Procs
<1>2. job[Boot] \in Job  BY <1>1, Typed
<1>3. j \in Job /\ j.op = "boot"  BY <1>2 DEF Job
<1>4. ControlOK("boot_check", j)
  BY <1>3 DEF ControlOK, AppOp, SwitchOp, Enabling, Disabling, Switching, Updating, Undecided
<1>5. Moves(Boot, "boot_check", j)
  BY <1>1, <1>3, <1>4, Typed DEF Start, Moves, Label, Held, Enabling, Disabling, Switching
<1>6. FilesKept /\ SettingsTyped
  BY Typed DEF Start, files, history, proxy, FilesKept, SettingsTyped
<1>7. pc'[Boot] = "boot_check"  BY <1>1, <1>5, MoveControl
<1>8. Knows(Boot)'  BY <1>7 DEF Knows
<1>9. QED  BY <1>1, <1>5, <1>6, <1>8, QuietStep DEF Deletes

LEMMA BootCheckStep == ASSUME IInv, BootCheck PROVE IInv'
<1>1. Boot \in Procs  BY DEF Procs
<1>2. FilesKept /\ SettingsTyped
  BY Typed DEF BootCheck, files, history, proxy, FilesKept, SettingsTyped
<1>3. CASE RestoreAll(Boot, "boot_check")  BY <1>1, <1>2, <1>3, RestoreAllStep
<1>4. CASE At(Boot, "boot_check", "boot_list")
  BY <1>1, <1>2, <1>4, LooseControl, QuietAt DEF Deletes
<1>5. QED  BY <1>3, <1>4 DEF BootCheck

LEMMA BootListStep == ASSUME IInv, BootList PROVE IInv'
<1> DEFINE j == [job[Boot] EXCEPT !.todo = EnabledApps, !.failed = FALSE]
<1>1. Boot \in Procs  BY DEF Procs
<1>2. job[Boot] \in Job /\ ControlOK(pc[Boot], job[Boot])  BY <1>1, Typed
<1>3. j \in Job /\ j.op = job[Boot].op /\ j.app = job[Boot].app /\ j.to = job[Boot].to
  BY <1>2 DEF Job, EnabledApps
<1>4. ControlOK("boot_next", j)
  BY <1>2, <1>3 DEF ControlOK, Enabling, Disabling, Switching, Updating, Undecided
<1>5. Moves(Boot, "boot_next", j)
  BY <1>1, <1>3, <1>4, Typed
  DEF BootList, Goto, Moves, Label, Held, Enabling, Disabling, Switching
<1>6. FilesKept /\ SettingsTyped
  BY Typed DEF BootList, files, history, proxy, FilesKept, SettingsTyped
<1>7. Leaves(Boot)  BY <1>3, <1>5 DEF Leaves, Away
<1>8. QED  BY <1>1, <1>6, <1>7, QuietLeave

LEMMA BootNextStep == ASSUME IInv, BootNext PROVE IInv'
<1>1. Boot \in Procs  BY DEF Procs
<1>2. FilesKept /\ SettingsTyped
  BY Typed DEF BootNext, files, history, proxy, FilesKept, SettingsTyped
<1>3. CASE Goto(Boot, "boot_next", "idle") /\ job' = [job EXCEPT ![Boot] = NoJob]
  <2>1. Moves(Boot, "idle", NoJob)
    BY <1>3, NoJobTyped, Typed
    DEF BootNext, Goto, Moves, Label, Held, Enabling, Disabling, Switching
  <2>2. Leaves(Boot)  BY <2>1, NoJobTyped DEF Leaves, Away
  <2>3. QED  BY <1>1, <1>2, <2>2, QuietLeave
<1>4. ASSUME NEW a \in Apps,
             Goto(Boot, "boot_next", "lock"),
             job' = [job EXCEPT ![Boot].op = "enable", ![Boot].app = a, ![Boot].todo = @ \ {a}]
      PROVE  IInv'
  <2> DEFINE j == [job[Boot] EXCEPT !.op = "enable", !.app = a, !.todo = @ \ {a}]
  <2>1. job[Boot] \in Job  BY <1>1, Typed
  <2>2. j \in Job /\ j.op = "enable" /\ j.app = a  BY <2>1 DEF Job, Operation
  <2>3. ControlOK("lock", j)
    BY <2>2 DEF ControlOK, AppOp, SwitchOp, Enabling, Disabling, Switching, Updating, Undecided
  <2>4. Moves(Boot, "lock", j)
    BY <1>1, <1>4, <2>2, <2>3, Typed
    DEF BootNext, Goto, Moves, Label, Held, Enabling, Disabling, Switching
  <2>5. Leaves(Boot)  BY <2>2, <2>4 DEF Leaves, Away
  <2>6. QED  BY <1>1, <1>2, <2>5, QuietLeave
<1>5. QED  BY <1>3, <1>4 DEF BootNext

LEMMA CrashStep == ASSUME IInv, Crash PROVE IInv'
<1>1. /\ up' = FALSE /\ server' = None /\ lock' = [a \in Apps |-> None]
      /\ pc' = [p \in Procs |-> "idle"] /\ job' = [p \in Procs |-> NoJob]
      /\ UNCHANGED <<port, live, backup, enabled, current, switched, exposed>>
  BY DEF Crash, files, history
<1>2. TypeOK'  BY <1>1, NoJobTyped DEF IInv, TypeOK, Label
<1>3. Control'
  <2> SUFFICES ASSUME NEW p \in Procs PROVE ControlOK(pc[p], job[p])'  BY DEF Control
  <2>1. pc'[p] = "idle" /\ job'[p] = NoJob  BY <1>1
  <2>2. QED  BY <2>1, NoJobTyped DEF ControlOK
<1>4. Locking' /\ Knowledge'
  <2>1. \A p \in Procs : pc'[p] = "idle"  BY <1>1
  <2>2. QED  BY <2>1 DEF Locking, Knowledge, Knows, Held, Enabling, Disabling, Switching
<1>5. Files'  BY <1>1 DEF IInv, Files, AppOK
<1>6. Restoring'  BY <1>1 DEF Restoring, HasRestored, Deleting
<1>7. QED  BY <1>2, <1>3, <1>4, <1>5, <1>6 DEF IInv

-----------------------------------------------------------------------------
(* The theorems                                                            *)

LEMMA Initially == Init => IInv
<1> SUFFICES ASSUME Init PROVE IInv  OBVIOUS
<1>1. TypeOK  BY NoJobTyped DEF Init, TypeOK, Label, Content
<1>2. \A p \in Procs : pc[p] = "idle" /\ job[p] = NoJob  BY DEF Init
<1>3. Control  BY <1>2, NoJobTyped DEF Control
<1>4. Locking /\ Knowledge
  BY <1>2 DEF Locking, Knowledge, Knows, Held, Enabling, Disabling, Switching
<1>5. Files  BY ContentAssumption DEF Init, Files, AppOK, Content
<1>6. Restoring  BY <1>2 DEF Restoring, HasRestored, Deleting
<1>7. QED  BY <1>1, <1>3, <1>4, <1>5, <1>6 DEF IInv

LEMMA Inductive == IInv /\ [Next]_vars => IInv'
<1> SUFFICES ASSUME IInv, [Next]_vars PROVE IInv'  OBVIOUS
<1>1. ASSUME NEW p \in Callers, NEW op \in Commands, Begin(p, op) PROVE IInv'
  BY <1>1, BeginStep
<1>2. ASSUME NEW p \in Procs,
             Acquire(p) \/ Enable(p) \/ Disable(p) \/ Switch(p) \/ StopAll(p) \/ Server(p)
      PROVE  IInv'
  BY <1>2, AcquireStep, EnableSteps, DisableSteps, SwitchSteps, StopAllSteps, ServerSteps
<1>3. CASE Start \/ BootCheck \/ BootList \/ BootNext
  BY <1>3, StartStep, BootCheckStep, BootListStep, BootNextStep
<1>4. CASE Crash  BY <1>4, CrashStep
<1>5. CASE UNCHANGED vars
  BY <1>5 DEF vars, files, proxy, procs, history, IInv, TypeOK, Control, Locking, Knowledge,
              Files, Restoring, ControlOK, Knows, AppOK, HasRestored, Deleting
<1>6. QED  BY <1>1, <1>2, <1>3, <1>4, <1>5 DEF Next

LEMMA Invariance == Spec => []IInv
  BY Initially, Inductive, PTL DEF Spec

\* Every variable stays within its type, whoever runs what (services/proxy.rs,
\* its commands, the failover switch, the start-up and the exit).
THEOREM TypeCorrect == Spec => []TypeOK
<1>1. IInv => TypeOK  BY DEF IInv
<1>2. QED  BY <1>1, Invariance, PTL

\* No interleaving ever puts the proxy's own placeholder into the backup
\* (backup_live_config_strict, update_live_backup_from_provider).
THEOREM BackupIsNoTakeover == Spec => []BackupNeverTakenOver
<1>1. IInv => BackupNeverTakenOver  BY DEF IInv, Files, AppOK, BackupNeverTakenOver, TakenOver
<1>2. QED  BY <1>1, Invariance, PTL

\* The user's file survives every command, fault and crash, in place or in the
\* backup, until a switch replaces it; what can lose it is named by exposed.
THEOREM UserConfigSurvives == Spec => []UserConfigKept
<1>1. IInv => UserConfigKept
  <2> SUFFICES ASSUME IInv, NEW a \in Apps, ~switched[a], ~exposed[a]
               PROVE  User \in {live[a], backup[a]}
    BY DEF UserConfigKept
  <2>1. AppOK(live[a], backup[a], switched[a], exposed[a])  BY DEF IInv, Files
  <2>2. QED  BY <2>1 DEF AppOK
<1>2. QED  BY <1>1, Invariance, PTL

\* A file that points at the proxy can be restored, or was exposed.
THEOREM TakeoverCanBeUndone == Spec => []TakeoverHasBackup
<1>1. IInv => TakeoverHasBackup  BY DEF IInv, Files, AppOK, TakeoverHasBackup, TakenOver
<1>2. QED  BY <1>1, Invariance, PTL

-----------------------------------------------------------------------------
(* Only two steps switch an application off.                               *)

EnabledStays == \A a \in Apps : enabled[a] => enabled'[a]

LEMMA EnabledStaysElsewhere ==
    ASSUME IInv, NEW p \in Procs,
           \/ Acquire(p) \/ Enable(p) \/ Switch(p) \/ Server(p)
           \/ CheckEnabled(p) \/ RestoreLive(p) \/ DeleteBackup(p) \/ CountEnabled(p)
           \/ StopIfLast(p) \/ StopFirst(p) \/ ExitCheck(p) \/ RestoreNext(p)
           \/ RestoreDone(p) \/ DeleteAll(p)
    PROVE  EnabledStays
<1>1. CASE Acquire(p)  BY <1>1 DEF Acquire, files, EnabledStays
<1>2. CASE Enable(p)
  <2>1. CASE EnsureServer(p) \/ CheckTaken(p)
    BY <2>1 DEF EnsureServer, CheckTaken, files, EnabledStays
  <2>2. CASE RestoreExisting(p) \/ BackupLive(p) \/ SyncTokens(p) \/ WriteTakeover(p) \/ RollBack(p)
    BY <2>2 DEF RestoreExisting, BackupLive, SyncTokens, WriteTakeover, RollBack, files, EnabledStays
  <2>3. CASE SetEnabled(p)  BY <2>3, Typed DEF SetEnabled, EnabledStays
  <2>4. QED  BY <1>2, <2>1, <2>2, <2>3 DEF Enable
<1>3. CASE Switch(p)
  <2>1. CASE DecideSwitch(p) \/ CheckFailover(p) \/ ReadConfigRow(p) \/ ReadOwner(p)
    BY <2>1 DEF DecideSwitch, CheckFailover, ReadConfigRow, ReadOwner, files, EnabledStays
  <2>2. CASE SetCurrent(p) \/ RewriteBackup(p) \/ SyncLive(p) \/ WriteProvider(p)
    BY <2>2 DEF SetCurrent, RewriteBackup, SyncLive, WriteProvider, EnabledStays
  <2>3. CASE WriteConfigRow(p)  BY <2>3, Typed DEF WriteConfigRow, EnabledStays
  <2>4. QED  BY <1>3, <2>1, <2>2, <2>3 DEF Switch
<1>4. CASE Server(p)
  <2>1. CASE StartServer(p) \/ StopServerCheck(p) \/ StopServer(p) \/ SavePort(p)
    BY <2>1 DEF StartServer, StopServerCheck, StopServer, SavePort, files, EnabledStays
  <2>2. CASE RestartServer(p) \/ ReadStatus(p) \/ RewriteNext(p) \/ RewriteDone(p)
    BY <2>2 DEF RestartServer, ReadStatus, RewriteNext, RewriteDone, files, EnabledStays
  <2>3. QED  BY <1>4, <2>1, <2>2 DEF Server
<1>5. CASE CheckEnabled(p) \/ RestoreLive(p) \/ DeleteBackup(p) \/ CountEnabled(p) \/ StopIfLast(p)
  BY <1>5 DEF CheckEnabled, RestoreLive, DeleteBackup, CountEnabled, StopIfLast, files, EnabledStays
<1>6. CASE StopFirst(p) \/ ExitCheck(p) \/ RestoreNext(p) \/ RestoreDone(p) \/ DeleteAll(p)
  BY <1>6 DEF StopFirst, ExitCheck, RestoreNext, RestoreDone, DeleteAll, files, EnabledStays
<1>7. QED  BY <1>1, <1>2, <1>3, <1>4, <1>5, <1>6

\* Proxying is switched off only for an application whose file has been
\* restored (set_takeover_for_app, stop_with_restore), or that was exposed.
THEOREM DisabledOnlyWhenRestored == Spec => NeverDisabledWhileTakenOver
<1> DEFINE Safely(a) == enabled[a] /\ ~enabled'[a] /\ ~exposed[a] => ~TakenOver(live'[a])
<1>1. IInv /\ [Next]_vars => \A a \in Apps : Safely(a)
  <2> SUFFICES ASSUME IInv, [Next]_vars PROVE \A a \in Apps : Safely(a)  OBVIOUS
  <2>1. EnabledStays => \A a \in Apps : Safely(a)  BY DEF EnabledStays
  <2>2. ASSUME NEW p \in Procs, ClearEnabled(p) PROVE \A a \in Apps : Safely(a)
    <3>1. pc[p] = "dis_clear" /\ pc[p] \in Held
      BY <2>2 DEF ClearEnabled, At, Goto, Held, Disabling
    <3>2. exposed[job[p].app] \/ live[job[p].app] \notin Ports  BY <3>1, HeldApp DEF Knows
    <3>3. live' = live /\ enabled' = [enabled EXCEPT ![job[p].app] = FALSE]
      BY <2>2 DEF ClearEnabled
    <3>4. \A a \in Apps : a = job[p].app \/ enabled'[a] = enabled[a]  BY <3>3, Typed
    <3>5. QED  BY <3>2, <3>3, <3>4 DEF TakenOver
  <2>3. ASSUME NEW p \in Procs, ClearAll(p) PROVE \A a \in Apps : Safely(a)
    <3>1. pc[p] = "clear_all" /\ live' = live  BY <2>3 DEF ClearAll, At, Goto
    <3>2. job[p].todo = {} /\ ~job[p].failed  BY <3>1, Typed DEF ControlOK
    <3>3. \A a \in Apps : p \in Deleting(a)  BY <3>1, <3>2 DEF Deleting
    <3>4. QED  BY <3>1, <3>2, <3>3 DEF IInv, Restoring, HasRestored, TakenOver
  <2>4. CASE \E p \in Callers, op \in Commands : Begin(p, op)
    BY <2>1, <2>4 DEF Begin, files, EnabledStays
  <2>5. ASSUME NEW p \in Procs,
               Acquire(p) \/ Enable(p) \/ Disable(p) \/ Switch(p) \/ StopAll(p) \/ Server(p)
        PROVE  \A a \in Apps : Safely(a)
    <3>1. CASE ClearEnabled(p) \/ ClearAll(p)  BY <2>2, <2>3, <3>1
    <3>2. CASE ~(ClearEnabled(p) \/ ClearAll(p))
      <4>1. EnabledStays  BY <2>5, <3>2, EnabledStaysElsewhere DEF Disable, StopAll
      <4>2. QED  BY <2>1, <4>1
    <3>3. QED  BY <3>1, <3>2
  <2>6. CASE Start \/ BootCheck \/ BootList \/ BootNext \/ Crash \/ UNCHANGED vars
    BY <2>1, <2>6 DEF Start, BootCheck, BootList, BootNext, Crash, vars, files, EnabledStays
  <2>7. QED  BY <2>4, <2>5, <2>6 DEF Next
<1>2. QED  BY <1>1, Invariance, PTL DEF Spec, NeverDisabledWhileTakenOver
-----------------------------------------------------------------------------
(* That every step is one of Custody, or a stutter.                        *)

\* What Place is in a state of the invariant.
Where(a) ==
    IF exposed[a] THEN "released"
    ELSE IF live[a] \in Ports THEN "diverted"
    ELSE IF backup[a] = None THEN "own" ELSE "saved"

LEMMA PlaceIs == ASSUME IInv, NEW a \in Apps PROVE Place(a) = Where(a)
<1>1. AppOK(live[a], backup[a], switched[a], exposed[a])  BY DEF IInv, Files
<1>2. None \notin Ports /\ User \notin Ports /\ User # None  BY ContentAssumption DEF Content
<1>3. QED  BY <1>1, <1>2 DEF AppOK, Place, Where, TakenOver

LEMMA PlaceWillBe == ASSUME IInv', NEW a \in Apps PROVE Place(a)' = Where(a)'
<1>1. AppOK(live[a], backup[a], switched[a], exposed[a])'  BY DEF IInv, Files
<1>2. None \notin Ports /\ User \notin Ports /\ User # None  BY ContentAssumption DEF Content
<1>3. QED  BY <1>1, <1>2 DEF AppOK, Place, Where, TakenOver

\* How a place may change, besides being released.
Transfers == {<<"own", "saved">>, <<"saved", "diverted">>, <<"diverted", "saved">>,
              <<"diverted", "own">>, <<"saved", "own">>}

Places == [a \in Apps |-> Place(a)]
Switches == [a \in Apps |-> UnderSwitch(a)]
CustodyStep == Keeper!Next \/ UNCHANGED <<Places, switched, Switches>>

\* No process begins to switch a provider; no provider stops being switched.
NoneBegins ==
    \A q \in Procs :
        pc'[q] \in Switching => pc[q] \in Switching /\ job'[q].app = job[q].app
NoneEnds ==
    \A q \in Procs :
        pc[q] \in Switching => pc'[q] \in Switching /\ job'[q].app = job[q].app

LEMMA SwitchIs ==
    ASSUME NEW a \in Apps
    PROVE  /\ UnderSwitch(a) <=> \E p \in Procs : pc[p] \in Switching /\ job[p].app = a
           /\ UnderSwitch(a)' <=> \E p \in Procs : pc'[p] \in Switching /\ job'[p].app = a
  BY DEF UnderSwitch, Switching

LEMMA SwitchesKept == ASSUME NoneBegins, NoneEnds PROVE Switches' = Switches
<1>1. ASSUME NEW a \in Apps PROVE UnderSwitch(a)' <=> UnderSwitch(a)
  <2>1. CASE UnderSwitch(a)
    <3>1. PICK p \in Procs : pc[p] \in Switching /\ job[p].app = a  BY <2>1, SwitchIs
    <3>2. pc'[p] \in Switching /\ job'[p].app = a  BY <3>1 DEF NoneEnds
    <3>3. QED  BY <2>1, <3>2, SwitchIs
  <2>2. CASE UnderSwitch(a)'
    <3>1. PICK p \in Procs : pc'[p] \in Switching /\ job'[p].app = a  BY <2>2, SwitchIs
    <3>2. pc[p] \in Switching /\ job[p].app = a  BY <3>1 DEF NoneBegins
    <3>3. QED  BY <2>2, <3>2, SwitchIs
  <2>3. QED  BY <2>1, <2>2
<1>2. \A a \in Apps : UnderSwitch(a)' = UnderSwitch(a)  BY <1>1 DEF UnderSwitch
<1>3. QED  BY <1>2 DEF Switches

\* Only the process that holds the lock switches the provider, if any does.
LEMMA HolderSwitches ==
    ASSUME IInv, NEW p \in Procs, pc[p] \in Held, NEW a \in Apps, a = job[p].app
    PROVE  UnderSwitch(a) <=> pc[p] \in Switching
<1>1. \A q \in Procs : pc[q] \in Switching => pc[q] \in Held  BY DEF Held
<1>2. QED  BY <1>1, HolderFacts, SwitchIs

LEMMA UnlockedIsQuiet ==
    ASSUME IInv, NEW a \in Apps, lock[a] = None PROVE ~UnderSwitch(a)
<1>1. \A q \in Procs : pc[q] \in Switching => lock[job[q].app] = q /\ q # None
  BY ProcsAssumption DEF IInv, Locking, Held
<1>2. QED  BY <1>1, SwitchIs

\* Switches may end in a step that touches no file.
LEMMA EndStep ==
    ASSUME FilesKept, \A a \in Apps : UnderSwitch(a)' => UnderSwitch(a)
    PROVE  CustodyStep
<1>1. Places' = Places /\ switched' = switched  BY DEF FilesKept, Places, Place
<1> DEFINE S == {a \in Apps : UnderSwitch(a) /\ ~UnderSwitch(a)'}
<1>2. \A a \in Apps : UnderSwitch(a)' = (UnderSwitch(a) /\ a \notin S)
  BY DEF UnderSwitch
<1>3. Switches' = [a \in Apps |-> Switches[a] /\ a \notin S]  BY <1>2 DEF Switches
<1>4. CASE S = {}
  <2>1. \A a \in Apps : UnderSwitch(a)' = UnderSwitch(a)  BY <1>2, <1>4 DEF UnderSwitch
  <2>2. QED  BY <1>1, <2>1 DEF CustodyStep, Switches
<1>5. CASE S # {}
  <2>1. S \in SUBSET Apps /\ \A a \in S : Switches[a]  BY DEF Switches
  <2> HIDE DEF S
  <2>2. Keeper!EndSwitches(S)
    BY <1>1, <1>3, <1>5, <2>1 DEF Keeper!EndSwitches, Switches, Places
  <2>3. QED  BY <2>1, <2>2 DEF CustodyStep, Keeper!Next
<1>6. QED  BY <1>4, <1>5

LEMMA KeptStep == ASSUME FilesKept, NoneBegins PROVE CustodyStep
<1>1. ASSUME NEW a \in Apps, UnderSwitch(a)' PROVE UnderSwitch(a)
  <2>1. PICK p \in Procs : pc'[p] \in Switching /\ job'[p].app = a  BY <1>1, SwitchIs
  <2>2. pc[p] \in Switching /\ job[p].app = a  BY <2>1 DEF NoneBegins
  <2>3. QED  BY <2>2, SwitchIs
<1>2. QED  BY <1>1, EndStep

\* A step that concerns no file but a's, and is one that Custody allows.
Proper(a) ==
    /\ \A b \in Apps \ {a} : Where(b)' = Where(b)
    /\ switched' = switched
    /\ \/ Where(a)' \in {Where(a), "released"}
       \/ <<Where(a), Where(a)'>> \in Transfers /\ ~UnderSwitch(a)

LEMMA ProperStep ==
    ASSUME IInv, IInv', NEW a \in Apps, Proper(a), Switches' = Switches PROVE CustodyStep
<1>1. \A b \in Apps : Place(b) = Where(b) /\ Place(b)' = Where(b)'  BY PlaceIs, PlaceWillBe
<1>2. \A b \in Apps \ {a} : Place(b)' = Place(b)  BY <1>1 DEF Proper
<1>3. Places' = [b \in Apps |-> Place(b)']  BY DEF Places
<1>4. switched' = switched  BY DEF Proper
<1>5. CASE Place(a)' = Place(a)
  <2>1. Places' = Places  BY <1>2, <1>3, <1>5 DEF Places
  <2>2. QED  BY <1>4, <2>1 DEF CustodyStep
<1>6. CASE Place(a)' = "released"
  <2>1. Places' = [Places EXCEPT ![a] = "released"]  BY <1>2, <1>3, <1>6 DEF Places
  <2>2. Keeper!Release(a)
    BY <1>4, <2>1 DEF Places, Switches, Keeper!Release, Keeper!Released
  <2>3. QED  BY <2>2 DEF CustodyStep, Keeper!Next
<1>7. CASE <<Place(a), Place(a)'>> \in Transfers /\ ~UnderSwitch(a)
  <2>1. ASSUME NEW from, NEW to, Place(a) = from, Place(a)' = to
        PROVE  Keeper!Move({a}, from, to)
    <3>1. Places' = [b \in Apps |-> IF b \in {a} THEN to ELSE Places[b]]
      BY <1>2, <1>3, <2>1 DEF Places
    <3>2. Places[a] = from /\ ~Switches[a]  BY <1>7, <2>1 DEF Places, Switches
    <3>3. QED  BY <1>4, <3>1, <3>2 DEF Places, Switches, Keeper!Move
  <2>2. \/ Keeper!Save(a) \/ Keeper!Divert(a) \/ Keeper!Restore(a) \/ Keeper!RollBack(a)
        \/ Keeper!Forget({a})
    BY <1>7, <2>1
    DEF Transfers, Keeper!Save, Keeper!Divert, Keeper!Restore, Keeper!RollBack, Keeper!Forget
  <2>3. QED  BY <2>2 DEF CustodyStep, Keeper!Next
<1>8. QED  BY <1>1, <1>5, <1>6, <1>7 DEF Proper

\* A handler that switches no provider writes one file, or one backup.
LEMMA OneWrite ==
    ASSUME IInv, IInv', NEW a \in Apps, NEW content, NEW saved,
           live' = [live EXCEPT ![a] = content],
           backup' = [backup EXCEPT ![a] = saved],
           UNCHANGED <<switched, exposed>>,
           exposed[a] \/ backup[a] # None \/ content \notin Ports,
           ~UnderSwitch(a), Switches' = Switches
    PROVE  CustodyStep
<1>1. AppOK(live[a], backup[a], switched[a], exposed[a])  BY DEF IInv, Files
<1>2. /\ \A b \in Apps \ {a} : live'[b] = live[b] /\ backup'[b] = backup[b]
      /\ live'[a] = content /\ backup'[a] = saved
  BY <1>1, Typed
<1>3. \A b \in Apps \ {a} : Where(b)' = Where(b)  BY <1>2 DEF Where
<1>4. Where(a)' = Where(a) \/ <<Where(a), Where(a)'>> \in Transfers
  <2>1. CASE exposed[a]  BY <2>1 DEF Where
  <2>2. CASE ~exposed[a] /\ backup[a] = None
    <3>1. content \notin Ports /\ live[a] \notin Ports  BY <1>1, <2>2 DEF AppOK
    <3>2. Where(a) = "own" /\ Where(a)' \in {"own", "saved"}  BY <1>2, <2>2, <3>1 DEF Where
    <3>3. QED  BY <3>2 DEF Transfers
  <2>3. CASE ~exposed[a] /\ backup[a] # None
    <3>1. Where(a) \in {"saved", "diverted"} /\ Where(a)' \in {"own", "saved", "diverted"}
      BY <2>3 DEF Where
    <3>2. QED  BY <3>1 DEF Transfers
  <2>4. QED  BY <2>1, <2>2, <2>3
<1>5. Proper(a)  BY <1>3, <1>4 DEF Proper
<1>6. QED  BY <1>5, ProperStep

LEMMA LiveWrite ==
    ASSUME IInv, IInv', NEW a \in Apps, NEW content,
           live' = [live EXCEPT ![a] = content], backup' = backup,
           UNCHANGED <<switched, exposed>>,
           exposed[a] \/ backup[a] # None \/ content \notin Ports,
           ~UnderSwitch(a), Switches' = Switches
    PROVE  CustodyStep
<1>1. backup' = [backup EXCEPT ![a] = backup[a]]  BY Typed
<1> DEFINE saved == backup[a]
<1>2. backup' = [backup EXCEPT ![a] = saved]  BY <1>1
<1> HIDE DEF saved
<1>3. QED  BY <1>2, OneWrite

-----------------------------------------------------------------------------
(* The steps of the handlers.                                              *)

LEMMA GotoElsewhere ==
    ASSUME IInv, NEW p \in Procs, NEW from, NEW to, Goto(p, from, to),
           from \notin Switching, to \notin Switching,
           \A q \in Procs \ {p} : job'[q] = job[q]
    PROVE  NoneBegins /\ NoneEnds
<1>1. pc[p] = from /\ pc'[p] = to /\ \A q \in Procs \ {p} : pc'[q] = pc[q]
  BY Typed DEF Goto
<1>2. QED  BY <1>1 DEF NoneBegins, NoneEnds

\* A handler that switches no provider goes on, or returns.
LEMMA HandlerElsewhere ==
    ASSUME IInv, NEW p \in Procs, NEW from, from \notin Switching,
           \/ \E to : to \notin Switching /\ At(p, from, to)
           \/ Return(p, from) \/ Fail(p, from) \/ Finish(p, from)
    PROVE  NoneBegins /\ NoneEnds
<1>1. CASE \E to : to \notin Switching /\ At(p, from, to)
  BY <1>1, GotoElsewhere DEF At
<1>2. ASSUME Return(p, from) PROVE NoneBegins /\ NoneEnds
  <2>1. \A q \in Procs \ {p} : job'[q] = job[q]  BY <1>2, Typed DEF Return
  <2>2. QED  BY <1>2, <2>1, GotoElsewhere DEF Return, Switching
<1>3. CASE Fail(p, from)
  <2>1. CASE Return(p, from)  BY <1>2, <2>1
  <2>2. CASE Goto(p, from, "lock") /\ job' = [job EXCEPT ![p].op = "disable"]
    <3>1. \A q \in Procs \ {p} : job'[q] = job[q]  BY <2>2, Typed
    <3>2. QED  BY <2>2, <3>1, GotoElsewhere DEF Switching
  <2>3. QED  BY <1>3, <2>1, <2>2 DEF Fail
<1>4. CASE Finish(p, from)
  BY <1>1, <1>2, <1>4 DEF Finish, Switching
<1>5. QED  BY <1>1, <1>2, <1>3, <1>4

\* A switch goes on, with or without the lock.
LEMMA GotoOn ==
    ASSUME IInv, NEW p \in Procs, NEW from \in Switching, NEW to, Goto(p, from, to),
           \A q \in Procs \ {p} : job'[q] = job[q],
           to \in Switching => job'[p].app = job[p].app
    PROVE  NoneBegins
<1>1. pc[p] = from /\ pc'[p] = to /\ \A q \in Procs \ {p} : pc'[q] = pc[q]
  BY Typed DEF Goto
<1>2. QED  BY <1>1 DEF NoneBegins

LEMMA SwitchOn ==
    ASSUME IInv, NEW p \in Procs, NEW from \in Switching,
           (\E to : At(p, from, to)) \/ Return(p, from) \/ Switched(p, from)
    PROVE  NoneBegins
<1>1. ASSUME NEW to, At(p, from, to) PROVE NoneBegins
  BY <1>1, GotoOn DEF At
<1>2. ASSUME Return(p, from) PROVE NoneBegins
  <2>1. \A q \in Procs \ {p} : job'[q] = job[q]  BY <1>2, Typed DEF Return
  <2>2. QED  BY <1>2, <2>1, GotoOn DEF Return, Switching
<1>3. CASE Switched(p, from)
  <2>1. CASE Return(p, from)  BY <1>2, <2>1
  <2>2. CASE Goto(p, from, "af_write") /\ UNCHANGED job
    BY <2>2, GotoOn DEF Switching
  <2>3. QED  BY <1>3, <2>1, <2>2 DEF Switched
<1>4. QED  BY <1>1, <1>2, <1>3

\* A process that leaves the labels of a switch ends it.
LEMMA SwitchEnds ==
    ASSUME IInv, NEW p \in Procs, NEW a \in Apps, a = job[p].app, pc[p] \in Switching,
           pc'[p] \notin Switching,
           \A q \in Procs \ {p} : pc'[q] = pc[q] /\ job'[q] = job[q]
    PROVE  Switches[a] /\ Switches' = [Switches EXCEPT ![a] = FALSE]
<1>1. UnderSwitch(a)  BY SwitchIs
<1>2. pc[p] \in Held /\ \A q \in Procs : pc[q] \in Switching => pc[q] \in Held  BY DEF Held
<1>3. ~UnderSwitch(a)'
  <2>1. \A q \in Procs \ {p} : pc[q] \in Switching => job[q].app # a  BY <1>2, HolderFacts
  <2>2. QED  BY <2>1, SwitchIs
<1>4. ASSUME NEW b \in Apps, b # a PROVE UnderSwitch(b)' <=> UnderSwitch(b)
  <2>1. \A q \in Procs : pc[q] \in Switching /\ job[q].app = b => q # p  BY <1>4
  <2>2. \A q \in Procs : pc'[q] \in Switching => q # p  OBVIOUS
  <2>3. QED  BY <2>1, <2>2, SwitchIs
<1>5. \A b \in Apps : UnderSwitch(b)' = IF b = a THEN FALSE ELSE UnderSwitch(b)
  BY <1>3, <1>4 DEF UnderSwitch
<1>6. QED  BY <1>1, <1>5 DEF Switches

LEMMA LeaverElsewhere ==
    ASSUME IInv, NEW p \in Procs, NEW from \in Switching,
           Return(p, from) \/ Switched(p, from)
    PROVE  /\ pc[p] \in Switching /\ pc'[p] \notin Switching
           /\ \A q \in Procs \ {p} : pc'[q] = pc[q] /\ job'[q] = job[q]
<1>1. CASE Return(p, from)  BY <1>1, Typed DEF Return, Goto, Switching
<1>2. CASE Switched(p, from) /\ ~Return(p, from)
  BY <1>2, Typed DEF Switched, Goto, Switching
<1>3. QED  BY <1>1, <1>2

\* The steps of a handler that write a file, a backup or the history.
Writes(p) ==
    \/ RestoreExisting(p) \/ BackupLive(p) \/ SyncTokens(p) \/ WriteTakeover(p) \/ RollBack(p)
    \/ RestoreLive(p) \/ DeleteBackup(p)
    \/ RewriteBackup(p) \/ SyncLive(p) \/ WriteProvider(p)

\* Where they are taken.
WriteLabel == {"en_restore", "en_backup", "en_sync", "en_takeover", "en_rollback",
               "dis_restore", "dis_delete", "hs_backup", "hs_live", "sw_live"}

LEMMA WriterHolds == ASSUME NEW p \in Procs, Writes(p) PROVE pc[p] \in WriteLabel
  BY DEF Writes, RestoreExisting, BackupLive, SyncTokens, WriteTakeover, RollBack, RestoreLive,
         DeleteBackup, RewriteBackup, SyncLive, WriteProvider, Switched, At, Fail, Return, Goto,
         WriteLabel

\* What such a handler knows of the files it has locked.
LEMMA WriterKnows ==
    ASSUME IInv, NEW p \in Procs, pc[p] \in WriteLabel, NEW a, a = job[p].app
    PROVE  /\ a \in Apps
           /\ live = [live EXCEPT ![a] = live[a]] /\ backup = [backup EXCEPT ![a] = backup[a]]
           /\ live[a] \in Ports => exposed[a] \/ backup[a] # None
           /\ pc[p] \notin {"en_backup", "dis_restore", "dis_delete", "sw_live"}
                 => exposed[a] \/ backup[a] # None
           /\ pc[p] = "dis_delete" => exposed[a] \/ live[a] \notin Ports
           /\ pc[p] = "sw_live" => exposed[a] \/ (backup[a] = None /\ live[a] \notin Ports)
<1>1. pc[p] \in Held  BY DEF WriteLabel, Held, Enabling, Disabling, Switching
<1>2. a \in Apps /\ AppOK(live[a], backup[a], switched[a], exposed[a]) /\ Knows(p)
  BY <1>1, HeldApp
<1>3. live = [live EXCEPT ![a] = live[a]] /\ backup = [backup EXCEPT ![a] = backup[a]]
  BY <1>2, Typed
<1>4. QED  BY <1>2, <1>3 DEF Knows, AppOK, WriteLabel

LEMMA TakingKeeps ==
    ASSUME IInv, IInv', NEW p \in Procs, NEW a \in Apps, a = job[p].app, pc[p] \in WriteLabel,
           RestoreExisting(p) \/ BackupLive(p) \/ SyncTokens(p) \/ WriteTakeover(p) \/ RollBack(p)
    PROVE  CustodyStep
<1>0. /\ pc[p] \in Held /\ pc[p] \notin Switching
      /\ \/ \E to : to \notin Switching /\ At(p, pc[p], to)
         \/ Fail(p, pc[p])
  BY DEF RestoreExisting, BackupLive, SyncTokens, WriteTakeover, RollBack, At, Fail, Return, Goto,
         Switching, Held, Enabling
<1>9. NoneBegins /\ Switches' = Switches /\ ~UnderSwitch(a)
  BY <1>0, HandlerElsewhere, HolderSwitches, SwitchesKept
<1>1. CASE UNCHANGED <<files, history>>  BY <1>1, <1>9, KeptStep DEF files, history, FilesKept
<1>2. CASE RestoreExisting(p) /\ ~UNCHANGED <<files, history>>
  <2>1. pc[p] = "en_restore"  BY <1>2 DEF RestoreExisting, At, Fail, Return, Goto
  <2>2. PICK content : live' = [live EXCEPT ![a] = content]  BY <1>2 DEF RestoreExisting
  <2>3. backup' = backup /\ UNCHANGED <<switched, exposed>>  BY <1>2 DEF RestoreExisting, history
  <2>4. QED  BY <2>1, <2>2, <2>3, <1>9, WriterKnows, LiveWrite
<1>3. CASE BackupLive(p) /\ ~UNCHANGED <<files, history>>
  <2>1. PICK saved : backup' = [backup EXCEPT ![a] = saved]
    BY <1>3 DEF BackupLive, files, history
  <2>2. live' = live /\ UNCHANGED <<switched, exposed>>  BY <1>3 DEF BackupLive, history
  <2>3. QED  BY <2>1, <2>2, <1>9, WriterKnows, OneWrite
<1>4. CASE SyncTokens(p) /\ ~UNCHANGED <<files, history>>
  <2>1. pc[p] = "en_sync"  BY <1>4 DEF SyncTokens, At, Fail, Return, Goto
  <2>2. /\ backup' = [backup EXCEPT ![a] = None]
        /\ exposed' = [exposed EXCEPT ![a] = @ \/ TakenOver(live[a])]
        /\ UNCHANGED <<live, switched>>
    BY <1>4 DEF SyncTokens
  <2>3. /\ \A b \in Apps \ {a} : backup'[b] = backup[b] /\ exposed'[b] = exposed[b]
        /\ backup'[a] = None /\ exposed'[a] = (exposed[a] \/ live[a] \in Ports)
    BY <2>2, Typed DEF TakenOver
  <2>4. \A b \in Apps \ {a} : Where(b)' = Where(b)  BY <2>2, <2>3 DEF Where
  <2>5. exposed[a] \/ backup[a] # None  BY <2>1, WriterKnows
  <2>6. Where(a)' = "released" \/ (Where(a) = "saved" /\ Where(a)' = "own")
    BY <2>2, <2>3, <2>5 DEF Where
  <2>7. Proper(a)  BY <1>9, <2>2, <2>4, <2>6 DEF Proper, Transfers
  <2>8. QED  BY <1>9, <2>7, ProperStep
<1>5. CASE WriteTakeover(p) /\ ~UNCHANGED <<files, history>>
  <2>1. pc[p] = "en_takeover"  BY <1>5 DEF WriteTakeover, At, Goto
  <2>2. PICK content : live' = [live EXCEPT ![a] = content]  BY <1>5 DEF WriteTakeover
  <2>3. backup' = backup /\ UNCHANGED <<switched, exposed>>  BY <1>5 DEF WriteTakeover, history
  <2>4. QED  BY <2>1, <2>2, <2>3, <1>9, WriterKnows, LiveWrite
<1>6. CASE RollBack(p) /\ ~UNCHANGED <<files, history>>
  <2>1. pc[p] = "en_rollback"  BY <1>6 DEF RollBack, Fail, Return, Goto
  <2>2. PICK content : /\ live' = [live EXCEPT ![a] = content]
                       /\ backup' = [backup EXCEPT ![a] = None]
    BY <1>6 DEF RollBack, files, history
  <2>3. UNCHANGED <<switched, exposed>>  BY <1>6 DEF RollBack, history
  <2>4. QED  BY <2>1, <2>2, <2>3, <1>9, WriterKnows, OneWrite
<1>7. QED  BY <1>1, <1>2, <1>3, <1>4, <1>5, <1>6

LEMMA GivingBackKeeps ==
    ASSUME IInv, IInv', NEW p \in Procs, NEW a \in Apps, a = job[p].app, pc[p] \in WriteLabel,
           RestoreLive(p) \/ DeleteBackup(p)
    PROVE  CustodyStep
<1>0. /\ pc[p] \in Held /\ pc[p] \notin Switching
      /\ (\E to : to \notin Switching /\ At(p, pc[p], to)) \/ Return(p, pc[p])
  BY DEF RestoreLive, DeleteBackup, At, Return, Goto, Switching, Held, Disabling
<1>9. NoneBegins /\ Switches' = Switches /\ ~UnderSwitch(a)
  BY <1>0, HandlerElsewhere, HolderSwitches, SwitchesKept
<1>1. CASE UNCHANGED <<files, history>>  BY <1>1, <1>9, KeptStep DEF files, history, FilesKept
<1>2. CASE RestoreLive(p) /\ ~UNCHANGED <<files, history>>
  <2>1. PICK content \in Restored(a) : live' = [live EXCEPT ![a] = content]
    BY <1>2 DEF RestoreLive
  <2>2. exposed[a] \/ content \notin Ports  BY RestoredOK
  <2>3. backup' = backup /\ UNCHANGED <<switched, exposed>>  BY <1>2 DEF RestoreLive, history
  <2>4. QED  BY <2>1, <2>2, <2>3, <1>9, WriterKnows, LiveWrite
<1>3. CASE DeleteBackup(p)
  <2>1. pc[p] = "dis_delete"  BY <1>3 DEF DeleteBackup, At, Goto
  <2>2. backup' = [backup EXCEPT ![a] = None] /\ live' = live /\ UNCHANGED <<switched, exposed>>
    BY <1>3 DEF DeleteBackup, history
  <2>3. QED  BY <2>1, <2>2, <1>9, WriterKnows, OneWrite
<1>4. QED  BY <1>1, <1>2, <1>3

\* What is switched was saved, or was in place.
LEMMA ReplaceStep ==
    ASSUME IInv, IInv', NEW a \in Apps, \A b \in Apps : Where(b)' = Where(b),
           switched' = [switched EXCEPT ![a] = TRUE], Switches[a],
           Switches' \in {Switches, [Switches EXCEPT ![a] = FALSE]}
    PROVE  CustodyStep
<1>1. Places' = Places  BY PlaceIs, PlaceWillBe DEF Places
<1>2. Keeper!Replace(a)  BY <1>1 DEF Keeper!Replace, Places, Switches
<1>3. QED  BY <1>2 DEF CustodyStep, Keeper!Next

\* A hot switch writes the file at its end: as it was, or as a takeover.
LEMMA SyncLiveKeeps ==
    ASSUME IInv, IInv', NEW p \in Procs, NEW a \in Apps, a = job[p].app,
           SyncLive(p), ~UNCHANGED live
    PROVE  CustodyStep
<1> DEFINE content == IF Kind[a] = "claude" \/ job[p].taken THEN ProxyUrl ELSE job[p].to
<1>1. /\ pc[p] = "hs_live" /\ Switched(p, "hs_live")
      /\ live' = [live EXCEPT ![a] = content]
      /\ UNCHANGED <<backup, switched, exposed>>
  BY DEF SyncLive, Switched, Return, Goto, history
<1>2. pc[p] \in Switching /\ pc[p] \in Held  BY <1>1 DEF Switching, Held
<1>3. Knows(p)  BY <1>2, HeldApp
<1>4. /\ switched[a] /\ (exposed[a] \/ backup[a] # None)
      /\ exposed[a] \/ (job[p].taken <=> live[a] \in Ports)
  BY <1>1, <1>3 DEF Knows
<1>5. job[p].to \notin Ports
  <2>1. job[p].to \in Providers  BY <1>1, <1>2, SwitchingControl DEF Switching, Undecided
  <2>2. QED  BY <2>1, ContentAssumption
<1>6. Switches[a] /\ Switches' = [Switches EXCEPT ![a] = FALSE]
  BY <1>1, <1>2, LeaverElsewhere, SwitchEnds
<1>7. live'[a] = content /\ \A b \in Apps \ {a} : live'[b] = live[b]  BY <1>1, Typed
<1>8. \A b \in Apps \ {a} : Where(b)' = Where(b)  BY <1>1, <1>7 DEF Where
<1>9. ProxyUrl \in Ports  BY Typed
<1>10. CASE Where(a)' = Where(a)
  <2>1. Places' = Places  BY <1>8, <1>10, PlaceIs, PlaceWillBe DEF Places
  <2>2. Switches' = [b \in Apps |-> Switches[b] /\ b \notin {a}]  BY <1>6 DEF Switches, UnderSwitch
  <2>3. Keeper!EndSwitches({a})
    BY <1>1, <1>6, <2>1, <2>2 DEF Keeper!EndSwitches, Places, Switches
  <2>4. QED  BY <2>3 DEF CustodyStep, Keeper!Next
<1>11. CASE Where(a)' # Where(a)
  <2>1. ~exposed[a] /\ backup[a] # None  BY <1>1, <1>4, <1>11 DEF Where
  <2>2. /\ Kind[a] = "claude" /\ live[a] \notin Ports /\ live'[a] \in Ports
    BY <1>1, <1>4, <1>5, <1>7, <1>9, <1>11, <2>1 DEF Where
  <2>3. Where(a) = "saved" /\ Where(a)' = "diverted"  BY <1>1, <2>1, <2>2 DEF Where
  <2>4. Places[a] = "saved" /\ Places' = [Places EXCEPT ![a] = "diverted"]
    BY <1>8, <2>3, PlaceIs, PlaceWillBe DEF Places
  <2>5. a \in {b \in Apps : Kind[b] = "claude"}  BY <2>2
  <2>6. Keeper!Follow(a)
    BY <1>1, <1>4, <1>6, <2>4, <2>5 DEF Keeper!Follow, Places, Switches
  <2>7. QED  BY <2>6 DEF CustodyStep, Keeper!Next
<1>12. QED  BY <1>10, <1>11

LEMMA SwitchingKeeps ==
    ASSUME IInv, IInv', NEW p \in Procs, NEW a \in Apps, a = job[p].app, pc[p] \in WriteLabel,
           RewriteBackup(p) \/ SyncLive(p) \/ WriteProvider(p)
    PROVE  CustodyStep
<1>1. /\ pc[p] \in Switching
      /\ (\E to : to \in Switching /\ At(p, pc[p], to)) \/ Return(p, pc[p]) \/ Switched(p, pc[p])
  BY DEF RewriteBackup, SyncLive, WriteProvider, Switched, At, Return, Goto, Switching
<1>2. CASE UNCHANGED <<files, history>>
  BY <1>1, <1>2, SwitchOn, KeptStep DEF files, history, FilesKept
<1>3. job[p].to # None /\ job[p].to \notin Ports
  <2>1. job[p].to \in Providers
    BY <1>1, SwitchingControl DEF RewriteBackup, SyncLive, WriteProvider, Switched, Return, Goto,
       Switching, Undecided
  <2>2. QED  BY <2>1, ContentAssumption DEF Content
<1>4. Switches[a] /\ Switches' \in {Switches, [Switches EXCEPT ![a] = FALSE]}
  <2>1. CASE Return(p, pc[p]) \/ Switched(p, pc[p])
    BY <1>1, <2>1, LeaverElsewhere, SwitchEnds
  <2>2. CASE \E to : to \in Switching /\ At(p, pc[p], to)
    <3>1. pc'[p] \in Switching /\ job' = job /\ \A q \in Procs \ {p} : pc'[q] = pc[q]
      BY <2>2, Typed DEF At, Goto
    <3>2. NoneBegins /\ NoneEnds  BY <1>1, <3>1 DEF NoneBegins, NoneEnds
    <3>3. UnderSwitch(a)  BY <1>1, SwitchIs
    <3>4. QED  BY <3>2, <3>3, SwitchesKept DEF Switches
  <2>3. QED  BY <1>1, <2>1, <2>2
<1>5. CASE RewriteBackup(p)
  <2>1. /\ pc[p] = "hs_backup"
        /\ backup' = [backup EXCEPT ![a] = job[p].to]
        /\ switched' = [switched EXCEPT ![a] = TRUE]
        /\ UNCHANGED <<live, exposed>>
    BY <1>5 DEF RewriteBackup
  <2>2. exposed[a] \/ backup[a] # None  BY <2>1, WriterKnows
  <2>3. backup'[a] = job[p].to /\ \A b \in Apps \ {a} : backup'[b] = backup[b]
    BY <2>1, Typed
  <2>4. \A b \in Apps : Where(b)' = Where(b)  BY <1>3, <2>1, <2>2, <2>3 DEF Where
  <2>5. QED  BY <1>4, <2>1, <2>4, ReplaceStep
<1>6. CASE SyncLive(p) /\ ~UNCHANGED <<files, history>>
  <2>1. ~UNCHANGED live  BY <1>6 DEF SyncLive, files
  <2>2. QED  BY <1>6, <2>1, SyncLiveKeeps
<1>7. CASE WriteProvider(p) /\ ~UNCHANGED <<files, history>>
  <2>1. CASE UNCHANGED <<live, switched>>
    <3>1. FilesKept  BY <1>7, <2>1 DEF WriteProvider, FilesKept
    <3>2. QED  BY <1>1, <3>1, SwitchOn, KeptStep
  <2>2. CASE ~UNCHANGED <<live, switched>>
    <3>1. /\ pc[p] = "sw_live"
          /\ live' = [live EXCEPT ![a] = job[p].to]
          /\ switched' = [switched EXCEPT ![a] = TRUE]
          /\ UNCHANGED <<backup, exposed>>
      BY <1>7, <2>2 DEF WriteProvider, Return, Goto
    <3>2. exposed[a] \/ (backup[a] = None /\ live[a] \notin Ports)  BY <3>1, WriterKnows
    <3>3. live'[a] = job[p].to /\ \A b \in Apps \ {a} : live'[b] = live[b]
      BY <3>1, Typed
    <3>4. \A b \in Apps : Where(b)' = Where(b)  BY <1>3, <3>1, <3>2, <3>3 DEF Where
    <3>5. QED  BY <1>4, <3>1, <3>4, ReplaceStep
  <2>3. QED  BY <2>1, <2>2
<1>8. QED  BY <1>2, <1>5, <1>6, <1>7

\* The steps that need no lock, or need it for one step.
LEMMA AcquireKeeps == ASSUME IInv, IInv', NEW p \in Procs, Acquire(p) PROVE CustodyStep
<1>1. PICK a : a = job[p].app  OBVIOUS
<1>2. /\ exposed' = [exposed EXCEPT ![a] = @ \/ Deleting(a) # {}]
      /\ UNCHANGED <<live, backup, switched>>
  BY <1>1 DEF Acquire, files
<1>3. a \in Apps
  <2>1. pc[p] = "lock"  BY DEF Acquire
  <2>2. QED  BY <1>1, <2>1, Typed DEF ControlOK, AppOp, SwitchOp
<1>4. /\ \A b \in Apps \ {a} : exposed'[b] = exposed[b]
      /\ exposed'[a] = (exposed[a] \/ Deleting(a) # {})
  BY <1>2, <1>3, Typed
<1>5. /\ \A b \in Apps \ {a} : Where(b)' = Where(b)
      /\ Where(a)' \in {Where(a), "released"}
  BY <1>2, <1>4 DEF Where
<1>6. /\ pc[p] = "lock" /\ lock[a] = None /\ job' = job
      /\ \A q \in Procs \ {p} : pc'[q] = pc[q]
  BY <1>1, Typed DEF Acquire, Goto
<1>7. ~UnderSwitch(a)  BY <1>3, <1>6, UnlockedIsQuiet
<1>8. CASE pc'[p] \notin Switching
  <2>1. pc[p] \notin Switching  BY <1>6 DEF Switching
  <2>2. NoneBegins /\ NoneEnds  BY <1>6, <1>8, <2>1 DEF NoneBegins, NoneEnds
  <2>3. QED  BY <1>2, <1>3, <1>5, <2>2, SwitchesKept, ProperStep DEF Proper
<1>9. CASE pc'[p] \in Switching
  <2>1. UnderSwitch(a)'  BY <1>1, <1>3, <1>6, <1>9, SwitchIs
  <2>2. ASSUME NEW b \in Apps, b # a PROVE UnderSwitch(b)' <=> UnderSwitch(b)
    <3>1. pc[p] \notin Switching  BY <1>6 DEF Switching
    <3>2. QED  BY <1>1, <1>6, <2>2, <3>1, SwitchIs
  <2>3. \A b \in Apps : UnderSwitch(b)' = IF b = a THEN TRUE ELSE UnderSwitch(b)
    BY <2>1, <2>2 DEF UnderSwitch
  <2>4. ~Switches[a] /\ Switches' = [Switches EXCEPT ![a] = TRUE]
    BY <1>3, <1>7, <2>3 DEF Switches
  <2>5. Places' \in {Places, [Places EXCEPT ![a] = "released"]}
    BY <1>5, PlaceIs, PlaceWillBe DEF Places
  <2>6. Keeper!BeginSwitch(a)
    BY <1>2, <2>4, <2>5 DEF Keeper!BeginSwitch, Keeper!Released, Places, Switches
  <2>7. QED  BY <1>3, <2>6 DEF CustodyStep, Keeper!Next
<1>10. QED  BY <1>8, <1>9

LEMMA RestoreNextKeeps == ASSUME IInv, IInv', NEW p \in Procs, RestoreNext(p) PROVE CustodyStep
<1>1. UNCHANGED <<backup, switched, exposed>>  BY DEF RestoreNext, history
<1>9. NoneBegins /\ NoneEnds
  <2>1. Goto(p, "restore_all", "restore_all") /\ \A q \in Procs \ {p} : job'[q] = job[q]
    BY Typed DEF RestoreNext
  <2>2. QED  BY <2>1, GotoElsewhere DEF Switching
<1>2. CASE UNCHANGED live  BY <1>1, <1>2, <1>9, KeptStep DEF FilesKept
<1>3. CASE ~UNCHANGED live
  <2>1. PICK a \in Apps :
            /\ lock[a] = None
            /\ \E content \in Restored(a) : live' = [live EXCEPT ![a] = content]
    BY <1>3 DEF RestoreNext
  <2>2. PICK content \in Restored(a) : live' = [live EXCEPT ![a] = content]  BY <2>1
  <2>3. exposed[a] \/ content \notin Ports  BY RestoredOK
  <2>4. ~UnderSwitch(a) /\ Switches' = Switches
    BY <1>9, <2>1, UnlockedIsQuiet, SwitchesKept
  <2>5. QED  BY <1>1, <2>2, <2>3, <2>4, LiveWrite
<1>4. QED  BY <1>2, <1>3

LEMMA RewriteNextKeeps == ASSUME IInv, IInv', NEW p \in Procs, RewriteNext(p) PROVE CustodyStep
<1>1. PICK a \in Apps :
          \/ /\ live' = [live EXCEPT ![a] = ProxyUrl]
             /\ exposed' = [exposed EXCEPT ![a] = @ \/ ~TakenOver(live[a])]
             /\ UNCHANGED switched
          \/ UNCHANGED <<live, history>>
  BY DEF RewriteNext
<1>2. UNCHANGED backup  BY DEF RewriteNext
<1>9. NoneBegins /\ Switches' = Switches
  <2>1. Goto(p, "uc_takeover", "uc_takeover") /\ \A q \in Procs \ {p} : job'[q] = job[q]
    BY Typed DEF RewriteNext
  <2>2. NoneBegins /\ NoneEnds  BY <2>1, GotoElsewhere DEF Switching
  <2>3. QED  BY <2>2, SwitchesKept
<1>3. CASE UNCHANGED <<live, history>>
  BY <1>2, <1>3, <1>9, KeptStep DEF history, FilesKept
<1>4. CASE /\ live' = [live EXCEPT ![a] = ProxyUrl]
           /\ exposed' = [exposed EXCEPT ![a] = @ \/ ~TakenOver(live[a])]
           /\ UNCHANGED switched
  <2>1. /\ \A b \in Apps \ {a} : live'[b] = live[b] /\ exposed'[b] = exposed[b]
        /\ live'[a] \in Ports /\ exposed'[a] = (exposed[a] \/ live[a] \notin Ports)
    BY <1>4, Typed DEF TakenOver
  <2>2. \A b \in Apps \ {a} : Where(b)' = Where(b)  BY <1>2, <2>1 DEF Where
  <2>3. Where(a)' \in {Where(a), "released"}  BY <1>2, <2>1 DEF Where
  <2>4. QED  BY <1>4, <1>9, <2>2, <2>3, ProperStep DEF Proper
<1>5. QED  BY <1>1, <1>3, <1>4

\* All backups go at once: those that were there become the owners' own files.
LEMMA DeleteAllKeeps == ASSUME IInv, IInv', NEW p \in Procs, DeleteAll(p) PROVE CustodyStep
<1>1. /\ backup' = [a \in Apps |-> None] /\ UNCHANGED <<live, switched, exposed>>
      /\ pc[p] = "delete_all"
  BY DEF DeleteAll, Finish, At, Return, Goto, history
<1>9. NoneBegins /\ Switches' = Switches
  <2>1. NoneBegins /\ NoneEnds  BY HandlerElsewhere DEF DeleteAll, Switching
  <2>2. QED  BY <2>1, SwitchesKept
<1>2. ASSUME NEW a \in Apps PROVE exposed[a] \/ (live[a] \notin Ports /\ ~UnderSwitch(a))
  <2>1. job[p].todo = {} /\ ~job[p].failed  BY <1>1, Typed DEF ControlOK
  <2>2. p \in Deleting(a)  BY <1>1, <2>1 DEF Deleting
  <2>3. exposed[a] \/ (lock[a] = None /\ live[a] \notin Ports)
    BY <2>1, <2>2 DEF IInv, Restoring, HasRestored
  <2>4. QED  BY <2>3, UnlockedIsQuiet
<1> DEFINE S == {a \in Apps : Where(a) = "saved"}
<1>3. \A a \in Apps : Where(a)' = IF a \in S THEN "own" ELSE Where(a)
  BY <1>1, <1>2 DEF Where
<1>4. \A a \in Apps : Place(a) = Where(a) /\ Place(a)' = Where(a)'  BY PlaceIs, PlaceWillBe
<1>5. Places' = [a \in Apps |-> IF a \in S THEN "own" ELSE Places[a]]
  BY <1>3, <1>4 DEF Places
<1>6. CASE S = {}
  <2>1. Places' = Places  BY <1>5, <1>6 DEF Places
  <2>2. QED  BY <1>1, <1>9, <2>1 DEF CustodyStep
<1>7. CASE S # {}
  <2>1. S \in SUBSET Apps /\ \A a \in S : Places[a] = "saved" /\ ~Switches[a]
    BY <1>2, <1>4 DEF Places, Switches, Where
  <2> HIDE DEF S
  <2>2. Keeper!Forget(S)
    BY <1>1, <1>5, <1>7, <1>9, <2>1 DEF Places, Switches, Keeper!Forget, Keeper!Move
  <2>3. QED  BY <2>1, <2>2 DEF CustodyStep, Keeper!Next
<1>8. QED  BY <1>6, <1>7

\* The steps that touch no file.
LEMMA QuietKeeps ==
    ASSUME IInv, NEW p \in Procs,
           \/ EnsureServer(p) \/ CheckTaken(p) \/ SetEnabled(p)
           \/ CheckEnabled(p) \/ ClearEnabled(p) \/ CountEnabled(p) \/ StopIfLast(p)
           \/ CheckFailover(p) \/ ReadConfigRow(p) \/ WriteConfigRow(p)
           \/ StopFirst(p) \/ ExitCheck(p) \/ RestoreDone(p) \/ ClearAll(p)
           \/ StartServer(p) \/ StopServerCheck(p) \/ StopServer(p) \/ SavePort(p)
           \/ RestartServer(p) \/ ReadStatus(p) \/ RewriteDone(p)
    PROVE  CustodyStep
<1>1. FilesKept
  BY DEF EnsureServer, CheckTaken, SetEnabled, CheckEnabled, ClearEnabled, CountEnabled, StopIfLast,
         CheckFailover, ReadConfigRow, WriteConfigRow, StopFirst, ExitCheck, RestoreDone, ClearAll,
         StartServer, StopServerCheck, StopServer, SavePort, RestartServer, ReadStatus, RewriteDone,
         files, history, FilesKept
<1>2. CASE \/ EnsureServer(p) \/ CheckTaken(p) \/ SetEnabled(p)
           \/ CheckEnabled(p) \/ ClearEnabled(p) \/ CountEnabled(p) \/ StopIfLast(p)
  <2>1. \E from : from \notin Switching /\ \/ \E to : to \notin Switching /\ At(p, from, to)
                                           \/ Return(p, from) \/ Fail(p, from)
    BY <1>2 DEF EnsureServer, CheckTaken, SetEnabled, CheckEnabled, ClearEnabled, CountEnabled,
                StopIfLast, Switching
  <2>2. QED  BY <1>1, <2>1, HandlerElsewhere, KeptStep
<1>3. CASE CheckFailover(p) \/ ReadConfigRow(p) \/ WriteConfigRow(p)
  <2>1. \E from : from \notin Switching /\ \/ \E to : to \notin Switching /\ At(p, from, to)
                                           \/ Return(p, from)
    BY <1>3 DEF CheckFailover, ReadConfigRow, WriteConfigRow, Switching
  <2>2. QED  BY <1>1, <2>1, HandlerElsewhere, KeptStep
<1>4. CASE ExitCheck(p) \/ RestoreDone(p) \/ ClearAll(p)
  <2>1. \E from : from \notin Switching /\ \/ \E to : to \notin Switching /\ At(p, from, to)
                                           \/ Finish(p, from)
    BY <1>4 DEF ExitCheck, RestoreDone, ClearAll, Switching
  <2>2. QED  BY <1>1, <2>1, HandlerElsewhere, KeptStep
<1>5. CASE \/ StartServer(p) \/ StopServerCheck(p) \/ StopServer(p) \/ SavePort(p)
           \/ RestartServer(p) \/ RewriteDone(p)
  <2>1. \E from : from \notin Switching /\ \/ \E to : to \notin Switching /\ At(p, from, to)
                                           \/ Return(p, from)
    BY <1>5 DEF StartServer, StopServerCheck, StopServer, SavePort, RestartServer, RewriteDone,
                Switching
  <2>2. QED  BY <1>1, <2>1, HandlerElsewhere, KeptStep
<1>6. CASE StopFirst(p) \/ ReadStatus(p)
  <2>1. /\ \E from, to : from \notin Switching /\ to \notin Switching /\ Goto(p, from, to)
        /\ \A q \in Procs \ {p} : job'[q] = job[q]
    BY <1>6, Typed DEF StopFirst, RestoreAll, ReadStatus, Switching
  <2>2. QED  BY <1>1, <2>1, GotoElsewhere, KeptStep
<1>7. QED  BY <1>2, <1>3, <1>4, <1>5, <1>6

\* A switch of provider up to where it writes.
LEMMA DecidingKeeps ==
    ASSUME IInv, NEW p \in Procs, DecideSwitch(p) \/ ReadOwner(p) \/ SetCurrent(p)
    PROVE  CustodyStep
<1>1. FilesKept
  BY DEF DecideSwitch, ReadOwner, SetCurrent, files, history, FilesKept
<1>2. CASE \/ At(p, "sw_decide", "hs_read") \/ Return(p, "hs_read")
           \/ At(p, "hs_current", "sw_live") \/ At(p, "hs_current", "hs_backup")
           \/ Switched(p, "hs_current")
  <2>1. \E from \in Switching :
            (\E to : At(p, from, to)) \/ Return(p, from) \/ Switched(p, from)
    BY <1>2 DEF Switching
  <2>2. QED  BY <1>1, <2>1, SwitchOn, KeptStep
<1>3. CASE /\ \E from \in {"sw_decide", "hs_read"} : Goto(p, from, "hs_current")
           /\ \/ job' = [job EXCEPT ![p].op = "normal"]
              \/ job' = [job EXCEPT ![p].has_backup = backup[job[p].app] # None,
                                    ![p].taken = TakenOver(live[job[p].app])]
  <2>1. job[p] \in Job  BY Typed
  <2>2. job'[p].app = job[p].app /\ \A q \in Procs \ {p} : job'[q] = job[q]
    BY <1>3, <2>1, Typed DEF Job
  <2>3. QED  BY <1>1, <1>3, <2>2, GotoOn, KeptStep DEF Switching
<1>4. QED  BY <1>2, <1>3 DEF DecideSwitch, ReadOwner, SetCurrent

LEMMA CustodySteps == ASSUME IInv, IInv', [Next]_vars PROVE CustodyStep
<1>1. ASSUME NEW p \in Callers, NEW op \in Commands, Begin(p, op) PROVE CustodyStep
  <2>1. p \in Procs /\ Entry(op) \notin Switching
    BY CommandsAssumption DEF Procs, Entry, Switching, Operation
  <2>2. \A q \in Procs \ {p} : job'[q] = job[q]  BY <1>1, Typed DEF Begin
  <2>3. NoneBegins  BY <1>1, <2>1, <2>2, GotoElsewhere DEF Begin, Switching
  <2>4. QED  BY <1>1, <2>3, KeptStep DEF Begin, files, history, FilesKept
<1>2. ASSUME NEW p \in Procs,
             Acquire(p) \/ Enable(p) \/ Disable(p) \/ Switch(p) \/ StopAll(p) \/ Server(p)
      PROVE  CustodyStep
  <2>1. CASE Writes(p)
    <3>1. PICK a : a = job[p].app  OBVIOUS
    <3>2. pc[p] \in WriteLabel /\ a \in Apps  BY <2>1, <3>1, WriterHolds, WriterKnows
    <3>3. QED  BY <2>1, <3>1, <3>2, TakingKeeps, GivingBackKeeps, SwitchingKeeps DEF Writes
  <2>2. CASE Acquire(p) \/ RestoreNext(p) \/ RewriteNext(p) \/ DeleteAll(p)
    BY <2>2, AcquireKeeps, RestoreNextKeeps, RewriteNextKeeps, DeleteAllKeeps
  <2>3. QED
    BY <1>2, <2>1, <2>2, QuietKeeps, DecidingKeeps
    DEF Writes, Enable, Disable, Switch, StopAll, Server
<1>3. CASE Start \/ BootCheck \/ BootList \/ BootNext
  <2>1. FilesKept
    BY <1>3 DEF Start, BootCheck, BootList, BootNext, files, history, FilesKept
  <2>2. /\ pc'[Boot] \notin Switching
        /\ \A q \in Procs \ {Boot} : pc'[q] = pc[q] /\ job'[q] = job[q]
    BY <1>3, Typed DEF Start, BootCheck, BootList, BootNext, RestoreAll, At, Goto, Procs, Switching
  <2>3. NoneBegins  BY <2>2 DEF NoneBegins
  <2>4. QED  BY <2>1, <2>3, KeptStep
<1>4. CASE Crash
  <2>1. NoneBegins  BY <1>4 DEF Crash, NoneBegins, Switching
  <2>2. QED  BY <1>4, <2>1, KeptStep DEF Crash, files, history, FilesKept
<1>5. CASE UNCHANGED vars
  <2>1. NoneBegins  BY <1>5 DEF vars, procs, NoneBegins
  <2>2. QED  BY <1>5, <2>1, KeptStep DEF vars, files, history, FilesKept
<1>6. QED  BY <1>1, <1>2, <1>3, <1>4, <1>5 DEF Next

\* The takeover, with all its commands, faults and crashes, keeps the promise
\* of Custody for every file that was not exposed (services/proxy.rs).
THEOREM CustodyImplemented == Spec => KeepsCustody
<1>1. Init => Keeper!Init
  <2>1. User \notin Ports /\ None \notin Ports /\ User # None
    BY ContentAssumption DEF Content
  <2>2. Init => \A a \in Apps : Place(a) = "own"
    BY <2>1 DEF Init, Place, TakenOver
  <2>3. Init => \A a \in Apps : UnderSwitch(a) = FALSE
    BY DEF Init, UnderSwitch
  <2>4. QED  BY <2>2, <2>3 DEF Init, Keeper!Init
<1>2. IInv /\ IInv' /\ [Next]_vars => [Keeper!Next]_<<Places, switched, Switches>>
  BY CustodySteps DEF CustodyStep
<1>3. QED  BY <1>1, <1>2, Invariance, PTL DEF Spec, KeepsCustody, Keeper!Spec, Places, Switches
=============================================================================
