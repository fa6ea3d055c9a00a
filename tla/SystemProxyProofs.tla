------------------------- MODULE SystemProxyProofs -------------------------
(***************************************************************************)
(* That the settings of a user survive a crash of the application, and     *)
(* that its status tells what is set, for any number of network services,  *)
(* ports, addresses and faults.                                            *)
(***************************************************************************)
EXTENDS SystemProxy, TLAPS

\* What restoring from snap sets back is what the user had.
Holds(snap, fields) == \A f \in fields : Sanitized(snap, f) = user[f]
\* An HTTP setting is the user's or the application's own.
Covered(snap) == \A f \in Http : os[f] \in {user[f], snap.endpoint} \/ Flickers(f)
HttpKept == \A f \in Http : os[f] = user[f] \/ Flickers(f)
Managed(snap) == ManagedBy(snap.endpoint) # {}

\* The shape of a task, whatever has happened.
Fits(task) ==
    /\ task.pc = "idle" => task = Idle
    /\ task.pc \in {"check", "undo", "rollback", "capture", "apply"} => task.snap \in Snapshot
    /\ task.pc \in {"rollback", "capture", "apply"} => task.enable
    /\ task.pc = "check" => task.i <= Len(CheckOrder)
    /\ task.half => task.pc \in {"undo", "rollback", "apply"}
Shape ==
    /\ \A t \in Slot : Fits(tasks[t])
    /\ ~app => AllIdle /\ mem = NoSnapshot

\* A setting that is half written holds an address.
Armed == \A t \in Slot : tasks[t].half => held[WriteOrder[tasks[t].i]] # "none"

\* The address of the setting being put back is the user's.
HeldIsUsers(task) ==
    LET f == WriteOrder[task.i] IN task.half /\ user[f] # "off" => held[f] = user[f]

\* What the HTTP settings and a task of slot t have to do with each other.
HttpTask(t) ==
    LET task == tasks[t] IN
    /\ task.enable => tasks[Other(t)].pc = "idle"
    /\ task.pc = "check" =>
          /\ disk \in {task.snap, NoSnapshot}
          /\ task.enable \/ mem = NoSnapshot
          /\ Undoing(Other(t)) => disk # NoSnapshot
          /\ \A j \in 1..(task.i - 1) :
                os[CheckOrder[j]] # task.snap.endpoint \/ Flickers(CheckOrder[j])
    /\ Undoing(t) =>
          /\ Covered(task.snap) /\ Holds(task.snap, Http)
          /\ disk \in {task.snap, NoSnapshot}
          /\ \A j \in 1..(task.i - 1) :
                WriteOrder[j] \in Http => os[WriteOrder[j]] = user[WriteOrder[j]] \/ Flickers(WriteOrder[j])
          /\ WriteOrder[task.i] \in Http => HeldIsUsers(task)
    /\ task.pc = "capture" =>
          /\ disk = NoSnapshot
          /\ \A j \in 1..(task.i - 1) : task.snap.set[ReadOrder[j]] = os[ReadOrder[j]]
    /\ task.pc = "apply" =>
          /\ disk = task.snap /\ mem = task.snap
          /\ task.half /\ WriteOrder[task.i] \in Http =>
                held[WriteOrder[task.i]] = task.snap.endpoint
HttpSafe ==
    /\ disk = NoSnapshot => HttpKept
    /\ disk # NoSnapshot => Covered(disk) /\ (Managed(disk) => Holds(disk, Http))
    /\ mem # NoSnapshot => Covered(mem) /\ Holds(mem, Http) /\ disk \in {mem, NoSnapshot}
    /\ \A t \in Slot : HttpTask(t)
HttpInv == lossCause \subseteq {"cut"} => HttpSafe

\* The same of all the settings.
FullTask(t) ==
    LET task == tasks[t] IN
    /\ Undoing(t) =>
          /\ Holds(task.snap, Field)
          /\ disk \in {task.snap, NoSnapshot}
          /\ \A j \in 1..(task.i - 1) : os[WriteOrder[j]] = user[WriteOrder[j]] \/ Flickers(WriteOrder[j])
          /\ HeldIsUsers(task)
    /\ task.pc = "apply" => IF task.i = 1 /\ ~task.half THEN os = user
                            ELSE os[WriteOrder[1]] = task.snap.endpoint
FullSafe ==
    /\ (\A t \in Slot : ~Undoing(t)) /\ (disk = NoSnapshot \/ ~Managed(disk)) => os = user
    /\ disk # NoSnapshot /\ Managed(disk) => Holds(disk, Field)
    /\ mem # NoSnapshot => Holds(mem, Field) /\ disk \in {mem, NoSnapshot}
    /\ \A t \in Slot : FullTask(t)
FullInv == lossCause = {} => FullSafe

\* The inductive invariant.
IInv == TypeOK /\ Shape /\ Armed /\ HttpInv /\ FullInv
-----------------------------------------------------------------------------
(* The orders in which the settings are visited.                           *)

LEMMA ServicesFacts ==
    /\ Len(Services) \in Nat /\ Len(Services) >= 1
    /\ \A s \in 1..Len(Services) : Services[s] \in ToSet(Services)
    /\ \A v \in ToSet(Services) : \E s \in 1..Len(Services) : Services[s] = v
  BY ServicesAssumption DEF ToSet

LEMMA CheckOrderFacts ==
    /\ CheckOrder \in [1..(Len(Services) * 2) -> Http]
    /\ Len(CheckOrder) = Len(Services) * 2
    /\ \A f \in Http : \E j \in 1..(Len(Services) * 2) : CheckOrder[j] = f
<1> DEFINE kinds == <<"web", "secure">>
           N == Len(Services)
           at(n) == <<Services[((n - 1) \div 2) + 1], kinds[((n - 1) % 2) + 1]>>
<1>1. CheckOrder = [n \in 1..(N * 2) |-> at(n)]  BY DEF CheckOrder, InOrder
<1>2. N \in Nat /\ N >= 1  BY ServicesFacts
<1>3. ASSUME NEW n \in 1..(N * 2) PROVE at(n) \in Http
  <2>1. ((n - 1) \div 2) + 1 \in 1..N  BY <1>2
  <2>2. ((n - 1) % 2) + 1 \in 1..2  BY <1>2
  <2>3. QED  BY <2>1, <2>2, ServicesFacts DEF Field, Http, Kind
<1>4. ASSUME NEW s \in 1..N, NEW k \in 1..2
      PROVE  \E n \in 1..(N * 2) : at(n) = <<Services[s], kinds[k]>>
  <2> DEFINE n == (s - 1) * 2 + k
  <2>1. n \in 1..(N * 2) /\ ((n - 1) \div 2) + 1 = s /\ ((n - 1) % 2) + 1 = k  BY <1>2
  <2>2. QED  BY <2>1
<1>5. \A f \in Http : \E s \in 1..N, k \in 1..2 : f = <<Services[s], kinds[k]>>
  BY ServicesFacts DEF Field, Http, Kind
<1> HIDE DEF at, kinds
<1>7. CheckOrder \in [1..(N * 2) -> Http]  BY <1>1, <1>3
<1>8. Len(CheckOrder) = N * 2  BY <1>1, <1>2
<1>9. \A f \in Http : \E j \in 1..(N * 2) : CheckOrder[j] = f
  <2> SUFFICES ASSUME NEW f \in Http PROVE \E j \in 1..(N * 2) : CheckOrder[j] = f  OBVIOUS
  <2>1. PICK s \in 1..N, k \in 1..2 : f = <<Services[s], kinds[k]>>  BY <1>5
  <2>2. PICK j \in 1..(N * 2) : at(j) = <<Services[s], kinds[k]>>  BY <1>4
  <2>3. CheckOrder[j] = at(j)  BY <1>1
  <2>4. QED  BY <2>1, <2>2, <2>3
<1>10. QED  BY <1>7, <1>8, <1>9

LEMMA ReadOrderFacts ==
    /\ ReadOrder \in [1..(Len(Services) * 3) -> Field]
    /\ Len(ReadOrder) = Len(Services) * 3
    /\ \A f \in Field : \E j \in 1..(Len(Services) * 3) : ReadOrder[j] = f
<1> DEFINE kinds == <<"secure", "socks", "web">>
           N == Len(Services)
           at(n) == <<Services[((n - 1) \div 3) + 1], kinds[((n - 1) % 3) + 1]>>
<1>1. ReadOrder = [n \in 1..(N * 3) |-> at(n)]  BY DEF ReadOrder, InOrder
<1>2. N \in Nat /\ N >= 1  BY ServicesFacts
<1>3. ASSUME NEW n \in 1..(N * 3) PROVE at(n) \in Field
  <2>1. ((n - 1) \div 3) + 1 \in 1..N  BY <1>2
  <2>2. ((n - 1) % 3) + 1 \in 1..3  BY <1>2
  <2>3. QED  BY <2>1, <2>2, ServicesFacts DEF Field, Http, Kind
<1>4. ASSUME NEW s \in 1..N, NEW k \in 1..3
      PROVE  \E n \in 1..(N * 3) : at(n) = <<Services[s], kinds[k]>>
  <2> DEFINE n == (s - 1) * 3 + k
  <2>1. n \in 1..(N * 3) /\ ((n - 1) \div 3) + 1 = s /\ ((n - 1) % 3) + 1 = k  BY <1>2
  <2>2. QED  BY <2>1
<1>5. \A f \in Field : \E s \in 1..N, k \in 1..3 : f = <<Services[s], kinds[k]>>
  BY ServicesFacts DEF Field, Http, Kind
<1> HIDE DEF at, kinds
<1>7. ReadOrder \in [1..(N * 3) -> Field]  BY <1>1, <1>3
<1>8. Len(ReadOrder) = N * 3  BY <1>1, <1>2
<1>9. \A f \in Field : \E j \in 1..(N * 3) : ReadOrder[j] = f
  <2> SUFFICES ASSUME NEW f \in Field PROVE \E j \in 1..(N * 3) : ReadOrder[j] = f  OBVIOUS
  <2>1. PICK s \in 1..N, k \in 1..3 : f = <<Services[s], kinds[k]>>  BY <1>5
  <2>2. PICK j \in 1..(N * 3) : at(j) = <<Services[s], kinds[k]>>  BY <1>4
  <2>3. ReadOrder[j] = at(j)  BY <1>1
  <2>4. QED  BY <2>1, <2>2, <2>3
<1>10. QED  BY <1>7, <1>8, <1>9

LEMMA WriteOrderFacts ==
    /\ WriteOrder \in [1..(Len(Services) * 3) -> Field]
    /\ Len(WriteOrder) = Len(Services) * 3
    /\ \A f \in Field : \E j \in 1..(Len(Services) * 3) : WriteOrder[j] = f
    /\ WriteOrder[1] \in Http
<1> DEFINE kinds == <<"web", "secure", "socks">>
           N == Len(Services)
           at(n) == <<Services[((n - 1) \div 3) + 1], kinds[((n - 1) % 3) + 1]>>
<1>1. WriteOrder = [n \in 1..(N * 3) |-> at(n)]  BY DEF WriteOrder, InOrder
<1>2. N \in Nat /\ N >= 1  BY ServicesFacts
<1>3. ASSUME NEW n \in 1..(N * 3) PROVE at(n) \in Field
  <2>1. ((n - 1) \div 3) + 1 \in 1..N  BY <1>2
  <2>2. ((n - 1) % 3) + 1 \in 1..3  BY <1>2
  <2>3. QED  BY <2>1, <2>2, ServicesFacts DEF Field, Http, Kind
<1>4. ASSUME NEW s \in 1..N, NEW k \in 1..3
      PROVE  \E n \in 1..(N * 3) : at(n) = <<Services[s], kinds[k]>>
  <2> DEFINE n == (s - 1) * 3 + k
  <2>1. n \in 1..(N * 3) /\ ((n - 1) \div 3) + 1 = s /\ ((n - 1) % 3) + 1 = k  BY <1>2
  <2>2. QED  BY <2>1
<1>5. \A f \in Field : \E s \in 1..N, k \in 1..3 : f = <<Services[s], kinds[k]>>
  BY ServicesFacts DEF Field, Http, Kind
<1>6. at(1) \in Http
  <2>1. ((1 - 1) \div 3) + 1 = 1 /\ ((1 - 1) % 3) + 1 = 1  OBVIOUS
  <2>2. QED  BY <1>2, <2>1, ServicesFacts DEF Http
<1> HIDE DEF at, kinds
<1>7. WriteOrder \in [1..(N * 3) -> Field]  BY <1>1, <1>3
<1>8. Len(WriteOrder) = N * 3  BY <1>1, <1>2
<1>9. \A f \in Field : \E j \in 1..(N * 3) : WriteOrder[j] = f
  <2> SUFFICES ASSUME NEW f \in Field PROVE \E j \in 1..(N * 3) : WriteOrder[j] = f  OBVIOUS
  <2>1. PICK s \in 1..N, k \in 1..3 : f = <<Services[s], kinds[k]>>  BY <1>5
  <2>2. PICK j \in 1..(N * 3) : at(j) = <<Services[s], kinds[k]>>  BY <1>4
  <2>3. WriteOrder[j] = at(j)  BY <1>1
  <2>4. QED  BY <2>1, <2>2, <2>3
<1>10. WriteOrder[1] \in Http  BY <1>1, <1>2, <1>6
<1>11. QED  BY <1>7, <1>8, <1>9, <1>10

LEMMA KindOfFields == Http \subseteq Field  BY DEF Http, Field, Kind

LEMMA NoSnapshotIsNone == NoSnapshot \notin Snapshot
<1> SUFFICES ASSUME NoSnapshot \in Snapshot PROVE FALSE  OBVIOUS
<1>1. DOMAIN NoSnapshot = {"endpoint"}  BY DEF NoSnapshot
<1>2. DOMAIN NoSnapshot = {"endpoint", "set", "held"}  BY DEF Snapshot
<1>3. QED  BY <1>1, <1>2

\* What the rest of the proof uses of the orders.
LEMMA Orders ==
    /\ Len(CheckOrder) \in Nat /\ Len(WriteOrder) \in Nat
    /\ 1 <= Len(CheckOrder) /\ Len(CheckOrder) <= Len(WriteOrder) /\ 2 <= Len(WriteOrder)
    /\ Len(ReadOrder) = Len(WriteOrder)
    /\ \A i \in 1..Len(CheckOrder) : CheckOrder[i] \in Http
    /\ \A i \in 1..Len(WriteOrder) : WriteOrder[i] \in Field /\ ReadOrder[i] \in Field
    /\ WriteOrder[1] \in Http
    /\ \A f \in Http : \E i \in 1..Len(CheckOrder) : CheckOrder[i] = f
    /\ \A f \in Field : \E i \in 1..Len(WriteOrder) : WriteOrder[i] = f
    /\ \A f \in Field : \E i \in 1..Len(WriteOrder) : ReadOrder[i] = f
<1>1. Len(CheckOrder) = Len(Services) * 2 /\ Len(WriteOrder) = Len(Services) * 3
      /\ Len(ReadOrder) = Len(Services) * 3
  BY CheckOrderFacts, ReadOrderFacts, WriteOrderFacts
<1>2. /\ Len(CheckOrder) \in Nat /\ Len(WriteOrder) \in Nat
      /\ 1 <= Len(CheckOrder) /\ Len(CheckOrder) <= Len(WriteOrder) /\ 2 <= Len(WriteOrder)
      /\ Len(ReadOrder) = Len(WriteOrder)
  BY <1>1, ServicesFacts
<1>3. /\ \A i \in 1..Len(CheckOrder) : CheckOrder[i] \in Http
      /\ \A f \in Http : \E i \in 1..Len(CheckOrder) : CheckOrder[i] = f
  BY <1>1, CheckOrderFacts
<1>4. /\ \A i \in 1..Len(WriteOrder) : WriteOrder[i] \in Field
      /\ WriteOrder[1] \in Http
      /\ \A f \in Field : \E i \in 1..Len(WriteOrder) : WriteOrder[i] = f
  BY <1>1, WriteOrderFacts
<1>5. /\ \A i \in 1..Len(WriteOrder) : ReadOrder[i] \in Field
      /\ \A f \in Field : \E i \in 1..Len(WriteOrder) : ReadOrder[i] = f
  BY <1>1, ReadOrderFacts
<1>6. QED  BY <1>2, <1>3, <1>4, <1>5

LEMMA Lengths ==
    /\ Len(CheckOrder) \in Nat /\ Len(WriteOrder) \in Nat
    /\ 1 <= Len(CheckOrder) /\ Len(CheckOrder) <= Len(WriteOrder) /\ 2 <= Len(WriteOrder)
    /\ Len(ReadOrder) = Len(WriteOrder)
  BY Orders

-----------------------------------------------------------------------------
(* Types.                                                                  *)

LEMMA Slots == \A t \in Slot : Other(t) \in Slot /\ Other(t) # t /\ Slot = {t, Other(t)}
  BY DEF Slot, Other

LEMMA IdleTask == Idle \in Task
  BY Orders DEF Idle, Task, Then

LEMMA NextTask ==
    ASSUME tasks \in [Slot -> Task], NEW t \in Slot, NEW x \in Task,
           tasks' = [tasks EXCEPT ![t] = x]
    PROVE  tasks' \in [Slot -> Task] /\ tasks'[t] = x /\ tasks'[Other(t)] = tasks[Other(t)]
  BY Slots

LEMMA ManagedValue ==
    ASSUME NEW snap \in Snapshot, NEW f \in Field
    PROVE  Sanitized(snap, f) \in Value
  BY DEF Sanitized, Snapshot, Setting, Value, Choice

LEMMA CapturingTask ==
    ASSUME TypeOK, NEW task \in Task
    PROVE  /\ Capturing(task) \in Task /\ Capturing(task).pc = "capture"
           /\ Capturing(task).snap \in Snapshot /\ Capturing(task).i = 1
           /\ Capturing(task).snap.endpoint = endpoint
           /\ Capturing(task).enable = task.enable /\ ~Capturing(task).half
<1> DEFINE empty == [endpoint |-> endpoint, set |-> [f \in Field |-> "off"],
                     held |-> [f \in Field |-> "none"]]
<1>1. empty \in Snapshot /\ empty.endpoint = endpoint
  BY DEF TypeOK, Snapshot, Setting, Value, Choice, Address
<1>2. 1 \in 1..Len(WriteOrder)  BY Orders
<1>3. Capturing(task) = [task EXCEPT !.pc = "capture", !.i = 1, !.half = FALSE, !.snap = empty]
  BY DEF Capturing
<1> HIDE DEF empty
<1>4. QED  BY <1>1, <1>2, <1>3 DEF Task

-----------------------------------------------------------------------------
(* What the parts of the operations do to the slot they run in.            *)

LEMMA ShapeKept ==
    ASSUME TypeOK, Shape, NEW t \in Slot, NEW x \in Task, Fits(x),
           tasks' = [tasks EXCEPT ![t] = x], app'
    PROVE  /\ tasks' \in [Slot -> Task] /\ Shape'
           /\ tasks'[t] = x /\ tasks'[Other(t)] = tasks[Other(t)]
<1>1. /\ tasks' \in [Slot -> Task]
      /\ tasks'[t] = x /\ tasks'[Other(t)] = tasks[Other(t)]
  BY NextTask DEF TypeOK
<1>2. ASSUME NEW s \in Slot PROVE Fits(tasks'[s])
  <2>1. s = t \/ s = Other(t)  BY Slots
  <2>2. Fits(tasks[Other(t)])  BY Slots DEF Shape
  <2>3. QED  BY <1>1, <2>1, <2>2
<1>3. Shape'
  <2>1. \A s \in Slot : Fits(tasks[s])'  BY <1>2 DEF Fits, Idle
  <2>2. QED  BY <2>1 DEF Shape
<1>4. QED  BY <1>1, <1>3

LEMMA Busy ==
    ASSUME Shape, NEW t \in Slot, tasks[t].pc # "idle"
    PROVE  app
  BY DEF Shape, AllIdle

\* What becomes of a task that ends.
Done(x) == x = Idle \/ (x.pc = "resume" /\ ~x.enable)

LEMMA FinishEffect ==
    ASSUME TypeOK, NEW t \in Slot, NEW outcome \in {"inactive", "restored", "error", "active"},
           Finish(t, outcome)
    PROVE  /\ seen' \in {"inactive", "active", "restored", "error"}
           /\ \E x \in Task : tasks' = [tasks EXCEPT ![t] = x] /\ Fits(x) /\ Done(x)
<1> DEFINE y == [tasks[t] EXCEPT !.pc = "resume", !.snap = NoSnapshot, !.i = 1, !.half = FALSE]
           x == IF tasks[t].enable \/ tasks[t].then = "nothing" THEN Idle ELSE y
<1>1. tasks[t] \in Task /\ 1 \in 1..Len(WriteOrder)  BY Orders DEF TypeOK
<1>2. y \in Task /\ y.pc = "resume" /\ y.enable = tasks[t].enable /\ ~y.half  BY <1>1 DEF Task
<1>3. tasks' = [tasks EXCEPT ![t] = x]  BY DEF Finish
<1>4. Fits(Idle)  BY DEF Fits, Idle
<1>5. Fits(y)  BY <1>2 DEF Fits
<1>6. x = Idle \/ (x = y /\ ~y.enable)  BY <1>1, <1>2 DEF Task
<1>7. seen' \in {"inactive", "active", "restored", "error"}  BY DEF Finish, TypeOK
<1> HIDE DEF x, y
<1>8. QED  BY <1>2, <1>3, <1>4, <1>5, <1>6, <1>7, IdleTask DEF Done

LEMMA RaceEffect ==
    ASSUME TypeOK, NEW t \in Slot, NEW task, lossCause' = lossCause \cup RaceCause(t, task)
    PROVE  /\ lossCause' \subseteq {"cut", "half", "blind", "raced"}
           /\ lossCause \subseteq lossCause'
           /\ "raced" \notin lossCause' =>
                  \/ tasks[Other(t)].pc = "idle"
                  \/ ~Enabling(task) /\ ~Enabling(tasks[Other(t)])
  BY DEF TypeOK, RaceCause

LEMMA BeginRestoreEffect ==
    ASSUME TypeOK, Shape, NEW t \in Slot, NEW then \in Then, BeginRestore(t, then)
    PROVE  \E x \in Task :
             /\ tasks' = [tasks EXCEPT ![t] = x]
             /\ Fits(x) /\ ~x.enable /\ x.then = then /\ x.i = 1 /\ ~x.half
             /\ \/ x.pc = "resume"
                \/ x.pc = "undo" /\ mem # NoSnapshot /\ x.snap = mem
                \/ x.pc = "check" /\ disk # NoSnapshot /\ x.snap = disk
             /\ IF x.pc = "resume" THEN disk = NoSnapshot /\ seen' = "inactive" ELSE seen' = seen
<1> DEFINE snap == KnownSnapshot
           Base(pc) == [pc |-> pc, enable |-> FALSE, i |-> 1, half |-> FALSE, snap |-> snap,
                        then |-> then]
<1>1. snap \in Snapshot \cup {NoSnapshot}  BY DEF TypeOK, KnownSnapshot
<1>2. 1 \in 1..Len(WriteOrder) /\ 1 <= Len(CheckOrder)  BY Orders
<1>3. ASSUME NEW pc \in {"resume", "undo", "check"} PROVE Base(pc) \in Task
  BY <1>1, <1>2, <1>3 DEF Task
<1>4. CASE snap = NoSnapshot
  <2>1. tasks' = [tasks EXCEPT ![t] = Base("resume")] /\ seen' = "inactive"
    BY <1>4 DEF BeginRestore
  <2>2. Fits(Base("resume")) /\ disk = NoSnapshot  BY <1>4 DEF Fits, KnownSnapshot
  <2>3. QED  BY <1>3, <2>1, <2>2
<1>5. CASE snap # NoSnapshot /\ mem # NoSnapshot
  <2>1. tasks' = [tasks EXCEPT ![t] = Base("undo")] /\ seen' = seen
    BY <1>5 DEF BeginRestore
  <2>2. Fits(Base("undo")) /\ Base("undo").snap = mem  BY <1>1, <1>5 DEF Fits, KnownSnapshot
  <2>3. QED  BY <1>3, <1>5, <2>1, <2>2 DEF TypeOK
<1>6. CASE snap # NoSnapshot /\ mem = NoSnapshot
  <2>1. tasks' = [tasks EXCEPT ![t] = Base("check")] /\ seen' = seen
    BY <1>6 DEF BeginRestore
  <2>2. Fits(Base("check")) /\ Base("check").snap = disk /\ disk # NoSnapshot
    BY <1>1, <1>2, <1>6 DEF Fits, KnownSnapshot
  <2>3. QED  BY <1>3, <1>6, <2>1, <2>2 DEF TypeOK
<1>7. QED  BY <1>4, <1>5, <1>6

LEMMA CapturingFits ==
    ASSUME TypeOK, NEW task \in Task, task.enable
    PROVE  Fits(Capturing(task))
  BY CapturingTask DEF Fits

LEMMA BeginEnableEffect ==
    ASSUME TypeOK, Shape, NEW t \in Slot, BeginEnable(t)
    PROVE  \E x \in Task :
             /\ tasks' = [tasks EXCEPT ![t] = x]
             /\ Fits(x) /\ x.enable /\ x.i = 1 /\ ~x.half
             /\ \/ x.pc = "capture" /\ disk = NoSnapshot /\ x.snap.endpoint = endpoint
                \/ x.pc = "check" /\ disk # NoSnapshot /\ x.snap = disk
<1> DEFINE task == [pc |-> "check", enable |-> TRUE, i |-> 1, half |-> FALSE, snap |-> disk,
                    then |-> "nothing"]
<1>1. 1 \in 1..Len(WriteOrder) /\ 1 <= Len(CheckOrder)  BY Orders
<1>2. task \in Task /\ task.enable /\ task.pc = "check" /\ task.i = 1 /\ task.snap = disk
      /\ ~task.half
  BY <1>1 DEF TypeOK, Task, Then
<1>3. tasks' = [tasks EXCEPT ![t] = IF disk = NoSnapshot THEN Capturing(task) ELSE task]
  BY DEF BeginEnable
<1>4. CASE disk = NoSnapshot
  BY <1>2, <1>3, <1>4, CapturingTask, CapturingFits
<1>5. CASE disk # NoSnapshot
  <2>1. Fits(task)  BY <1>1, <1>5 DEF Fits, TypeOK
  <2> HIDE DEF task
  <2>2. QED  BY <1>2, <1>3, <1>5, <2>1
<1>6. QED  BY <1>4, <1>5

LEMMA EnableFailsEffect ==
    ASSUME TypeOK, Shape, NEW t \in Slot, EnableFails(t), tasks[t].enable
    PROVE  /\ mem' = NoSnapshot
           /\ seen' \in {"inactive", "active", "restored", "error"}
           /\ \E x \in Task :
                /\ tasks' = [tasks EXCEPT ![t] = x]
                /\ Fits(x)
                /\ \/ x = Idle
                   \/ /\ x.pc = "rollback" /\ mem # NoSnapshot /\ x.snap = mem /\ x.i = 1
                      /\ x.enable /\ ~x.half
<1>1. CASE mem = NoSnapshot
  <2>1. tasks' = [tasks EXCEPT ![t] = Idle] /\ seen' = "error" /\ mem' = NoSnapshot
    BY <1>1 DEF EnableFails, Finish
  <2>2. Fits(Idle)  BY DEF Fits, Idle
  <2>3. QED  BY <2>1, <2>2, IdleTask
<1>2. CASE mem # NoSnapshot
  <2> DEFINE x == [tasks[t] EXCEPT !.pc = "rollback", !.i = 1, !.half = FALSE, !.snap = mem]
  <2>1. tasks' = [tasks EXCEPT ![t] = x] /\ seen' = seen /\ mem' = NoSnapshot
    BY <1>2 DEF EnableFails
  <2>2. tasks[t] \in Task  BY DEF TypeOK
  <2>3. 1 \in 1..Len(WriteOrder)  BY Orders
  <2>4. mem \in Snapshot  BY <1>2 DEF TypeOK
  <2>5. x \in Task /\ x.pc = "rollback" /\ x.snap = mem /\ x.i = 1 /\ x.enable /\ ~x.half
    BY <2>2, <2>3, <2>4 DEF Task
  <2> HIDE DEF x
  <2>6. Fits(x)  BY <2>4, <2>5 DEF Fits
  <2>7. QED  BY <1>2, <2>1, <2>5, <2>6 DEF TypeOK
<1>3. QED  BY <1>1, <1>2

-----------------------------------------------------------------------------
(* What a step of a task does, and that it keeps types and shape.          *)

\* The task goes on as it was, with setting i; and with the second command of
\* the setting it is at.
Same(x, task, i) ==
    x.pc = task.pc /\ x.enable = task.enable /\ x.snap = task.snap /\ x.i = i /\ ~x.half
Halfway(x, task) ==
    x.pc = task.pc /\ x.enable = task.enable /\ x.snap = task.snap /\ x.i = task.i /\ x.half
\* The task goes on with the capture of the settings.
Recaptures(x, task) == x.pc = "capture" /\ x.i = 1 /\ ~x.half /\ x.enable /\ task.enable
\* The task puts back what the snapshot in memory holds.
RollsBack(x) ==
    x.pc = "rollback" /\ mem # NoSnapshot /\ x.snap = mem /\ x.i = 1 /\ x.enable /\ ~x.half
\* What the other parts of the state keep of their types.
CountsOK ==
    /\ seen \in {"inactive", "active", "restored", "error"}
    /\ lossCause \subseteq {"cut", "half", "blind", "raced"}
    /\ faults \in 0..MaxFaults

LEMMA FaultCounts ==
    ASSUME TypeOK, Fault
    PROVE  faults' \in 0..MaxFaults
  BY MaxFaultsAssumption DEF TypeOK, Fault

LEMMA NextCommand ==
    ASSUME TypeOK, NEW t \in Slot, tasks[t].i < Len(WriteOrder)
    PROVE  LET x == [tasks[t] EXCEPT !.i = @ + 1, !.half = FALSE]
           IN  x \in Task /\ Same(x, tasks[t], tasks[t].i + 1)
<1>1. tasks[t] \in Task  BY DEF TypeOK
<1>2. tasks[t].i \in 1..Len(WriteOrder)  BY <1>1 DEF Task
<1>3. tasks[t].i + 1 \in 1..Len(WriteOrder)  BY <1>2, Lengths
<1>4. QED  BY <1>1, <1>3 DEF Task, Same

\* The second command of the setting is next, or the setting after it.
LEMMA HalfwayTask ==
    ASSUME TypeOK, Shape, NEW t \in Slot, tasks[t].pc \in {"undo", "rollback", "apply"},
           tasks' = [tasks EXCEPT ![t].half = TRUE]
    PROVE  \E x \in Task : tasks' = [tasks EXCEPT ![t] = x] /\ Fits(x) /\ Halfway(x, tasks[t])
<1> DEFINE x == [tasks[t] EXCEPT !.half = TRUE]
<1>1. tasks[t] \in Task /\ Fits(tasks[t])  BY DEF TypeOK, Shape
<1>2. x \in Task /\ Halfway(x, tasks[t]) /\ x.pc = tasks[t].pc  BY <1>1 DEF Task, Halfway
<1>3. tasks' = [tasks EXCEPT ![t] = x]  OBVIOUS
<1> HIDE DEF x
<1>4. Fits(x)  BY <1>1, <1>2 DEF Fits, Halfway
<1>5. QED  BY <1>2, <1>3, <1>4

LEMMA NextSettingTask ==
    ASSUME TypeOK, Shape, NEW t \in Slot, tasks[t].pc \in {"undo", "rollback", "apply"},
           MoreLeft(t, WriteOrder), NextSetting(t)
    PROVE  \E x \in Task : /\ tasks' = [tasks EXCEPT ![t] = x] /\ Fits(x)
                           /\ Same(x, tasks[t], tasks[t].i + 1)
<1> DEFINE x == [tasks[t] EXCEPT !.i = @ + 1, !.half = FALSE]
<1>1. Fits(tasks[t])  BY DEF Shape
<1>2. x \in Task /\ Same(x, tasks[t], tasks[t].i + 1)  BY NextCommand DEF MoreLeft
<1>3. tasks' = [tasks EXCEPT ![t] = x]  BY DEF NextSetting
<1> HIDE DEF x
<1>4. Fits(x)  BY <1>1, <1>2 DEF Fits, Same
<1>5. QED  BY <1>2, <1>3, <1>4

LEMMA NothingManaged ==
    ASSUME TypeOK, Shape, NEW t \in Slot, tasks[t].pc = "check",
           IF tasks[t].enable
           THEN tasks' = [tasks EXCEPT ![t] = Capturing(tasks[t])] /\ UNCHANGED seen
           ELSE Finish(t, "inactive")
    PROVE  /\ seen' \in {"inactive", "active", "restored", "error"}
           /\ \E x \in Task : /\ tasks' = [tasks EXCEPT ![t] = x] /\ Fits(x)
                              /\ Done(x) \/ Recaptures(x, tasks[t])
<1>1. tasks[t] \in Task  BY DEF TypeOK
<1>2. CASE tasks[t].enable
  <2>1. Capturing(tasks[t]) \in Task /\ Fits(Capturing(tasks[t]))
        /\ Recaptures(Capturing(tasks[t]), tasks[t])
    BY <1>1, <1>2, CapturingTask, CapturingFits DEF Recaptures
  <2>2. seen' = seen  BY <1>2
  <2>3. QED  BY <1>2, <2>1, <2>2 DEF TypeOK
<1>3. CASE ~tasks[t].enable
  BY <1>3, FinishEffect
<1>4. QED  BY <1>2, <1>3

LEMMA CheckEffect ==
    ASSUME TypeOK, Shape, NEW t \in Slot, Check(t)
    PROVE  LET task == tasks[t]
               f == CheckOrder[task.i] IN
           /\ app' /\ CountsOK' /\ lossCause \subseteq lossCause'
           /\ task.i \in 1..Len(CheckOrder)
           /\ \E x \in Task :
                /\ tasks' = [tasks EXCEPT ![t] = x] /\ Fits(x)
                /\ \/ /\ os[f] = task.snap.endpoint
                      /\ x.pc = "undo" /\ x.i = 1 /\ x.snap = task.snap /\ x.enable = task.enable
                      /\ ~x.half /\ disk' = disk
                   \/ /\ os[f] # task.snap.endpoint \/ "blind" \in lossCause'
                      /\ Same(x, task, task.i + 1) /\ disk' = disk
                   \/ /\ os[f] # task.snap.endpoint \/ "blind" \in lossCause'
                      /\ task.i = Len(CheckOrder) /\ disk' = NoSnapshot
                      /\ Done(x) \/ Recaptures(x, task)
<1> DEFINE task == tasks[t]
           f == CheckOrder[task.i]
<1>1. task \in Task /\ task.pc = "check" /\ app' = app  BY DEF TypeOK, Check
<1>2. task.i \in 1..Len(CheckOrder) /\ task.snap \in Snapshot /\ ~task.half /\ app
  <2>1. task.i \in 1..Len(WriteOrder)  BY <1>1 DEF Task
  <2>2. task.i <= Len(CheckOrder) /\ task.snap \in Snapshot /\ ~task.half
    BY <1>1 DEF Shape, Fits
  <2>3. app  BY <1>1, Busy
  <2> HIDE DEF task
  <2>4. task.i \in 1..Len(CheckOrder)  BY <2>1, <2>2, Lengths
  <2>5. QED  BY <2>2, <2>3, <2>4
<1>3. CASE os[f] = task.snap.endpoint
           /\ tasks' = [tasks EXCEPT ![t].pc = "undo", ![t].i = 1]
           /\ UNCHANGED <<disk, seen, lossCause, faults>>
  <2> DEFINE x == [task EXCEPT !.pc = "undo", !.i = 1]
  <2>1. 1 \in 1..Len(WriteOrder)  BY Orders
  <2>2. x \in Task /\ x.pc = "undo" /\ x.i = 1 /\ x.snap = task.snap /\ x.enable = task.enable
        /\ ~x.half
    BY <1>1, <1>2, <2>1 DEF Task
  <2>3. tasks' = [tasks EXCEPT ![t] = x]  BY <1>3
  <2>4. CountsOK'  BY <1>3 DEF CountsOK, TypeOK
  <2> HIDE DEF x
  <2>5. Fits(x)  BY <1>2, <2>2 DEF Fits
  <2>6. QED  BY <1>1, <1>2, <1>3, <2>2, <2>3, <2>4, <2>5
<1>4. ASSUME os[f] # task.snap.endpoint \/ "blind" \in lossCause',
             lossCause \subseteq lossCause', lossCause' \subseteq {"cut", "half", "blind", "raced"},
             faults' \in 0..MaxFaults,
             tasks' = [tasks EXCEPT ![t].i = @ + 1], UNCHANGED <<disk, seen>>,
             MoreLeft(t, CheckOrder)
      PROVE  CountsOK' /\ \E x \in Task : /\ tasks' = [tasks EXCEPT ![t] = x] /\ Fits(x)
                                          /\ Same(x, task, task.i + 1)
  <2> DEFINE x == [task EXCEPT !.i = @ + 1]
  <2>1. task.i < Len(CheckOrder) /\ task.i < Len(WriteOrder)  BY <1>2, <1>4, Orders DEF MoreLeft
  <2>2. x \in Task /\ Same(x, task, task.i + 1)
    <3>1. task.i + 1 \in 1..Len(WriteOrder)  BY <1>2, <2>1, Lengths
    <3>2. QED  BY <1>1, <1>2, <3>1 DEF Task, Same
  <2>3. tasks' = [tasks EXCEPT ![t] = x]  BY <1>4
  <2>4. CountsOK'  BY <1>4 DEF CountsOK, TypeOK
  <2> HIDE DEF x
  <2>5. task.i + 1 <= Len(CheckOrder)  BY <1>2, <2>1, Lengths
  <2>6. Fits(x)  BY <1>1, <1>2, <2>2, <2>5 DEF Fits, Same
  <2>7. QED  BY <2>2, <2>3, <2>4, <2>6
<1>5. ASSUME lossCause' \subseteq {"cut", "half", "blind", "raced"}, faults' \in 0..MaxFaults,
             IF task.enable
             THEN tasks' = [tasks EXCEPT ![t] = Capturing(task)] /\ UNCHANGED seen
             ELSE Finish(t, "inactive")
      PROVE  CountsOK' /\ \E x \in Task : /\ tasks' = [tasks EXCEPT ![t] = x] /\ Fits(x)
                                          /\ Done(x) \/ Recaptures(x, task)
  BY <1>1, <1>5, NothingManaged DEF CountsOK
<1>6. ~MoreLeft(t, CheckOrder) => task.i = Len(CheckOrder)  BY <1>2, Lengths DEF MoreLeft
<1>7. CASE ~(os[f] = task.snap.endpoint /\ tasks' = [tasks EXCEPT ![t].pc = "undo", ![t].i = 1]
             /\ UNCHANGED <<disk, seen, lossCause, faults>>)
  <2>1. /\ os[f] # task.snap.endpoint \/ "blind" \in lossCause'
        /\ lossCause \subseteq lossCause' /\ lossCause' \subseteq {"cut", "half", "blind", "raced"}
        /\ faults' \in 0..MaxFaults
    BY <1>7, FaultCounts DEF Check, TypeOK
  <2>2. CASE MoreLeft(t, CheckOrder)
    <3>1. tasks' = [tasks EXCEPT ![t].i = @ + 1] /\ UNCHANGED <<disk, seen>>
      BY <1>7, <2>2 DEF Check
    <3>2. QED  BY <1>1, <1>2, <1>4, <2>1, <2>2, <3>1
  <2>3. CASE ~MoreLeft(t, CheckOrder)
    <3>1. /\ disk' = NoSnapshot
          /\ IF task.enable
             THEN tasks' = [tasks EXCEPT ![t] = Capturing(task)] /\ UNCHANGED seen
             ELSE Finish(t, "inactive")
      BY <1>7, <2>3 DEF Check
    <3>2. QED  BY <1>1, <1>2, <1>5, <1>6, <2>1, <2>3, <3>1
  <2>4. QED  BY <2>2, <2>3
<1>8. QED  BY <1>3, <1>7

LEMMA AllWrittenEffect ==
    ASSUME TypeOK, Shape, NEW t \in Slot, Undoing(t),
           CASE tasks[t].pc = "rollback" -> Finish(t, "error")
             [] tasks[t].enable /\ tasks[t].pc = "undo" ->
                    tasks' = [tasks EXCEPT ![t] = Capturing(tasks[t])] /\ UNCHANGED seen
             [] OTHER -> Finish(t, "restored")
    PROVE  /\ seen' \in {"inactive", "active", "restored", "error"}
           /\ \E x \in Task : /\ tasks' = [tasks EXCEPT ![t] = x] /\ Fits(x)
                              /\ Done(x) \/ Recaptures(x, tasks[t])
<1>1. tasks[t] \in Task  BY DEF TypeOK
<1>2. CASE tasks[t].enable /\ tasks[t].pc = "undo"
  <2>1. Capturing(tasks[t]) \in Task /\ Fits(Capturing(tasks[t]))
        /\ Recaptures(Capturing(tasks[t]), tasks[t])
    BY <1>1, <1>2, CapturingTask, CapturingFits DEF Recaptures
  <2>2. tasks' = [tasks EXCEPT ![t] = Capturing(tasks[t])] /\ seen' = seen  BY <1>2
  <2>3. QED  BY <2>1, <2>2 DEF TypeOK
<1>3. CASE ~(tasks[t].enable /\ tasks[t].pc = "undo")
  <2>1. Finish(t, "error") \/ Finish(t, "restored")  BY <1>3
  <2>2. QED  BY <2>1, FinishEffect
<1>4. QED  BY <1>2, <1>3

LEMMA CutEffect ==
    ASSUME TypeOK, NEW slots, lossCause' = lossCause \cup CutCause(slots)
    PROVE  lossCause \subseteq lossCause' /\ lossCause' \subseteq {"cut", "half", "blind", "raced"}
  BY DEF TypeOK, CutCause

\* What a command writes: the address of setting f, or its state.
Addressed(task, f, address) ==
    ~task.half /\ address # "none"
    /\ os' = [os EXCEPT ![f] = address] /\ held' = [held EXCEPT ![f] = address]
Switched(task, f, address, on) ==
    (task.half \/ address = "none")
    /\ os' = [os EXCEPT ![f] = IF on THEN held[f] ELSE "off"] /\ held' = held

LEMMA UndoEffect ==
    ASSUME TypeOK, Shape, NEW t \in Slot, Undo(t)
    PROVE  LET task == tasks[t]
               f == WriteOrder[task.i] IN
           /\ app' /\ CountsOK'
           /\ task.i \in 1..Len(WriteOrder) /\ task.snap \in Snapshot
           /\ \E x \in Task :
                /\ tasks' = [tasks EXCEPT ![t] = x] /\ Fits(x)
                /\ \/ /\ Addressed(task, f, task.snap.held[f]) /\ Halfway(x, task)
                      /\ UNCHANGED <<mem, disk, lossCause>>
                   \/ /\ Switched(task, f, task.snap.held[f], Sanitized(task.snap, f) # "off")
                      /\ UNCHANGED <<mem, lossCause>>
                      /\ \/ Same(x, task, task.i + 1) /\ disk' = disk
                         \/ /\ task.i = Len(WriteOrder) /\ disk' = NoSnapshot
                            /\ Done(x) \/ Recaptures(x, task)
                   \/ /\ UNCHANGED <<os, held, disk>>
                      /\ lossCause' = lossCause \cup CutCause({t})
                      /\ \/ Done(x) /\ mem' \in {mem, NoSnapshot}
                         \/ RollsBack(x) /\ mem' = NoSnapshot /\ task.enable
<1> DEFINE task == tasks[t]
           f == WriteOrder[task.i]
<1>1. task \in Task /\ task.pc \in {"undo", "rollback"} /\ app' = app
  BY DEF TypeOK, Undo, Undoing
<1>2. task.i \in 1..Len(WriteOrder)  BY <1>1 DEF Task
<1>3. task.snap \in Snapshot /\ app  BY <1>1, Busy DEF Shape, Fits
<1>8. CASE /\ WriteAddress(t, f, task.snap.held[f])
           /\ UNCHANGED <<disk, seen, mem, lossCause, faults>>
  <2>1. PICK x \in Task : tasks' = [tasks EXCEPT ![t] = x] /\ Fits(x) /\ Halfway(x, task)
    BY <1>1, <1>8, HalfwayTask DEF WriteAddress
  <2>2. Addressed(task, f, task.snap.held[f])  BY <1>8 DEF WriteAddress, Addressed
  <2>3. CountsOK'  BY <1>8 DEF CountsOK, TypeOK
  <2>4. QED  BY <1>1, <1>2, <1>3, <1>8, <2>1, <2>2, <2>3
<1>4. CASE /\ WriteState(t, f, task.snap.held[f], Sanitized(task.snap, f) # "off")
           /\ UNCHANGED <<mem, lossCause, faults>>
           /\ MoreLeft(t, WriteOrder)
           /\ NextSetting(t)
           /\ UNCHANGED <<disk, seen>>
  <2>1. PICK x \in Task : tasks' = [tasks EXCEPT ![t] = x] /\ Fits(x) /\ Same(x, task, task.i + 1)
    BY <1>1, <1>4, NextSettingTask
  <2>2. Switched(task, f, task.snap.held[f], Sanitized(task.snap, f) # "off")
    BY <1>4 DEF WriteState, Switched
  <2>3. CountsOK'  BY <1>4 DEF CountsOK, TypeOK
  <2>4. QED  BY <1>1, <1>2, <1>3, <1>4, <2>1, <2>2, <2>3
<1>5. CASE /\ WriteState(t, f, task.snap.held[f], Sanitized(task.snap, f) # "off")
           /\ UNCHANGED <<mem, lossCause, faults>>
           /\ ~MoreLeft(t, WriteOrder)
           /\ disk' = NoSnapshot
           /\ CASE task.pc = "rollback" -> Finish(t, "error")
                [] task.enable /\ task.pc = "undo" ->
                       tasks' = [tasks EXCEPT ![t] = Capturing(task)] /\ UNCHANGED seen
                [] OTHER -> Finish(t, "restored")
  <2>1. /\ seen' \in {"inactive", "active", "restored", "error"}
        /\ \E x \in Task : /\ tasks' = [tasks EXCEPT ![t] = x] /\ Fits(x)
                           /\ Done(x) \/ Recaptures(x, task)
    BY <1>5, AllWrittenEffect DEF Undo
  <2>2. CountsOK'  BY <1>5, <2>1 DEF CountsOK, TypeOK
  <2>3. task.i = Len(WriteOrder)  BY <1>2, <1>5, Lengths DEF MoreLeft
  <2>4. Switched(task, f, task.snap.held[f], Sanitized(task.snap, f) # "off")
    BY <1>5 DEF WriteState, Switched
  <2>5. QED  BY <1>1, <1>2, <1>3, <1>5, <2>1, <2>2, <2>3, <2>4
<1>6. CASE /\ Fault
           /\ lossCause' = lossCause \cup CutCause({t})
           /\ IF task.enable /\ task.pc = "undo"
              THEN EnableFails(t)
              ELSE Finish(t, "error") /\ UNCHANGED mem
           /\ UNCHANGED <<os, held, disk>>
  <2>1. faults' \in 0..MaxFaults  BY <1>6, FaultCounts
  <2>2. lossCause \subseteq lossCause' /\ lossCause' \subseteq {"cut", "half", "blind", "raced"}
    BY <1>6, CutEffect
  <2>3. CASE task.enable /\ task.pc = "undo"
    <3>1. /\ mem' = NoSnapshot /\ seen' \in {"inactive", "active", "restored", "error"}
          /\ \E x \in Task : tasks' = [tasks EXCEPT ![t] = x] /\ Fits(x) /\ (Done(x) \/ RollsBack(x))
      BY <1>6, <2>3, EnableFailsEffect DEF Done, RollsBack
    <3>2. QED  BY <1>1, <1>2, <1>3, <1>6, <2>1, <2>2, <2>3, <3>1 DEF CountsOK
  <2>4. CASE ~(task.enable /\ task.pc = "undo")
    <3>1. mem' = mem /\ Finish(t, "error")  BY <1>6, <2>4
    <3>2. /\ seen' \in {"inactive", "active", "restored", "error"}
          /\ \E x \in Task : tasks' = [tasks EXCEPT ![t] = x] /\ Fits(x) /\ Done(x)
      BY <3>1, FinishEffect
    <3>3. QED  BY <1>1, <1>2, <1>3, <1>6, <2>1, <2>2, <3>1, <3>2 DEF CountsOK
  <2>5. QED  BY <2>3, <2>4
<1>7. QED  BY <1>4, <1>5, <1>6, <1>8 DEF Undo

LEMMA CaptureEffect ==
    ASSUME TypeOK, Shape, NEW t \in Slot, Capture(t)
    PROVE  LET task == tasks[t]
               f == ReadOrder[task.i]
               snap == [task.snap EXCEPT !.set[f] = os[f], !.held[f] = held[f]] IN
           /\ app' /\ CountsOK' /\ task.enable
           /\ task.i \in 1..Len(WriteOrder) /\ snap \in Snapshot /\ task.snap \in Snapshot
           /\ \E x \in Task :
                /\ tasks' = [tasks EXCEPT ![t] = x] /\ Fits(x)
                /\ \/ /\ x.pc = "capture" /\ x.enable /\ x.i = task.i + 1 /\ x.snap = snap
                      /\ UNCHANGED <<disk, mem>>
                   \/ /\ task.i = Len(WriteOrder)
                      /\ x.pc = "apply" /\ x.enable /\ x.i = 1 /\ ~x.half /\ x.snap = snap
                      /\ disk' = snap /\ mem' = snap
                   \/ /\ Done(x) \/ RollsBack(x)
                      /\ disk' = disk /\ mem' = NoSnapshot
<1> DEFINE task == tasks[t]
           f == ReadOrder[task.i]
           snap == [task.snap EXCEPT !.set[f] = os[f], !.held[f] = held[f]]
<1>1. task \in Task /\ task.pc = "capture" /\ app' = app /\ lossCause' = lossCause
  BY DEF TypeOK, Capture
<1>2. task.i \in 1..Len(WriteOrder)  BY <1>1 DEF Task
<1>3. task.snap \in Snapshot /\ task.enable /\ ~task.half /\ app  BY <1>1, Busy DEF Shape, Fits
<1>4. snap \in Snapshot
  <2>1. /\ f \in Field /\ os[f] \in Value /\ held[f] \in Address
        /\ os[f] = "off" \/ os[f] = held[f]
    BY <1>2, Orders DEF TypeOK, Setting
  <2>2. snap \in [endpoint : Endpoints, set : Setting, held : [Field -> Address]]
    BY <1>3, <2>1 DEF Snapshot, Setting
  <2>3. ASSUME NEW g \in Field PROVE snap.set[g] = "off" \/ snap.set[g] = snap.held[g]
    BY <1>3, <2>1 DEF Snapshot, Setting
  <2> HIDE DEF snap
  <2>4. QED  BY <2>2, <2>3 DEF Snapshot
<1>5. CASE /\ MoreLeft(t, ReadOrder)
           /\ tasks' = [tasks EXCEPT ![t].i = @ + 1, ![t].snap = snap]
           /\ UNCHANGED <<disk, mem, seen, faults>>
  <2> DEFINE x == [task EXCEPT !.i = @ + 1, !.snap = snap]
  <2>1. task.i + 1 \in 1..Len(WriteOrder)  BY <1>2, <1>5, Lengths DEF MoreLeft
  <2>2. tasks' = [tasks EXCEPT ![t] = x]  BY <1>5
  <2>3. CountsOK'  BY <1>1, <1>5 DEF CountsOK, TypeOK
  <2> HIDE DEF snap
  <2>4. x \in Task /\ x.pc = "capture" /\ x.enable /\ x.i = task.i + 1 /\ x.snap = snap /\ ~x.half
    BY <1>1, <1>3, <1>4, <2>1 DEF Task
  <2> HIDE DEF x, task
  <2>5. Fits(x)  BY <1>4, <2>4 DEF Fits
  <2>6. QED  BY <1>1, <1>2, <1>3, <1>4, <1>5, <2>2, <2>3, <2>4, <2>5 DEF task, snap
<1>6. CASE /\ ~MoreLeft(t, ReadOrder)
           /\ mem' = snap
           /\ disk' = snap
           /\ tasks' = [tasks EXCEPT ![t].pc = "apply", ![t].i = 1, ![t].snap = snap]
           /\ UNCHANGED <<seen, faults>>
  <2> DEFINE x == [task EXCEPT !.pc = "apply", !.i = 1, !.snap = snap]
  <2>1. task.i = Len(WriteOrder) /\ 1 \in 1..Len(WriteOrder)
    BY <1>2, <1>6, Lengths DEF MoreLeft
  <2> HIDE DEF snap
  <2>2. tasks' = [tasks EXCEPT ![t] = x]  BY <1>6
  <2>3. CountsOK'  BY <1>1, <1>6 DEF CountsOK, TypeOK
  <2>4. x \in Task /\ x.pc = "apply" /\ x.enable /\ x.i = 1 /\ x.snap = snap /\ ~x.half
    BY <1>1, <1>3, <1>4, <2>1 DEF Task
  <2> HIDE DEF x, task
  <2>5. Fits(x)  BY <1>4, <2>4 DEF Fits
  <2>6. QED  BY <1>1, <1>2, <1>3, <1>4, <1>6, <2>1, <2>2, <2>3, <2>4, <2>5 DEF task, snap
<1>7. CASE Fault /\ EnableFails(t) /\ UNCHANGED disk
  <2>1. /\ mem' = NoSnapshot /\ seen' \in {"inactive", "active", "restored", "error"}
        /\ \E x \in Task : tasks' = [tasks EXCEPT ![t] = x] /\ Fits(x) /\ (Done(x) \/ RollsBack(x))
    BY <1>3, <1>7, EnableFailsEffect DEF Done, RollsBack
  <2>2. CountsOK'  BY <1>1, <1>7, <2>1, FaultCounts DEF CountsOK, TypeOK
  <2>3. QED  BY <1>1, <1>2, <1>3, <1>4, <1>7, <2>1, <2>2
<1>8. QED  BY <1>5, <1>6, <1>7 DEF Capture

LEMMA ApplyEffect ==
    ASSUME TypeOK, Shape, NEW t \in Slot, Apply(t)
    PROVE  LET task == tasks[t]
               f == WriteOrder[task.i]
               address == IF f \in Http THEN task.snap.endpoint ELSE task.snap.held[f] IN
           /\ app' /\ CountsOK' /\ task.enable
           /\ task.i \in 1..Len(WriteOrder) /\ task.snap \in Snapshot
           /\ \E x \in Task :
                /\ tasks' = [tasks EXCEPT ![t] = x] /\ Fits(x)
                /\ \/ /\ Addressed(task, f, address) /\ Halfway(x, task) /\ mem' = mem
                   \/ /\ \/ f \notin Http /\ UNCHANGED <<os, held>>
                         \/ Switched(task, f, address, f \in Http)
                      /\ mem' = mem
                      /\ Same(x, task, task.i + 1) \/ Done(x)
                   \/ /\ UNCHANGED <<os, held>> /\ mem' = NoSnapshot
                      /\ Done(x) \/ RollsBack(x)
<1> DEFINE task == tasks[t]
           f == WriteOrder[task.i]
           address == IF f \in Http THEN task.snap.endpoint ELSE task.snap.held[f]
           Written == IF MoreLeft(t, WriteOrder)
                      THEN NextSetting(t) /\ UNCHANGED seen
                      ELSE Finish(t, "active")
<1>1. task \in Task /\ task.pc = "apply" /\ app' = app /\ lossCause' = lossCause
  BY DEF TypeOK, Apply
<1>2. task.i \in 1..Len(WriteOrder)  BY <1>1 DEF Task
<1>3. task.snap \in Snapshot /\ task.enable /\ app  BY <1>1, Busy DEF Shape, Fits
<1>4. CASE WriteAddress(t, f, address) /\ UNCHANGED <<seen, mem, faults>>
  <2>1. PICK x \in Task : tasks' = [tasks EXCEPT ![t] = x] /\ Fits(x) /\ Halfway(x, task)
    BY <1>1, <1>4, HalfwayTask DEF WriteAddress
  <2>2. Addressed(task, f, address)  BY <1>4 DEF WriteAddress, Addressed
  <2>3. CountsOK'  BY <1>1, <1>4 DEF CountsOK, TypeOK
  <2>4. QED  BY <1>1, <1>2, <1>3, <1>4, <2>1, <2>2, <2>3
<1>5. CASE /\ \/ f \notin Http /\ UNCHANGED <<os, held>>
              \/ WriteState(t, f, address, f \in Http)
           /\ Written
           /\ UNCHANGED <<mem, faults>>
  <2>1. \/ f \notin Http /\ UNCHANGED <<os, held>>
        \/ Switched(task, f, address, f \in Http)
    BY <1>5 DEF WriteState, Switched
  <2>2. CASE MoreLeft(t, WriteOrder)
    <3>1. PICK x \in Task : /\ tasks' = [tasks EXCEPT ![t] = x] /\ Fits(x)
                            /\ Same(x, task, task.i + 1)
      BY <1>1, <1>5, <2>2, NextSettingTask
    <3>2. CountsOK'  BY <1>1, <1>5, <2>2 DEF CountsOK, TypeOK
    <3>3. QED  BY <1>1, <1>2, <1>3, <1>5, <2>1, <3>1, <3>2
  <2>3. CASE ~MoreLeft(t, WriteOrder)
    <3>1. /\ seen' \in {"inactive", "active", "restored", "error"}
          /\ \E x \in Task : tasks' = [tasks EXCEPT ![t] = x] /\ Fits(x) /\ Done(x)
      BY <1>5, <2>3, FinishEffect
    <3>2. CountsOK'  BY <1>1, <1>5, <3>1 DEF CountsOK, TypeOK
    <3>3. QED  BY <1>1, <1>2, <1>3, <1>5, <2>1, <3>1, <3>2
  <2>4. QED  BY <2>2, <2>3
<1>6. CASE Fault /\ EnableFails(t) /\ UNCHANGED <<os, held>>
  <2>1. /\ mem' = NoSnapshot /\ seen' \in {"inactive", "active", "restored", "error"}
        /\ \E x \in Task : tasks' = [tasks EXCEPT ![t] = x] /\ Fits(x) /\ (Done(x) \/ RollsBack(x))
    BY <1>3, <1>6, EnableFailsEffect DEF Done, RollsBack
  <2>2. CountsOK'  BY <1>1, <1>6, <2>1, FaultCounts DEF CountsOK, TypeOK
  <2>3. QED  BY <1>1, <1>2, <1>3, <1>6, <2>1, <2>2
<1>7. QED  BY <1>4, <1>5, <1>6 DEF Apply

-----------------------------------------------------------------------------
(* Types and shape.                                                        *)

LEMMA CountsFromType ==
    ASSUME TypeOK, UNCHANGED <<seen, lossCause, faults>>
    PROVE  CountsOK'
  BY DEF TypeOK, CountsOK

\* What is set is what is held, or off.
SettingsOK ==
    /\ os \in Setting /\ held \in [Field -> Address]
    /\ \A f \in Field : os[f] = "off" \/ os[f] = held[f]

LEMMA SettingsStay ==
    ASSUME TypeOK, UNCHANGED <<os, held>>
    PROVE  SettingsOK'
  BY DEF TypeOK, SettingsOK

LEMMA AddressedOK ==
    ASSUME TypeOK, NEW task, NEW f \in Field, NEW address \in Address, Addressed(task, f, address)
    PROVE  SettingsOK'
<1>1. address \in Value  BY DEF Addressed, Address, Value, Choice
<1>2. os' \in Setting /\ held' \in [Field -> Address]
  BY <1>1 DEF TypeOK, Setting, Addressed
<1>3. ASSUME NEW g \in Field PROVE os'[g] = "off" \/ os'[g] = held'[g]
  BY DEF TypeOK, Setting, Addressed
<1>4. QED  BY <1>2, <1>3 DEF SettingsOK

LEMMA SwitchedOK ==
    ASSUME TypeOK, NEW task, NEW f \in Field, NEW address, NEW on \in BOOLEAN,
           Switched(task, f, address, on), on => held[f] # "none"
    PROVE  SettingsOK'
<1>1. "off" \in Value /\ (on => held[f] \in Value)
  BY DEF TypeOK, Address, Value, Choice
<1>2. os' \in Setting /\ held' \in [Field -> Address]
  BY <1>1 DEF TypeOK, Setting, Switched
<1>3. ASSUME NEW g \in Field PROVE os'[g] = "off" \/ os'[g] = held'[g]
  BY DEF TypeOK, Setting, Switched
<1>4. QED  BY <1>2, <1>3 DEF SettingsOK

LEMMA TypeParts ==
    ASSUME TypeOK, CountsOK', SettingsOK', disk' \in Snapshot \cup {NoSnapshot},
           mem' \in Snapshot \cup {NoSnapshot}, tasks' \in [Slot -> Task],
           app' \in BOOLEAN, running' \in BOOLEAN, endpoint' = endpoint, user' = user
    PROVE  TypeOK'
  BY DEF TypeOK, CountsOK, SettingsOK

LEMMA TypeCheck ==
    ASSUME TypeOK, Shape, NEW t \in Slot, Check(t)
    PROVE  TypeOK' /\ Shape'
<1>1. app' /\ CountsOK' /\ disk' \in {disk, NoSnapshot}  BY CheckEffect
<1>2. PICK x \in Task : tasks' = [tasks EXCEPT ![t] = x] /\ Fits(x)  BY CheckEffect
<1>3. tasks' \in [Slot -> Task] /\ Shape'  BY <1>1, <1>2, ShapeKept
<1>4. UNCHANGED <<os, held, app, mem, endpoint, running, user>>  BY DEF Check
<1>5. QED  BY <1>1, <1>3, <1>4, TypeParts, SettingsStay DEF TypeOK

LEMMA TypeUndo ==
    ASSUME TypeOK, Shape, Armed, NEW t \in Slot, Undo(t)
    PROVE  TypeOK' /\ Shape'
<1> DEFINE task == tasks[t]
           f == WriteOrder[task.i]
           on == Sanitized(task.snap, f) # "off"
<1>1. /\ app' /\ CountsOK' /\ disk' \in {disk, NoSnapshot} /\ mem' \in {mem, NoSnapshot}
      /\ task.i \in 1..Len(WriteOrder) /\ task.snap \in Snapshot
      /\ \/ UNCHANGED <<os, held>>
         \/ Addressed(task, f, task.snap.held[f])
         \/ Switched(task, f, task.snap.held[f], on)
  BY UndoEffect
<1>2. PICK x \in Task : tasks' = [tasks EXCEPT ![t] = x] /\ Fits(x)  BY UndoEffect
<1>3. tasks' \in [Slot -> Task] /\ Shape'  BY <1>1, <1>2, ShapeKept
<1>4. UNCHANGED <<app, endpoint, running, user>>  BY DEF Undo
<1>5. f \in Field /\ task.snap.held[f] \in Address  BY <1>1, Orders DEF Snapshot
<1>6. CASE Switched(task, f, task.snap.held[f], on)
  <2>1. task.half => held[f] # "none"  BY DEF Armed
  <2>2. ~task.half => ~on
    <3>1. ~task.half => task.snap.held[f] = "none"  BY <1>6 DEF Switched
    <3>2. task.snap.set[f] # "none"
      BY <1>1, <1>5, ValuesAssumption DEF Snapshot, Setting, Value, Choice
    <3>3. task.snap.set[f] = "off" \/ task.snap.set[f] = task.snap.held[f]
      BY <1>1, <1>5 DEF Snapshot
    <3>4. QED  BY <3>1, <3>2, <3>3 DEF Sanitized
  <2>3. on \in BOOLEAN  OBVIOUS
  <2> HIDE DEF on, f, task
  <2>4. on => held[f] # "none"  BY <2>1, <2>2
  <2>5. SettingsOK'  BY <1>5, <1>6, <2>3, <2>4, SwitchedOK
  <2>6. QED  BY <1>1, <1>3, <1>4, <2>5, TypeParts, SettingsStay DEF TypeOK
<1>7. CASE Addressed(task, f, task.snap.held[f])
  <2> HIDE DEF f, task
  <2>1. SettingsOK'  BY <1>5, <1>7, AddressedOK
  <2>2. QED  BY <1>1, <1>3, <1>4, <2>1, TypeParts, SettingsStay DEF TypeOK
<1>8. CASE UNCHANGED <<os, held>>
  BY <1>1, <1>3, <1>4, <1>8, SettingsStay, TypeParts DEF TypeOK
<1>9. QED  BY <1>1, <1>6, <1>7, <1>8

LEMMA TypeCapture ==
    ASSUME TypeOK, Shape, NEW t \in Slot, Capture(t)
    PROVE  TypeOK' /\ Shape'
<1>1. PICK snap \in Snapshot : disk' \in {disk, snap} /\ mem' \in {mem, snap, NoSnapshot}
  BY CaptureEffect
<1>2. app' /\ CountsOK'  BY CaptureEffect
<1>3. PICK x \in Task : tasks' = [tasks EXCEPT ![t] = x] /\ Fits(x)  BY CaptureEffect
<1>4. tasks' \in [Slot -> Task] /\ Shape'  BY <1>2, <1>3, ShapeKept
<1>5. UNCHANGED <<os, held, app, endpoint, running, user>>  BY DEF Capture
<1>6. QED  BY <1>1, <1>2, <1>4, <1>5, TypeParts, SettingsStay DEF TypeOK

LEMMA TypeApply ==
    ASSUME TypeOK, Shape, Armed, NEW t \in Slot, Apply(t)
    PROVE  TypeOK' /\ Shape'
<1> DEFINE task == tasks[t]
           f == WriteOrder[task.i]
           address == IF f \in Http THEN task.snap.endpoint ELSE task.snap.held[f]
<1>1. /\ app' /\ CountsOK' /\ mem' \in {mem, NoSnapshot}
      /\ task.i \in 1..Len(WriteOrder) /\ task.snap \in Snapshot
      /\ \/ UNCHANGED <<os, held>>
         \/ Addressed(task, f, address)
         \/ Switched(task, f, address, f \in Http)
  BY ApplyEffect
<1>2. PICK x \in Task : tasks' = [tasks EXCEPT ![t] = x] /\ Fits(x)  BY ApplyEffect
<1>3. tasks' \in [Slot -> Task] /\ Shape'  BY <1>1, <1>2, ShapeKept
<1>4. UNCHANGED <<disk, app, endpoint, running, user>>  BY DEF Apply
<1>5. f \in Field /\ address \in Address  BY <1>1, Orders DEF Snapshot, Address
<1>6. CASE Switched(task, f, address, f \in Http)
  <2>1. task.half => held[f] # "none"  BY DEF Armed
  <2>2. f \in Http => address # "none"  BY <1>1, ValuesAssumption DEF Snapshot
  <2>3. f \in Http => task.half  BY <1>6, <2>2 DEF Switched
  <2>4. SettingsOK'
    <3> DEFINE on == f \in Http
    <3>1. on \in BOOLEAN /\ (on => held[f] # "none") /\ Switched(task, f, address, on)
      BY <1>6, <2>1, <2>3
    <3> HIDE DEF on, f, task, address
    <3>2. QED  BY <1>5, <3>1, SwitchedOK
  <2>5. QED  BY <1>1, <1>3, <1>4, <2>4, TypeParts, SettingsStay DEF TypeOK
<1>7. CASE Addressed(task, f, address)
  <2> HIDE DEF f, task, address
  <2>1. SettingsOK'  BY <1>5, <1>7, AddressedOK
  <2>2. QED  BY <1>1, <1>3, <1>4, <2>1, TypeParts, SettingsStay DEF TypeOK
<1>8. CASE UNCHANGED <<os, held>>
  BY <1>1, <1>3, <1>4, <1>8, SettingsStay, TypeParts DEF TypeOK
<1>9. QED  BY <1>1, <1>6, <1>7, <1>8

LEMMA TypeEnded ==
    ASSUME TypeOK, Shape, Ended, faults' \in 0..MaxFaults
    PROVE  TypeOK' /\ Shape'
<1>1. tasks' \in [Slot -> Task] /\ (\A t \in Slot : tasks'[t] = Idle)  BY IdleTask DEF Ended
<1>2. lossCause \subseteq lossCause' /\ lossCause' \subseteq {"cut", "half", "blind", "raced"}
  BY CutEffect DEF Ended
<1>3. TypeOK'  BY <1>1, <1>2 DEF TypeOK, Ended
<1>4. Shape'
  <2>1. \A t \in Slot : Fits(tasks[t])'  BY <1>1 DEF Fits, Idle
  <2>2. AllIdle' /\ mem' = NoSnapshot  BY <1>1 DEF AllIdle, Idle, Ended
  <2>3. QED  BY <2>1, <2>2 DEF Shape
<1>5. QED  BY <1>3, <1>4

LEMMA TypeResume ==
    ASSUME TypeOK, Shape, NEW t \in Slot, Resume(t)
    PROVE  TypeOK' /\ Shape'
<1>1. app /\ faults' = faults /\ tasks[t].pc = "resume"  BY Busy DEF Resume
<1>2. CASE tasks[t].then = "stop" /\ running' = FALSE /\ tasks' = [tasks EXCEPT ![t] = Idle]
           /\ UNCHANGED <<os, held, disk, app, mem, endpoint, seen, user, lossCause>>
  <2>1. Fits(Idle) /\ Idle \in Task  BY IdleTask DEF Fits, Idle
  <2>2. tasks' \in [Slot -> Task] /\ Shape'  BY <1>1, <1>2, <2>1, ShapeKept
  <2>3. CountsOK'  BY <1>1, <1>2, CountsFromType
  <2>4. QED  BY <1>2, <2>2, <2>3, TypeParts, SettingsStay DEF TypeOK
<1>3. CASE running' = TRUE /\ BeginEnable(t) /\ UNCHANGED <<os, held, disk, app, endpoint, user>>
  <2>1. PICK x \in Task : tasks' = [tasks EXCEPT ![t] = x] /\ Fits(x)
    BY <1>3, BeginEnableEffect
  <2>2. tasks' \in [Slot -> Task] /\ Shape'  BY <1>1, <1>3, <2>1, ShapeKept
  <2>3. PICK task : lossCause' = lossCause \cup RaceCause(t, task)  BY <1>3 DEF BeginEnable
  <2>4. lossCause' \subseteq {"cut", "half", "blind", "raced"}  BY <2>3, RaceEffect
  <2>5. mem' = mem /\ seen' = seen  BY <1>3 DEF BeginEnable
  <2>6. CountsOK'  BY <1>1, <2>4, <2>5 DEF CountsOK, TypeOK
  <2>7. QED  BY <1>3, <2>2, <2>5, <2>6, TypeParts, SettingsStay DEF TypeOK
<1>4. CASE Ended
  <2>1. faults' \in 0..MaxFaults  BY <1>1 DEF TypeOK
  <2>2. QED  BY <1>4, <2>1, TypeEnded
<1>5. QED  BY <1>2, <1>3, <1>4 DEF Resume

LEMMA TypeRestore ==
    ASSUME TypeOK, Shape, NEW t \in Slot, NEW then \in Then, BeginRestore(t, then), app,
           UNCHANGED <<os, held, disk, app, endpoint, running, user, faults>>
    PROVE  TypeOK' /\ Shape'
<1>1. PICK x \in Task : /\ tasks' = [tasks EXCEPT ![t] = x] /\ Fits(x)
                        /\ seen' \in {"inactive", "active", "restored", "error"}
  BY BeginRestoreEffect DEF TypeOK
<1>2. tasks' \in [Slot -> Task] /\ Shape'  BY <1>1, ShapeKept
<1>3. PICK task : lossCause' = lossCause \cup RaceCause(t, task)  BY DEF BeginRestore
<1>4. lossCause' \subseteq {"cut", "half", "blind", "raced"}  BY <1>3, RaceEffect
<1>5. mem' = NoSnapshot  BY DEF BeginRestore
<1>6. CountsOK'  BY <1>1, <1>4 DEF CountsOK, TypeOK
<1>7. QED  BY <1>2, <1>5, <1>6, TypeParts, SettingsStay DEF TypeOK

LEMMA TypeCommand ==
    ASSUME TypeOK, Shape, Command \/ Ensure \/ Started
    PROVE  TypeOK' /\ Shape'
<1>1. CASE Command
  <2>1. PICK then \in {"stop", "attach"} : BeginRestore("main", then)  BY <1>1 DEF Command
  <2>2. QED  BY <1>1, <2>1, TypeRestore DEF Command, Slot, Then
<1>2. CASE Ensure
  <2>1. PICK x \in Task : tasks' = [tasks EXCEPT !["main"] = x] /\ Fits(x)
    BY <1>2, BeginEnableEffect DEF Ensure, Slot
  <2>2. app' /\ "main" \in Slot  BY <1>2 DEF Ensure, Slot
  <2>3. tasks' \in [Slot -> Task] /\ Shape'  BY <2>1, <2>2, ShapeKept
  <2>4. PICK task : lossCause' = lossCause \cup RaceCause("main", task)
    BY <1>2 DEF Ensure, BeginEnable
  <2>5. lossCause' \subseteq {"cut", "half", "blind", "raced"}  BY <2>2, <2>4, RaceEffect
  <2>6. UNCHANGED <<os, held, disk, app, endpoint, running, user, faults, mem, seen>>
    BY <1>2 DEF Ensure, BeginEnable
  <2>7. CountsOK'  BY <2>5, <2>6 DEF CountsOK, TypeOK
  <2>8. QED  BY <2>3, <2>6, <2>7, TypeParts, SettingsStay DEF TypeOK
<1>3. CASE Started
  <2>1. PICK t \in Slot : tasks[t].pc = "launch" /\ BeginRestore(t, "attach")
    BY <1>3 DEF Started
  <2>2. app  BY <2>1, Busy
  <2>3. QED  BY <1>3, <2>1, <2>2, TypeRestore DEF Started, Then
<1>4. QED  BY <1>1, <1>2, <1>3

\* Two tasks side by side.
LEMMA TwoTasks ==
    ASSUME NEW a \in Task, NEW b \in Task, tasks' = [main |-> a, late |-> b]
    PROVE  tasks' \in [Slot -> Task] /\ tasks'["main"] = a /\ tasks'["late"] = b
<1>1. DOMAIN tasks' = Slot  BY DEF Slot
<1>2. tasks' = [s \in Slot |-> IF s = "main" THEN a ELSE b]  BY DEF Slot
<1>3. QED  BY <1>2 DEF Slot

\* The overtaken operation goes on in the second slot.
LEMMA Overtaken ==
    ASSUME TypeOK, Shape, NEW a \in Task, NEW b \in Task, Fits(a), Fits(b),
           tasks' = [main |-> a, late |-> b], app'
    PROVE  tasks' \in [Slot -> Task] /\ Shape'
<1>1. tasks' \in [Slot -> Task] /\ tasks'["main"] = a /\ tasks'["late"] = b  BY TwoTasks
<1>2. \A s \in Slot : Fits(tasks'[s])  BY <1>1 DEF Slot
<1>3. \A s \in Slot : Fits(tasks[s])'  BY <1>2 DEF Fits, Idle
<1>4. QED  BY <1>1, <1>3 DEF Shape

LEMMA QuitEffect ==
    ASSUME TypeOK, Shape, Quit
    PROVE  \E x \in Task :
             /\ tasks' = [main |-> x, late |-> tasks["main"]]
             /\ Fits(x) /\ ~x.enable /\ x.i = 1 /\ ~x.half /\ x.then = "quit"
             /\ \/ x.pc = "resume"
                \/ x.pc = "undo" /\ mem # NoSnapshot /\ x.snap = mem
                \/ x.pc = "check" /\ disk # NoSnapshot /\ x.snap = disk
<1> DEFINE snap == KnownSnapshot
           Base(pc) == [pc |-> pc, enable |-> FALSE, i |-> 1, half |-> FALSE, snap |-> snap,
                        then |-> "quit"]
<1>1. snap \in Snapshot \cup {NoSnapshot}  BY DEF TypeOK, KnownSnapshot
<1>2. 1 \in 1..Len(WriteOrder) /\ 1 <= Len(CheckOrder)  BY Orders
<1>3. ASSUME NEW pc \in {"resume", "undo", "check"} PROVE Base(pc) \in Task
  BY <1>1, <1>2, <1>3 DEF Task, Then
<1>4. tasks' = [main |-> Base(IF snap = NoSnapshot THEN "resume"
                              ELSE IF mem # NoSnapshot THEN "undo" ELSE "check"),
                late |-> tasks["main"]]
  BY DEF Quit
<1>5. CASE snap = NoSnapshot
  <2>1. Fits(Base("resume"))  BY DEF Fits
  <2>2. QED  BY <1>3, <1>4, <1>5, <2>1
<1>6. CASE snap # NoSnapshot /\ mem # NoSnapshot
  <2>1. Fits(Base("undo")) /\ Base("undo").snap = mem  BY <1>1, <1>6 DEF Fits, KnownSnapshot
  <2>2. QED  BY <1>3, <1>4, <1>6, <2>1
<1>7. CASE snap # NoSnapshot /\ mem = NoSnapshot
  <2>1. Fits(Base("check")) /\ Base("check").snap = disk /\ disk # NoSnapshot
    BY <1>1, <1>2, <1>7 DEF Fits, KnownSnapshot
  <2>2. QED  BY <1>3, <1>4, <1>7, <2>1
<1>8. QED  BY <1>5, <1>6, <1>7

LEMMA TypeQuit ==
    ASSUME TypeOK, Shape, Quit
    PROVE  TypeOK' /\ Shape'
<1>1. PICK x \in Task : tasks' = [main |-> x, late |-> tasks["main"]] /\ Fits(x)
  BY QuitEffect
<1>2. tasks["main"] \in Task /\ Fits(tasks["main"])  BY DEF TypeOK, Shape, Slot
<1>3. app /\ UNCHANGED <<os, held, disk, app, endpoint, running, seen, user>> /\ mem' = NoSnapshot
  BY DEF Quit
<1>4. tasks' \in [Slot -> Task] /\ Shape'  BY <1>1, <1>2, <1>3, Overtaken
<1>5. lossCause' \subseteq {"cut", "half", "blind", "raced"}  BY DEF Quit, TypeOK
<1>6. faults' \in 0..MaxFaults  BY FaultCounts DEF Quit
<1>7. CountsOK'  BY <1>3, <1>5, <1>6 DEF CountsOK, TypeOK
<1>8. QED  BY <1>3, <1>4, <1>7, TypeParts, SettingsStay DEF TypeOK

\* The task is where it was.
Moved(x, task) ==
    /\ x.pc = task.pc /\ x.enable = task.enable /\ x.snap = task.snap
    /\ x.i = task.i /\ x.half = task.half

LEMMA TimeOutEffect ==
    ASSUME TypeOK, Shape, TimeOut
    PROVE  \E x \in Task, y \in Task :
             /\ tasks' = [main |-> x, late |-> y]
             /\ Fits(x) /\ x.pc = "resume" /\ ~x.enable /\ x.then = tasks["main"].then
             /\ Fits(y) /\ Moved(y, tasks["main"]) /\ ~y.enable
             /\ y.then = "nothing"
<1> DEFINE task == tasks["main"]
           x == [task EXCEPT !.pc = "resume", !.snap = NoSnapshot, !.i = 1, !.half = FALSE]
           y == [task EXCEPT !.then = "nothing"]
<1>1. task \in Task /\ Fits(task) /\ task.pc \in {"check", "undo"} /\ ~task.enable
  BY DEF TimeOut, TypeOK, Shape, Slot
<1>2. 1 \in 1..Len(WriteOrder)  BY Orders
<1>3. x \in Task /\ x.pc = "resume" /\ ~x.enable /\ x.then = task.then /\ ~x.half
  BY <1>1, <1>2 DEF Task
<1>4. y \in Task /\ Moved(y, task) /\ y.then = "nothing"  BY <1>1 DEF Task, Then, Moved
<1>5. tasks' = [main |-> x, late |-> y]  BY DEF TimeOut
<1> HIDE DEF x, y, task
<1>6. Fits(x)  BY <1>3 DEF Fits
<1>7. Fits(y) /\ ~y.enable  BY <1>1, <1>4 DEF Fits, Moved
<1>8. QED  BY <1>3, <1>4, <1>5, <1>6, <1>7 DEF task

LEMMA TypeTimeOut ==
    ASSUME TypeOK, Shape, TimeOut
    PROVE  TypeOK' /\ Shape'
<1>1. PICK x \in Task, y \in Task : tasks' = [main |-> x, late |-> y] /\ Fits(x) /\ Fits(y)
  BY TimeOutEffect
<1>2. app
  <2>1. "main" \in Slot /\ tasks["main"].pc # "idle"  BY DEF TimeOut, Slot
  <2>2. QED  BY <2>1, Busy
<1>3. UNCHANGED <<os, held, disk, app, mem, endpoint, running, user, lossCause>> /\ seen' = "error"
  BY DEF TimeOut
<1>4. tasks' \in [Slot -> Task] /\ Shape'  BY <1>1, <1>2, <1>3, Overtaken
<1>5. faults' \in 0..MaxFaults  BY FaultCounts DEF TimeOut
<1>6. CountsOK'  BY <1>3, <1>5 DEF CountsOK, TypeOK
<1>7. QED  BY <1>3, <1>4, <1>6, TypeParts, SettingsStay DEF TypeOK

LEMMA TypeLaunch ==
    ASSUME TypeOK, Shape, Launch
    PROVE  TypeOK' /\ Shape'
<1> DEFINE x == [Idle EXCEPT !.pc = "launch", !.then = "attach"]
<1>1. tasks["main"] = Idle  BY DEF Launch, Shape, AllIdle, Fits, Slot
<1>2. tasks' = [tasks EXCEPT !["main"] = x]  BY <1>1 DEF Launch
<1>3. x \in Task /\ x.pc = "launch" /\ ~x.half  BY IdleTask DEF Task, Then, Idle
<1> HIDE DEF x
<1>4. Fits(x) /\ "main" \in Slot  BY <1>3 DEF Fits, Slot
<1>5. app' /\ endpoint' \in Endpoints /\ UNCHANGED <<os, held, disk, mem, running, seen, user, lossCause, faults>>
  BY DEF Launch
<1>6. tasks' \in [Slot -> Task] /\ Shape'  BY <1>2, <1>3, <1>4, <1>5, ShapeKept
<1>7. TypeOK'  BY <1>5, <1>6 DEF TypeOK
<1>8. QED  BY <1>6, <1>7

\* What the users choose is a setting of theirs.
LEMMA ChosenSetting ==
    ASSUME NEW choice \in UserSettings
    PROVE  /\ [f \in Field |-> choice[f].value] \in [Field -> Choice]
           /\ [f \in Field |-> choice[f].value] \in Setting
           /\ [f \in Field |-> choice[f].held] \in [Field -> Address]
           /\ \A f \in Field : choice[f].value = "off" \/ choice[f].value = choice[f].held
<1>1. choice \in [Field -> Chosen]  BY UserSettingsAssumption
<1>2. ASSUME NEW f \in Field
      PROVE  /\ choice[f].value \in Choice /\ choice[f].held \in Address
             /\ choice[f].value = "off" \/ choice[f].value = choice[f].held
  BY <1>1 DEF Chosen, Address
<1>3. QED  BY <1>2 DEF Setting, Value

LEMMA ChosenOK ==
    ASSUME NEW choice \in UserSettings,
           os = [f \in Field |-> choice[f].value], held = [f \in Field |-> choice[f].held]
    PROVE  SettingsOK /\ os \in [Field -> Choice]
<1>1. ASSUME NEW f \in Field PROVE os[f] = "off" \/ os[f] = held[f]  BY ChosenSetting
<1>2. QED  BY <1>1, ChosenSetting DEF SettingsOK

LEMMA ChosenOKNext ==
    ASSUME NEW choice \in UserSettings,
           os' = [f \in Field |-> choice[f].value], held' = [f \in Field |-> choice[f].held]
    PROVE  SettingsOK' /\ os' \in [Field -> Choice]
<1>1. ASSUME NEW f \in Field PROVE os'[f] = "off" \/ os'[f] = held'[f]  BY ChosenSetting
<1>2. QED  BY <1>1, ChosenSetting DEF SettingsOK

LEMMA TypeUserSets ==
    ASSUME TypeOK, Shape, UserSets
    PROVE  TypeOK' /\ Shape'
<1>1. SettingsOK' /\ user' \in [Field -> Choice] /\ lossCause' = {}
  BY ChosenOKNext DEF UserSets
<1>2. UNCHANGED <<disk, app, mem, endpoint, running, seen, tasks, faults>>  BY DEF UserSets
<1>3. TypeOK'  BY <1>1, <1>2 DEF TypeOK, SettingsOK
<1>4. Shape'  BY <1>2 DEF Shape, Fits, Idle, AllIdle
<1>5. QED  BY <1>3, <1>4

LEMMA TypeInit ==
    ASSUME Init
    PROVE  TypeOK /\ Shape /\ Armed
<1>1. SettingsOK /\ user \in [Field -> Choice]  BY ChosenOK DEF Init
<1>2. tasks \in [Slot -> Task] /\ (\A t \in Slot : tasks[t] = Idle)  BY IdleTask DEF Init
<1>3. 0 \in 0..MaxFaults  BY MaxFaultsAssumption
<1>4. TypeOK  BY <1>1, <1>2, <1>3 DEF Init, TypeOK, SettingsOK
<1>5. Shape /\ Armed  BY <1>2 DEF Init, Shape, Armed, Fits, AllIdle, Idle
<1>6. QED  BY <1>4, <1>5

\* Addresses are written, never taken away, while an operation is under way.
Holding == \A f \in Field : held[f] # "none" => held'[f] # "none"

LEMMA ArmedKept ==
    ASSUME TypeOK, Armed, Holding, NEW t \in Slot, NEW x \in Task,
           tasks' = [tasks EXCEPT ![t] = x], x.half => held'[WriteOrder[x.i]] # "none"
    PROVE  Armed'
<1>1. tasks'[t] = x /\ tasks'[Other(t)] = tasks[Other(t)]  BY NextTask DEF TypeOK
<1>2. ASSUME NEW s \in Slot, tasks'[s].half PROVE held'[WriteOrder[tasks'[s].i]] # "none"
  <2>1. CASE s = t  BY <1>1, <1>2, <2>1
  <2>2. CASE s # t
    <3>1. s = Other(t)  BY <2>2, Slots
    <3>2. tasks'[s] = tasks[s] /\ tasks[s] \in Task  BY <1>1, <3>1 DEF TypeOK
    <3>3. tasks[s].i \in 1..Len(WriteOrder)  BY <3>2 DEF Task
    <3>4. WriteOrder[tasks[s].i] \in Field  BY <3>3, Orders
    <3>5. held[WriteOrder[tasks[s].i]] # "none"  BY <1>2, <3>2 DEF Armed
    <3>6. QED  BY <3>2, <3>4, <3>5 DEF Holding
  <2>3. QED  BY <2>1, <2>2
<1>3. QED  BY <1>2 DEF Armed

LEMMA ArmedUnwritten ==
    ASSUME TypeOK, Armed, UNCHANGED held, NEW t \in Slot, NEW x \in Task,
           tasks' = [tasks EXCEPT ![t] = x], ~x.half
    PROVE  Armed'
  BY ArmedKept DEF Holding

LEMMA ArmedWrites ==
    ASSUME TypeOK, Shape, Armed, NEW t \in Slot, Undo(t) \/ Apply(t)
    PROVE  Armed'
<1> DEFINE task == tasks[t]
           f == WriteOrder[task.i]
<1>1. PICK x \in Task, address \in Address, on \in BOOLEAN :
             /\ tasks' = [tasks EXCEPT ![t] = x] /\ Fits(x)
             /\ \/ Addressed(task, f, address) /\ Halfway(x, task)
                \/ ~x.half /\ (Switched(task, f, address, on) \/ UNCHANGED held)
  <2>1. CASE Undo(t)
    <3>1. PICK x \in Task : 
             /\ tasks' = [tasks EXCEPT ![t] = x] /\ Fits(x)
             /\ \/ Addressed(task, f, task.snap.held[f]) /\ Halfway(x, task)
                \/ /\ Switched(task, f, task.snap.held[f], Sanitized(task.snap, f) # "off")
                   /\ (Same(x, task, task.i + 1) \/ Done(x) \/ Recaptures(x, task))
                \/ UNCHANGED held /\ (Done(x) \/ RollsBack(x))
      BY <2>1, UndoEffect
    <3>2. task.snap \in Snapshot /\ f \in Field  BY <2>1, UndoEffect, Orders
    <3>3. task.snap.held[f] \in Address  BY <3>2 DEF Snapshot
    <3>4. Done(x) => ~x.half  BY <3>1 DEF Done, Fits, Idle
    <3>5. QED  BY <3>1, <3>3, <3>4 DEF Same, Recaptures, RollsBack
  <2>2. CASE Apply(t)
    <3> DEFINE address == IF f \in Http THEN task.snap.endpoint ELSE task.snap.held[f]
    <3>1. PICK x \in Task : 
             /\ tasks' = [tasks EXCEPT ![t] = x] /\ Fits(x)
             /\ \/ Addressed(task, f, address) /\ Halfway(x, task)
                \/ /\ Switched(task, f, address, f \in Http) \/ UNCHANGED held
                   /\ Same(x, task, task.i + 1) \/ Done(x)
                \/ UNCHANGED held /\ (Done(x) \/ RollsBack(x))
      BY <2>2, ApplyEffect
    <3>2. task.snap \in Snapshot /\ f \in Field  BY <2>2, ApplyEffect, Orders
    <3>3. address \in Address  BY <3>2 DEF Snapshot, Address
    <3>4. Done(x) => ~x.half  BY <3>1 DEF Done, Fits, Idle
    <3> DEFINE on == f \in Http
    <3>5. on \in BOOLEAN /\ Switched(task, f, address, f \in Http) = Switched(task, f, address, on)
      OBVIOUS
    <3> HIDE DEF on, address, f, task
    <3>6. QED  BY <3>1, <3>3, <3>4, <3>5 DEF Same, RollsBack
  <2>3. QED  BY <2>1, <2>2
<1>2. tasks[t] \in Task  BY DEF TypeOK
<1>3. f \in Field
  <2>1. task.i \in 1..Len(WriteOrder)  BY <1>2 DEF Task
  <2>2. QED  BY <2>1, Orders
<1>4. Holding /\ (x.half => held'[WriteOrder[x.i]] # "none")
  <2>1. CASE Addressed(task, f, address) /\ Halfway(x, task)
    BY <1>3, <2>1 DEF Addressed, Halfway, Holding, TypeOK
  <2>2. CASE ~x.half /\ (Switched(task, f, address, on) \/ UNCHANGED held)
    BY <2>2 DEF Switched, Holding
  <2>3. QED  BY <1>1, <2>1, <2>2
<1>5. QED  BY <1>1, <1>4, ArmedKept

LEMMA ArmedStep ==
    ASSUME TypeOK, Shape, Armed, [Next]_vars
    PROVE  Armed'
<1>1. ASSUME NEW t \in Slot, Check(t) PROVE Armed'
  <2>1. PICK x \in Task : /\ tasks' = [tasks EXCEPT ![t] = x] /\ Fits(x)
                         /\ \/ ~x.half
                            \/ Same(x, tasks[t], tasks[t].i + 1)
                            \/ Done(x) \/ Recaptures(x, tasks[t])
    BY <1>1, CheckEffect
  <2>2. ~x.half  BY <2>1 DEF Same, Done, Recaptures, Fits, Idle
  <2>3. QED  BY <1>1, <2>1, <2>2, ArmedUnwritten DEF Check
<1>2. ASSUME NEW t \in Slot, Capture(t) PROVE Armed'
  <2>1. PICK x \in Task : /\ tasks' = [tasks EXCEPT ![t] = x] /\ Fits(x)
                         /\ (x.pc = "capture" \/ ~x.half \/ Done(x) \/ RollsBack(x))
    BY <1>2, CaptureEffect
  <2>2. ~x.half  BY <2>1 DEF Done, RollsBack, Fits, Idle
  <2>3. QED  BY <1>2, <2>1, <2>2, ArmedUnwritten DEF Capture
<1>3. ASSUME NEW t \in Slot, Undo(t) \/ Apply(t) PROVE Armed'
  BY <1>3, ArmedWrites
<1>4. ASSUME Ended PROVE Armed'
  BY <1>4 DEF Ended, Armed, Idle
<1>5. ASSUME NEW t \in Slot, NEW then \in Then, BeginRestore(t, then), UNCHANGED held PROVE Armed'
  <2>1. PICK x \in Task : tasks' = [tasks EXCEPT ![t] = x] /\ ~x.half
    BY <1>5, BeginRestoreEffect
  <2>2. QED  BY <1>5, <2>1, ArmedUnwritten
<1>6. ASSUME NEW t \in Slot, BeginEnable(t), UNCHANGED held PROVE Armed'
  <2>1. PICK x \in Task : tasks' = [tasks EXCEPT ![t] = x] /\ ~x.half
    BY <1>6, BeginEnableEffect
  <2>2. QED  BY <1>6, <2>1, ArmedUnwritten
<1>7. ASSUME NEW t \in Slot, Resume(t) PROVE Armed'
  <2>1. CASE tasks' = [tasks EXCEPT ![t] = Idle] /\ UNCHANGED held
    BY <2>1, IdleTask, ArmedUnwritten DEF Idle
  <2>2. CASE BeginEnable(t) /\ UNCHANGED held  BY <2>2, <1>6
  <2>3. CASE Ended  BY <2>3, <1>4
  <2>4. QED  BY <1>7, <2>1, <2>2, <2>3 DEF Resume
<1>8. CASE Command \/ Ensure \/ Started
  <2>1. CASE Command  BY <1>5, <2>1 DEF Command, Slot, Then
  <2>2. CASE Ensure  BY <1>6, <2>2 DEF Ensure, Slot
  <2>3. CASE Started  BY <1>5, <2>3 DEF Started, Then
  <2>4. QED  BY <1>8, <2>1, <2>2, <2>3
<1>9. CASE Quit
  <2>1. PICK x \in Task : tasks' = [main |-> x, late |-> tasks["main"]] /\ ~x.half
    BY <1>9, QuitEffect
  <2>2. tasks["main"] \in Task /\ "main" \in Slot  BY DEF TypeOK, Slot
  <2>3. tasks'["main"] = x /\ tasks'["late"] = tasks["main"]  BY <2>1, <2>2, TwoTasks
  <2>4. held' = held  BY <1>9 DEF Quit
  <2>5. QED  BY <2>1, <2>2, <2>3, <2>4 DEF Armed, Slot
<1>10. CASE TimeOut
  <2>1. PICK x \in Task, y \in Task :
            /\ tasks' = [main |-> x, late |-> y]
            /\ Fits(x) /\ x.pc = "resume" /\ Moved(y, tasks["main"])
    BY <1>10, TimeOutEffect
  <2>2. tasks'["main"] = x /\ tasks'["late"] = y /\ "main" \in Slot  BY <2>1, TwoTasks DEF Slot
  <2>3. ~x.half /\ held' = held  BY <1>10, <2>1 DEF Fits, TimeOut
  <2>4. QED  BY <2>1, <2>2, <2>3 DEF Armed, Slot, Moved
<1>11. CASE Crash  BY <1>4, <1>11 DEF Crash
<1>12. CASE Launch
  <2>1. tasks["main"] = Idle  BY <1>12 DEF Launch, Shape, AllIdle, Fits, Slot
  <2>2. tasks' = [tasks EXCEPT !["main"] = [Idle EXCEPT !.pc = "launch", !.then = "attach"]]
    BY <1>12, <2>1 DEF Launch
  <2>3. [Idle EXCEPT !.pc = "launch", !.then = "attach"] \in Task
        /\ ~[Idle EXCEPT !.pc = "launch", !.then = "attach"].half
    BY IdleTask DEF Task, Then, Idle
  <2>4. held' = held /\ "main" \in Slot  BY <1>12 DEF Launch, Slot
  <2>5. QED  BY <2>2, <2>3, <2>4, ArmedUnwritten
<1>13. CASE UserSets
  <2>1. \A t \in Slot : tasks[t] = Idle  BY <1>13 DEF UserSets, Shape, AllIdle, Fits
  <2>2. QED  BY <1>13, <2>1 DEF UserSets, Armed, Idle
<1>14. CASE UNCHANGED vars  BY <1>14 DEF vars, Armed
<1>15. QED
  BY <1>1, <1>2, <1>3, <1>7, <1>8, <1>9, <1>10, <1>11, <1>12, <1>13, <1>14 DEF Next, Step

LEMMA TypeStep ==
    ASSUME TypeOK, Shape, Armed, [Next]_vars
    PROVE  TypeOK' /\ Shape' /\ Armed'
<1>0. Armed'  BY ArmedStep
<1>1. CASE Command \/ Ensure \/ Started  BY <1>0, <1>1, TypeCommand
<1>2. CASE Quit  BY <1>0, <1>2, TypeQuit
<1>3. CASE TimeOut  BY <1>0, <1>3, TypeTimeOut
<1>4. CASE Crash
  <2>1. Ended /\ faults' \in 0..MaxFaults  BY <1>4, FaultCounts DEF Crash
  <2>2. QED  BY <1>0, <2>1, TypeEnded
<1>5. CASE Launch  BY <1>0, <1>5, TypeLaunch
<1>6. CASE UserSets  BY <1>0, <1>6, TypeUserSets
<1>7. ASSUME NEW t \in Slot, Step(t) PROVE TypeOK' /\ Shape'
  BY <1>7, TypeCheck, TypeUndo, TypeCapture, TypeApply, TypeResume DEF Step
<1>8. CASE UNCHANGED vars
  BY <1>0, <1>8 DEF vars, TypeOK, Shape, Fits, Idle, AllIdle
<1>9. QED  BY <1>0, <1>1, <1>2, <1>3, <1>4, <1>5, <1>6, <1>7, <1>8 DEF Next

\* Whatever SystemProxyManager and ProxyService do, and however they overlap, an
\* operation visits only settings there are, with a snapshot in hand (TypeOK).
THEOREM TypeCorrect == Spec => []TypeOK
<1>1. Init => TypeOK /\ Shape /\ Armed  BY TypeInit
<1>2. TypeOK /\ Shape /\ Armed /\ [Next]_vars => (TypeOK /\ Shape /\ Armed)'  BY TypeStep
<1>3. QED  BY <1>1, <1>2, PTL DEF Spec

-----------------------------------------------------------------------------
(* The HTTP settings.                                                      *)

\* A user does not choose an address of the application.
LEMMA UserIsNotManaged ==
    ASSUME TypeOK, NEW f \in Field, NEW snap \in Snapshot
    PROVE  user[f] # snap.endpoint
  BY ValuesAssumption DEF TypeOK, Choice, Snapshot

\* Nothing but the causes that are counted may undo what was safe.
LEMMA CausesGrow ==
    ASSUME lossCause \subseteq lossCause', lossCause' \subseteq {"cut"}, HttpInv
    PROVE  HttpSafe
  BY DEF HttpInv

\* A setting that is on for a moment is so by one of the two operations, and as
\* long as that one does not move.
LEMMA FlickersIn ==
    ASSUME NEW t \in Slot, NEW f, Flickers(f)
    PROVE  TurnedOn(t, f) \/ TurnedOn(Other(t), f)
  BY Slots DEF Flickers

LEMMA FlickersOn ==
    ASSUME NEW t \in Slot, NEW f, TurnedOn(t, f), tasks'[t] = tasks[t]
    PROVE  Flickers(f)'
  BY DEF Flickers, TurnedOn, Undoing, Sanitized

\* What a step that takes nothing over does to settings: they become the user's,
\* or are on for a moment, or are left alone.
Settles(fields) ==
    /\ \A f \in fields : \/ os'[f] = user[f]
                         \/ Flickers(f)'
                         \/ os'[f] = os[f] /\ ~Flickers(f)
    /\ \A f \in fields : held'[f] = held[f] \/ (user[f] # "off" => held'[f] = user[f])

\* A step that writes nothing, of an operation that leaves nothing half written.
LEMMA SettlesUnwritten ==
    ASSUME NEW t \in Slot, UNCHANGED <<os, held>>, tasks'[Other(t)] = tasks[Other(t)],
           NEW fields, \A f \in fields : ~TurnedOn(t, f)
    PROVE  Settles(fields)
<1>1. ASSUME NEW f \in fields, Flickers(f) PROVE Flickers(f)'
  BY <1>1, FlickersIn, FlickersOn, Slots
<1>2. QED  BY <1>1 DEF Settles

LEMMA CoveredKept ==
    ASSUME Settles(Http), NEW snap, \A f \in Http : os[f] \in {user[f], snap.endpoint} \/ Flickers(f)
    PROVE  \A f \in Http : os'[f] \in {user[f], snap.endpoint} \/ Flickers(f)'
  BY DEF Settles

LEMMA KeptKept ==
    ASSUME Settles(Http), user' = user, HttpKept
    PROVE  HttpKept'
  BY DEF Settles, HttpKept

\* The task of the other slot stays safe in such a step.
LEMMA OtherTaskSafe ==
    ASSUME TypeOK, Shape, HttpSafe, NEW t \in Slot, ~tasks[t].enable,
           tasks'[t] = tasks[t], user' = user, mem' \in {mem, NoSnapshot},
           disk' \in {disk, NoSnapshot}, Settles(Http),
           tasks[t].pc = "check" /\ Undoing(Other(t))' => disk' # NoSnapshot
    PROVE  HttpTask(t)'
<1> DEFINE task == tasks[t]
<1>1. task \in Task /\ Fits(task) /\ HttpTask(t)  BY DEF TypeOK, Shape, HttpSafe
<1>2. task.pc \notin {"rollback", "capture", "apply"}  BY <1>1 DEF Fits
<1>3. CASE task.pc = "check"
  <2>1. task.snap \in Snapshot /\ task.i \in Nat /\ task.i <= Len(CheckOrder)
    BY <1>1, <1>3 DEF Fits, Task
  <2>2. /\ disk \in {task.snap, NoSnapshot} /\ mem = NoSnapshot
        /\ \A j \in 1..(task.i - 1) :
              os[CheckOrder[j]] # task.snap.endpoint \/ Flickers(CheckOrder[j])
    BY <1>1, <1>3 DEF HttpTask
  <2>3. ASSUME NEW j \in 1..(task.i - 1)
        PROVE  os'[CheckOrder[j]] # task.snap.endpoint \/ Flickers(CheckOrder[j])'
    <3>1. j \in 1..Len(CheckOrder)  BY <2>1, Lengths
    <3>2. CheckOrder[j] \in Http /\ CheckOrder[j] \in Field  BY <3>1, Orders, KindOfFields
    <3>3. user[CheckOrder[j]] # task.snap.endpoint  BY <2>1, <3>2, UserIsNotManaged
    <3>4. QED  BY <2>2, <3>2, <3>3 DEF Settles
  <2>4. ~Undoing(t)'  BY <1>3 DEF Undoing
  <2>5. disk' \in {task.snap, NoSnapshot} /\ mem' = NoSnapshot  BY <2>2
  <2>6. QED  BY <1>3, <2>3, <2>4, <2>5 DEF HttpTask
<1>4. CASE task.pc = "undo"
  <2>1. task.snap \in Snapshot /\ task.i \in 1..Len(WriteOrder)  BY <1>1, <1>4 DEF Fits, Task
  <2>2. /\ Covered(task.snap) /\ Holds(task.snap, Http) /\ disk \in {task.snap, NoSnapshot}
        /\ \A j \in 1..(task.i - 1) :
              WriteOrder[j] \in Http => os[WriteOrder[j]] = user[WriteOrder[j]] \/ Flickers(WriteOrder[j])
        /\ WriteOrder[task.i] \in Http => HeldIsUsers(task)
    BY <1>1, <1>4 DEF HttpTask, Undoing
  <2>3. \A f \in Http : os'[f] \in {user[f], task.snap.endpoint} \/ Flickers(f)'
    <3>1. \A f \in Http : os[f] \in {user[f], task.snap.endpoint} \/ Flickers(f)
      BY <2>2 DEF Covered
    <3>2. QED  BY <3>1, CoveredKept
  <2>4. Covered(tasks[t].snap)'  BY <2>3 DEF Covered
  <2>5. Holds(tasks[t].snap, Http)'  BY <2>2 DEF Holds, Sanitized
  <2>6. \A j \in 1..(task.i - 1) :
           WriteOrder[j] \in Http => os'[WriteOrder[j]] = user[WriteOrder[j]] \/ Flickers(WriteOrder[j])'
    BY <2>2 DEF Settles
  <2>7. WriteOrder[task.i] \in Http => HeldIsUsers(tasks[t])'
    BY <2>2 DEF Settles, HeldIsUsers
  <2>8. disk' \in {task.snap, NoSnapshot}  BY <2>2
  <2>9. QED  BY <1>4, <2>4, <2>5, <2>6, <2>7, <2>8 DEF HttpTask, Undoing
<1>5. CASE task.pc \notin {"check", "undo"}
  BY <1>2, <1>5 DEF HttpTask, Undoing
<1>6. QED  BY <1>3, <1>4, <1>5

\* The settings and the two snapshots, of the same steps.
LEMMA SettledSafe ==
    ASSUME TypeOK, HttpSafe, user' = user, mem' \in {mem, NoSnapshot}, Settles(Http),
           disk' = disk \/ (disk' = NoSnapshot /\ HttpKept'),
           NEW t \in Slot, HttpTask(t)', HttpTask(Other(t))'
    PROVE  HttpSafe'
<1>1. \A s \in Slot : HttpTask(s)'  BY Slots
<1>2. disk' = NoSnapshot => HttpKept'  BY KeptKept DEF HttpSafe
<1>3. ASSUME disk' # NoSnapshot PROVE Covered(disk)' /\ (Managed(disk)' => Holds(disk, Http)')
  <2>1. disk' = disk /\ disk \in Snapshot /\ Covered(disk) /\ (Managed(disk) => Holds(disk, Http))
    BY <1>3 DEF HttpSafe, TypeOK
  <2>2. \A f \in Http : os'[f] \in {user[f], disk.endpoint} \/ Flickers(f)'
    <3>1. \A f \in Http : os[f] \in {user[f], disk.endpoint} \/ Flickers(f)
      BY <2>1 DEF Covered
    <3>2. QED  BY <3>1, CoveredKept
  <2>3. Covered(disk)'  BY <2>1, <2>2 DEF Covered
  <2>4. ASSUME Managed(disk)' PROVE Holds(disk, Http)'
    <3>1. PICK f \in Http : os'[f] = disk.endpoint  BY <2>1, <2>4 DEF Managed, ManagedBy
    <3>2. user[f] # disk.endpoint  BY <2>1, KindOfFields, UserIsNotManaged
    <3>3. CASE Flickers(f)'
      <4>1. PICK s \in Slot : Undoing(s)'  BY <3>3 DEF Flickers, TurnedOn
      <4>2. Holds(tasks[s].snap, Http)' /\ disk' = tasks'[s].snap
        BY <1>1, <1>3, <4>1 DEF HttpTask
      <4>3. QED  BY <4>2 DEF Holds, Sanitized
    <3>4. CASE ~Flickers(f)'
      <4>1. os[f] = disk.endpoint  BY <3>1, <3>2, <3>4 DEF Settles
      <4>2. Managed(disk)  BY <4>1 DEF Managed, ManagedBy
      <4>3. QED  BY <2>1, <4>2 DEF Holds, Sanitized
    <3>5. QED  BY <3>3, <3>4
  <2>5. QED  BY <2>3, <2>4
<1>4. ASSUME mem' # NoSnapshot
      PROVE  Covered(mem)' /\ Holds(mem, Http)' /\ disk' \in {mem', NoSnapshot}
  <2>1. mem' = mem /\ Covered(mem) /\ Holds(mem, Http) /\ disk \in {mem, NoSnapshot}
    BY <1>4 DEF HttpSafe
  <2>2. \A f \in Http : os'[f] \in {user[f], mem.endpoint} \/ Flickers(f)'
    <3>1. \A f \in Http : os[f] \in {user[f], mem.endpoint} \/ Flickers(f)
      BY <2>1 DEF Covered
    <3>2. QED  BY <3>1, CoveredKept
  <2>3. Covered(mem)'  BY <2>1, <2>2 DEF Covered
  <2>4. Holds(mem, Http)'  BY <2>1 DEF Holds, Sanitized
  <2>5. QED  BY <2>1, <2>3, <2>4
<1>5. QED  BY <1>1, <1>2, <1>3, <1>4 DEF HttpSafe

\* The slots and what the other one may do.
LEMMA OtherSlot ==
    ASSUME TypeOK, Shape, HttpSafe, NEW t \in Slot, tasks[t].pc # "idle"
    PROVE  /\ ~tasks[Other(t)].enable
           /\ tasks[t].enable => tasks[Other(t)].pc = "idle"
<1>1. HttpTask(t) /\ HttpTask(Other(t)) /\ Other(Other(t)) = t  BY Slots DEF HttpSafe
<1>2. tasks[Other(t)] \in Task  BY Slots DEF TypeOK
<1>3. tasks[Other(t)].enable \in BOOLEAN  BY <1>2 DEF Task
<1>4. QED  BY <1>1, <1>3 DEF HttpTask

\* An operation that goes on undoing, or ends, leaves the other one safe.
LEMMA OtherGoesOn ==
    ASSUME TypeOK, Shape, HttpSafe, NEW t \in Slot, tasks[t].pc # "idle",
           tasks'[Other(t)] = tasks[Other(t)], user' = user, mem' \in {mem, NoSnapshot},
           disk' \in {disk, NoSnapshot}, Settles(Http),
           Undoing(t)' => tasks[t].enable \/ (Undoing(t) /\ disk' = disk)
    PROVE  HttpTask(Other(t))'
<1>1. ~tasks[Other(t)].enable /\ (tasks[t].enable => tasks[Other(t)].pc = "idle")
  BY OtherSlot
<1>2. Other(t) \in Slot /\ Other(Other(t)) = t  BY Slots
<1>3. ASSUME tasks[Other(t)].pc = "check", Undoing(t)' PROVE disk' # NoSnapshot
  <2>1. Undoing(t) /\ disk' = disk  BY <1>1, <1>3
  <2>2. HttpTask(Other(t))  BY <1>2 DEF HttpSafe
  <2>3. QED  BY <1>2, <1>3, <2>1, <2>2 DEF HttpTask
<1>4. QED  BY <1>1, <1>2, <1>3, OtherTaskSafe

LEMMA DoneIsSafe ==
    ASSUME NEW t \in Slot, Done(tasks'[t])
    PROVE  HttpTask(t)' /\ ~Undoing(t)'
  BY DEF Done, Idle, HttpTask, Undoing

LEMMA RecapturesSafe ==
    ASSUME TypeOK, Shape, HttpSafe, NEW t \in Slot, tasks[t].pc # "idle",
           Recaptures(tasks'[t], tasks[t]), tasks'[Other(t)] = tasks[Other(t)],
           disk' = NoSnapshot
    PROVE  HttpTask(t)' /\ ~Undoing(t)'
<1>1. tasks'[Other(t)].pc = "idle"  BY OtherSlot DEF Recaptures
<1>2. QED  BY <1>1 DEF Recaptures, HttpTask, Undoing

LEMMA RollsBackSafe ==
    ASSUME TypeOK, Shape, HttpSafe, NEW t \in Slot, tasks[t].pc # "idle", tasks[t].enable,
           RollsBack(tasks'[t]), tasks'[Other(t)] = tasks[Other(t)],
           Settles(Http), disk' = disk, user' = user
    PROVE  HttpTask(t)'
<1>1. tasks'[Other(t)].pc = "idle"  BY OtherSlot
<1>2. Covered(mem) /\ Holds(mem, Http) /\ disk \in {mem, NoSnapshot} /\ tasks'[t].snap = mem
  BY DEF RollsBack, HttpSafe
<1>3. \A f \in Http : os'[f] \in {user[f], mem.endpoint} \/ Flickers(f)'
  <2>1. \A f \in Http : os[f] \in {user[f], mem.endpoint} \/ Flickers(f)
    BY <1>2 DEF Covered
  <2>2. QED  BY <2>1, CoveredKept
<1>4. Covered(tasks[t].snap)'  BY <1>2, <1>3 DEF Covered
<1>5. Holds(tasks[t].snap, Http)'  BY <1>2 DEF Holds, Sanitized
<1>6. disk' \in {tasks'[t].snap, NoSnapshot}  BY <1>2
<1>7. HeldIsUsers(tasks[t])'  BY DEF HeldIsUsers, RollsBack
<1>8. tasks'[t].pc = "rollback" /\ tasks'[t].i = 1  BY DEF RollsBack
<1>9. QED  BY <1>1, <1>4, <1>5, <1>6, <1>7, <1>8 DEF HttpTask

LEMMA HttpCheck ==
    ASSUME TypeOK, Shape, HttpInv, NEW t \in Slot, Check(t), lossCause' \subseteq {"cut"}
    PROVE  HttpSafe'
<1> DEFINE o == Other(t)
           task == tasks[t]
           f == CheckOrder[task.i]
<1>1. HttpSafe /\ "blind" \notin lossCause'  BY CheckEffect, CausesGrow
<1>2. PICK x \in Task :
         /\ tasks' = [tasks EXCEPT ![t] = x]
         /\ \/ /\ os[f] = task.snap.endpoint
               /\ x.pc = "undo" /\ x.i = 1 /\ x.snap = task.snap /\ x.enable = task.enable
               /\ ~x.half /\ disk' = disk
            \/ /\ os[f] # task.snap.endpoint
               /\ Same(x, task, task.i + 1) /\ disk' = disk
            \/ /\ os[f] # task.snap.endpoint
               /\ task.i = Len(CheckOrder) /\ disk' = NoSnapshot
               /\ Done(x) \/ Recaptures(x, task)
  BY <1>1, CheckEffect
<1>3. /\ task.pc = "check" /\ UNCHANGED <<os, held, mem, user>>  BY DEF Check
<1>4. tasks'[t] = x /\ tasks'[o] = tasks[o]  BY <1>2, NextTask DEF TypeOK
<1>5. ~tasks[o].enable /\ (task.enable => tasks[o].pc = "idle")  BY <1>1, <1>3, OtherSlot
<1>6. task.i \in 1..Len(CheckOrder) /\ f \in Http /\ f \in Field  BY CheckEffect, Orders, KindOfFields
<1>7. task.snap \in Snapshot  BY <1>3 DEF Shape, Fits
<1>8. /\ disk \in {task.snap, NoSnapshot}
      /\ task.enable \/ mem = NoSnapshot
      /\ Undoing(o) => disk # NoSnapshot
      /\ \A j \in 1..(task.i - 1) :
            os[CheckOrder[j]] # task.snap.endpoint \/ Flickers(CheckOrder[j])
  BY <1>1, <1>3 DEF HttpSafe, HttpTask
<1>9. ~Undoing(t)  BY <1>3 DEF Undoing
<1>10. Settles(Http)
  <2>1. \A g \in Http : ~TurnedOn(t, g)  BY <1>9 DEF TurnedOn
  <2>2. QED  BY <1>3, <1>4, <2>1, SettlesUnwritten
<1>11. ASSUME NEW g, Flickers(g) PROVE Flickers(g)' /\ disk # NoSnapshot
  <2>1. TurnedOn(o, g) /\ o \in Slot  BY <1>9, <1>11, FlickersIn, Slots DEF TurnedOn
  <2>2. Undoing(o)  BY <2>1 DEF TurnedOn
  <2>3. QED  BY <1>4, <1>8, <2>1, <2>2, FlickersOn
<1>12. CASE /\ os[f] = task.snap.endpoint /\ disk' = disk
            /\ x.pc = "undo" /\ x.i = 1 /\ x.snap = task.snap /\ x.enable = task.enable
            /\ ~x.half
  <2>1. os[f] # user[f]  BY <1>6, <1>7, <1>12, UserIsNotManaged
  <2>2. disk # NoSnapshot
    BY <1>1, <1>6, <1>11, <2>1 DEF HttpSafe, HttpKept
  <2>3. disk = task.snap  BY <1>8, <2>2
  <2>4. Managed(disk)  BY <1>6, <1>12, <2>3 DEF Managed, ManagedBy
  <2>5. Covered(task.snap) /\ Holds(task.snap, Http)  BY <1>1, <2>2, <2>3, <2>4 DEF HttpSafe
  <2>6. HttpTask(t)'
    <3>1. \A g \in Http : os'[g] \in {user[g], task.snap.endpoint} \/ Flickers(g)'
      BY <1>3, <1>11, <2>5 DEF Covered
    <3>2. Covered(tasks[t].snap)'  BY <1>3, <1>4, <1>12, <3>1 DEF Covered
    <3>3. Holds(tasks[t].snap, Http)'  BY <1>3, <1>4, <1>12, <2>5 DEF Holds, Sanitized
    <3>4. HeldIsUsers(tasks[t])'  BY <1>4, <1>12 DEF HeldIsUsers
    <3>5. disk' \in {tasks'[t].snap, NoSnapshot}  BY <1>4, <1>12, <2>3
    <3>6. tasks'[t].enable => tasks'[o].pc = "idle"  BY <1>4, <1>5, <1>12
    <3>7. tasks'[t].pc = "undo" /\ tasks'[t].i = 1  BY <1>4, <1>12
    <3>8. QED  BY <3>2, <3>3, <3>4, <3>5, <3>6, <3>7 DEF HttpTask
  <2>7. HttpTask(o)'
    BY <1>1, <1>3, <1>4, <1>5, <1>10, <1>12, <2>2, Slots, OtherTaskSafe
  <2>8. QED  BY <1>1, <1>3, <1>10, <1>12, <2>6, <2>7, SettledSafe
<1>13. CASE os[f] # task.snap.endpoint /\ Same(x, task, task.i + 1) /\ disk' = disk
  <2>1. \A j \in 1..task.i :
           os'[CheckOrder[j]] # task.snap.endpoint \/ Flickers(CheckOrder[j])'
    <3>1. SUFFICES ASSUME NEW j \in 1..task.i
                   PROVE  os'[CheckOrder[j]] # task.snap.endpoint \/ Flickers(CheckOrder[j])'
      OBVIOUS
    <3>2. j = task.i \/ j \in 1..(task.i - 1)  BY <1>6, Lengths
    <3>3. os[CheckOrder[j]] # task.snap.endpoint \/ Flickers(CheckOrder[j])
      BY <1>8, <1>13, <3>2
    <3>4. QED  BY <1>3, <1>11, <3>3
  <2>2. tasks'[t].i - 1 = task.i  BY <1>4, <1>6, <1>13, Lengths DEF Same
  <2>3. tasks'[t].pc = "check" /\ tasks'[t].snap = task.snap /\ tasks'[t].enable = task.enable
    BY <1>3, <1>4, <1>13 DEF Same
  <2>4. ~Undoing(t)'  BY <2>3 DEF Undoing
  <2>5. Undoing(o)' => disk' # NoSnapshot  BY <1>4, <1>8, <1>13 DEF Undoing
  <2>6. tasks'[t].enable => tasks'[o].pc = "idle"  BY <1>4, <1>5, <2>3
  <2>7. disk' \in {tasks'[t].snap, NoSnapshot} /\ (tasks'[t].enable \/ mem' = NoSnapshot)
    BY <1>3, <1>8, <1>13, <2>3
  <2>8. HttpTask(t)'  BY <2>1, <2>2, <2>3, <2>4, <2>5, <2>6, <2>7 DEF HttpTask
  <2>9. HttpTask(o)'  BY <1>1, <1>3, <1>4, <1>10, <1>13, <2>4, OtherGoesOn
  <2>10. QED  BY <1>1, <1>3, <1>10, <1>13, <2>8, <2>9, SettledSafe
<1>14. CASE /\ os[f] # task.snap.endpoint
            /\ task.i = Len(CheckOrder) /\ disk' = NoSnapshot
            /\ Done(x) \/ Recaptures(x, task)
  <2>1. \A j \in 1..Len(CheckOrder) :
           os[CheckOrder[j]] # task.snap.endpoint \/ Flickers(CheckOrder[j])
    <3>1. SUFFICES ASSUME NEW j \in 1..Len(CheckOrder)
                   PROVE  os[CheckOrder[j]] # task.snap.endpoint \/ Flickers(CheckOrder[j])
      OBVIOUS
    <3>2. j = task.i \/ j \in 1..(task.i - 1)  BY <1>6, <1>14, Lengths
    <3>3. QED  BY <1>8, <1>14, <3>2
  <2>2. \A g \in Http : os[g] # task.snap.endpoint \/ Flickers(g)  BY <2>1, Orders
  <2>3. HttpKept
    <3>1. CASE disk = NoSnapshot  BY <1>1, <3>1 DEF HttpSafe
    <3>2. CASE disk # NoSnapshot  BY <1>1, <1>8, <2>2, <3>2 DEF HttpSafe, Covered, HttpKept
    <3>3. QED  BY <3>1, <3>2
  <2>4. HttpKept'  BY <1>3, <1>10, <2>3, KeptKept
  <2>5. HttpTask(t)' /\ ~Undoing(t)'
    BY <1>1, <1>3, <1>4, <1>14, DoneIsSafe, RecapturesSafe
  <2>6. HttpTask(o)'  BY <1>1, <1>3, <1>4, <1>10, <1>14, <2>5, OtherGoesOn
  <2>7. QED  BY <1>1, <1>3, <1>10, <1>14, <2>4, <2>5, <2>6, SettledSafe
<1>15. QED  BY <1>2, <1>12, <1>13, <1>14

\* What putting a setting back writes, when restoring from snap sets back what
\* the user had.
LEMMA SetBack ==
    ASSUME NEW snap \in Snapshot, NEW f \in Field, Sanitized(snap, f) = user[f], user[f] # "off"
    PROVE  snap.held[f] = user[f] /\ snap.held[f] # "none"
<1>1. snap.set[f] = user[f]  BY DEF Sanitized
<1>2. snap.set[f] = snap.held[f] /\ snap.set[f] \in Value  BY <1>1 DEF Snapshot, Setting
<1>3. "none" \notin Value  BY ValuesAssumption DEF Value, Choice
<1>4. QED  BY <1>1, <1>2, <1>3

LEMMA UndoSettles ==
    ASSUME TypeOK, NEW t \in Slot, Undoing(t), NEW x,
           tasks'[t] = x, tasks'[Other(t)] = tasks[Other(t)],
           tasks[t].i \in 1..Len(WriteOrder), tasks[t].snap \in Snapshot,
           NEW f \in Field, f = WriteOrder[tasks[t].i], Sanitized(tasks[t].snap, f) = user[f],
           HeldIsUsers(tasks[t]),
           \/ Addressed(tasks[t], f, tasks[t].snap.held[f]) /\ Halfway(x, tasks[t])
           \/ Switched(tasks[t], f, tasks[t].snap.held[f], Sanitized(tasks[t].snap, f) # "off")
    PROVE  /\ os'[f] = user[f] \/ Flickers(f)'
           /\ user[f] # "off" => held'[f] = user[f]
           /\ Halfway(x, tasks[t]) \/ os'[f] = user[f]
           /\ \A g \in Field : g # f =>
                 /\ os'[g] = os[g] /\ held'[g] = held[g]
                 /\ Flickers(g) => Flickers(g)'
<1> DEFINE task == tasks[t]
<1>1. os \in [Field -> Value] /\ held \in [Field -> Address]  BY DEF TypeOK, Setting
<1>2. ASSUME NEW g \in Field, g # f, Flickers(g) PROVE Flickers(g)'
  <2>1. ~TurnedOn(t, g)  BY <1>2 DEF TurnedOn
  <2>2. QED  BY <1>2, <2>1, FlickersIn, FlickersOn, Slots
<1>3. \A g \in Field : g # f => os'[g] = os[g] /\ held'[g] = held[g]
  BY <1>1 DEF Addressed, Switched
<1>4. CASE Addressed(task, f, task.snap.held[f]) /\ Halfway(x, task)
  <2>1. os'[f] = task.snap.held[f] /\ held'[f] = task.snap.held[f]
    BY <1>1, <1>4 DEF Addressed
  <2>2. CASE user[f] = "off"
    <3>1. TurnedOn(t, f)'  BY <1>4, <2>2 DEF TurnedOn, Halfway, Undoing, Sanitized
    <3>2. Flickers(f)'  BY <3>1 DEF Flickers
    <3>3. QED  BY <1>2, <1>3, <1>4, <2>2, <3>2
  <2>3. CASE user[f] # "off"
    <3>1. task.snap.held[f] = user[f]  BY <2>3, SetBack
    <3>2. QED  BY <1>2, <1>3, <1>4, <2>1, <3>1
  <2>4. QED  BY <2>2, <2>3
<1>5. CASE Switched(task, f, task.snap.held[f], Sanitized(task.snap, f) # "off")
  <2>1. held' = held /\ os'[f] = IF user[f] # "off" THEN held[f] ELSE "off"
    BY <1>1, <1>5 DEF Switched
  <2>2. CASE user[f] = "off"  BY <1>2, <1>3, <2>1, <2>2
  <2>3. CASE user[f] # "off"
    <3>1. task.half  BY <1>5, <2>3, SetBack DEF Switched
    <3>2. held[f] = user[f]  BY <2>3, <3>1 DEF HeldIsUsers
    <3>3. QED  BY <1>2, <1>3, <2>1, <3>2
  <2>4. QED  BY <2>2, <2>3
<1>6. QED  BY <1>4, <1>5

\* A write of a setting that is not an HTTP one.
LEMMA UndoElsewhere ==
    ASSUME TypeOK, NEW t \in Slot, tasks'[Other(t)] = tasks[Other(t)],
           NEW f \in Field, f = WriteOrder[tasks[t].i], f \notin Http,
           NEW address, NEW on,
           Addressed(tasks[t], f, address) \/ Switched(tasks[t], f, address, on)
    PROVE  \A g \in Http : /\ os'[g] = os[g] /\ held'[g] = held[g]
                           /\ Flickers(g) => Flickers(g)'
<1>1. os \in [Field -> Value] /\ held \in [Field -> Address]  BY DEF TypeOK, Setting
<1>2. \A g \in Field : g # f => os'[g] = os[g] /\ held'[g] = held[g]
  BY <1>1 DEF Addressed, Switched
<1>3. ASSUME NEW g \in Http, Flickers(g) PROVE Flickers(g)'
  <2>1. ~TurnedOn(t, g)  BY <1>3 DEF TurnedOn
  <2>2. QED  BY <1>3, <2>1, FlickersIn, FlickersOn, Slots
<1>4. QED  BY <1>2, <1>3, KindOfFields

\* An operation that is cut and leaves no HTTP setting half written.
LEMMA CutLeavesNone ==
    ASSUME NEW slots, NEW t \in slots, lossCause' = lossCause \cup CutCause(slots),
           "half" \notin lossCause'
    PROVE  \A g \in Http : ~TurnedOn(t, g)
  BY DEF CutCause

\* What a command that puts a setting back may do.
LEMMA UndoKinds ==
    ASSUME TypeOK, Shape, NEW t \in Slot, Undo(t), NEW f \in Field, f = WriteOrder[tasks[t].i]
    PROVE  LET task == tasks[t]
               Writes(x) == \/ Addressed(task, f, task.snap.held[f]) /\ Halfway(x, task)
                            \/ Switched(task, f, task.snap.held[f], Sanitized(task.snap, f) # "off")
           IN
           \E x \in Task :
             /\ tasks' = [tasks EXCEPT ![t] = x]
             /\ \/ /\ Writes(x) /\ Halfway(x, task)
                   /\ UNCHANGED <<mem, disk, lossCause>>
                \/ /\ Writes(x)
                   /\ UNCHANGED <<mem, lossCause>>
                   /\ ~Halfway(x, task)
                   /\ \/ Same(x, task, task.i + 1) /\ disk' = disk
                      \/ /\ task.i = Len(WriteOrder) /\ disk' = NoSnapshot
                         /\ Done(x) \/ Recaptures(x, task)
                \/ /\ UNCHANGED <<os, held, disk>>
                   /\ lossCause' = lossCause \cup CutCause({t})
                   /\ \/ Done(x) /\ mem' \in {mem, NoSnapshot}
                      \/ RollsBack(x) /\ mem' = NoSnapshot /\ task.enable
<1> DEFINE task == tasks[t]
<1>1. PICK x \in Task :
              /\ tasks' = [tasks EXCEPT ![t] = x] /\ Fits(x)
              /\ \/ /\ Addressed(task, f, task.snap.held[f]) /\ Halfway(x, task)
                    /\ UNCHANGED <<mem, disk, lossCause>>
                 \/ /\ Switched(task, f, task.snap.held[f], Sanitized(task.snap, f) # "off")
                    /\ UNCHANGED <<mem, lossCause>>
                    /\ \/ Same(x, task, task.i + 1) /\ disk' = disk
                       \/ /\ task.i = Len(WriteOrder) /\ disk' = NoSnapshot
                          /\ Done(x) \/ Recaptures(x, task)
                 \/ /\ UNCHANGED <<os, held, disk>>
                    /\ lossCause' = lossCause \cup CutCause({t})
                    /\ \/ Done(x) /\ mem' \in {mem, NoSnapshot}
                       \/ RollsBack(x) /\ mem' = NoSnapshot /\ task.enable
  BY UndoEffect
<1>2. Halfway(x, task) => ~Same(x, task, task.i + 1) /\ ~Done(x) /\ ~Recaptures(x, task)
  BY <1>1 DEF Halfway, Same, Done, Recaptures, Fits, Idle
<1>3. QED  BY <1>1, <1>2

LEMMA HttpUndo ==
    ASSUME TypeOK, Shape, HttpInv, NEW t \in Slot, Undo(t), lossCause' \subseteq {"cut"}
    PROVE  HttpSafe'
<1> DEFINE o == Other(t)
           task == tasks[t]
<1>0. PICK f \in Field : f = WriteOrder[task.i]  BY UndoEffect, Orders
<1> DEFINE Writes(x) == \/ Addressed(task, f, task.snap.held[f]) /\ Halfway(x, task)
                        \/ Switched(task, f, task.snap.held[f], Sanitized(task.snap, f) # "off")
<1>1. PICK x \in Task :
         /\ tasks' = [tasks EXCEPT ![t] = x]
         /\ \/ /\ Writes(x) /\ Halfway(x, task)
               /\ UNCHANGED <<mem, disk, lossCause>>
            \/ /\ Writes(x)
               /\ UNCHANGED <<mem, lossCause>>
               /\ ~Halfway(x, task)
               /\ \/ Same(x, task, task.i + 1) /\ disk' = disk
                  \/ /\ task.i = Len(WriteOrder) /\ disk' = NoSnapshot
                     /\ Done(x) \/ Recaptures(x, task)
            \/ /\ UNCHANGED <<os, held, disk>>
               /\ lossCause' = lossCause \cup CutCause({t})
               /\ \/ Done(x) /\ mem' \in {mem, NoSnapshot}
                  \/ RollsBack(x) /\ mem' = NoSnapshot /\ task.enable
  BY <1>0, UndoKinds
<1>2. lossCause \subseteq lossCause'  BY <1>1
<1>3. HttpSafe /\ HttpTask(t)  BY <1>2, CausesGrow DEF HttpSafe
<1>4. task.pc \in {"undo", "rollback"} /\ user' = user /\ Undoing(t)  BY DEF Undo, Undoing
<1>5. tasks'[t] = x /\ tasks'[o] = tasks[o]  BY <1>1, NextTask DEF TypeOK
<1>6. ~tasks[o].enable /\ (task.enable => tasks[o].pc = "idle")  BY <1>3, <1>4, OtherSlot
<1>7. task.i \in 1..Len(WriteOrder) /\ f \in Field /\ task.snap \in Snapshot
  BY <1>0, UndoEffect
<1>8. /\ Covered(task.snap) /\ Holds(task.snap, Http)
      /\ disk \in {task.snap, NoSnapshot}
      /\ \A j \in 1..(task.i - 1) :
            WriteOrder[j] \in Http => os[WriteOrder[j]] = user[WriteOrder[j]] \/ Flickers(WriteOrder[j])
      /\ f \in Http => HeldIsUsers(task)
  BY <1>0, <1>3, <1>4 DEF HttpTask
<1>9. ASSUME Writes(x)
      PROVE  /\ Settles(Http)
             /\ f \in Http /\ ~Halfway(x, task) => os'[f] = user[f]
             /\ f \in Http /\ user[f] # "off" => held'[f] = user[f]
  <2>1. CASE f \in Http
    <3>1. Sanitized(task.snap, f) = user[f]  BY <1>8, <2>1 DEF Holds
    <3>2. HeldIsUsers(task)  BY <1>8, <2>1
    <3>6. tasks[t].i \in 1..Len(WriteOrder) /\ tasks[t].snap \in Snapshot /\ f = WriteOrder[tasks[t].i]
      BY <1>0, <1>7
    <3>7. Sanitized(tasks[t].snap, f) = user[f] /\ HeldIsUsers(tasks[t])  BY <3>1, <3>2
    <3>8. \/ Addressed(tasks[t], f, tasks[t].snap.held[f]) /\ Halfway(x, tasks[t])
          \/ Switched(tasks[t], f, tasks[t].snap.held[f], Sanitized(tasks[t].snap, f) # "off")
      BY <1>9
    <3>9. tasks'[Other(t)] = tasks[Other(t)] /\ f \in Field  BY <1>5, <1>7
    <3> HIDE DEF task, o, Writes
    <3>3. /\ os'[f] = user[f] \/ Flickers(f)'
          /\ user[f] # "off" => held'[f] = user[f]
          /\ Halfway(x, tasks[t]) \/ os'[f] = user[f]
          /\ \A g \in Field : g # f =>
                /\ os'[g] = os[g] /\ held'[g] = held[g]
                /\ Flickers(g) => Flickers(g)'
      BY <1>4, <1>5, <3>6, <3>7, <3>8, <3>9, UndoSettles
    <3>4. Settles(Http)
      <4>1. ASSUME NEW g \in Http
            PROVE  /\ os'[g] = user[g] \/ Flickers(g)' \/ (os'[g] = os[g] /\ ~Flickers(g))
                   /\ held'[g] = held[g] \/ (user[g] # "off" => held'[g] = user[g])
        <5>1. CASE g = f  BY <3>3, <5>1
        <5>2. CASE g # f  BY <3>3, <5>2, KindOfFields
        <5>3. QED  BY <5>1, <5>2
      <4>2. QED  BY <4>1 DEF Settles
    <3>5. QED  BY <3>3, <3>4 DEF task
  <2>2. CASE f \notin Http
    <3>1. \A g \in Http : /\ os'[g] = os[g] /\ held'[g] = held[g]
                          /\ Flickers(g) => Flickers(g)'
      BY <1>0, <1>5, <1>7, <1>9, <2>2, UndoElsewhere
    <3>2. QED  BY <2>2, <3>1 DEF Settles
  <2>3. QED  BY <2>1, <2>2
<1>10. ASSUME Settles(Http)
       PROVE  /\ \A g \in Http : os'[g] \in {user[g], task.snap.endpoint} \/ Flickers(g)'
              /\ \A j \in 1..(task.i - 1) : WriteOrder[j] \in Http =>
                    os'[WriteOrder[j]] = user[WriteOrder[j]] \/ Flickers(WriteOrder[j])'
  <2>1. \A g \in Http : os[g] \in {user[g], task.snap.endpoint} \/ Flickers(g)
    BY <1>8 DEF Covered
  <2>2. \A g \in Http : os'[g] \in {user[g], task.snap.endpoint} \/ Flickers(g)'
    BY <1>10, <2>1, CoveredKept
  <2>3. QED  BY <1>8, <1>10, <2>2 DEF Settles
<1>11. ASSUME Settles(Http), x.pc = task.pc, x.enable = task.enable, x.snap = task.snap, disk' = disk,
              \A j \in 1..(x.i - 1) : WriteOrder[j] \in Http =>
                    os'[WriteOrder[j]] = user[WriteOrder[j]] \/ Flickers(WriteOrder[j])',
              WriteOrder[x.i] \in Http => HeldIsUsers(tasks[t])'
       PROVE  HttpTask(t)' /\ Undoing(t)'
  <2>1. Covered(tasks[t].snap)'  BY <1>4, <1>5, <1>10, <1>11 DEF Covered
  <2>2. Holds(tasks[t].snap, Http)'  BY <1>4, <1>5, <1>8, <1>11 DEF Holds, Sanitized
  <2>3. disk' \in {tasks'[t].snap, NoSnapshot}  BY <1>5, <1>8, <1>11
  <2>4. tasks'[t].enable => tasks'[o].pc = "idle"  BY <1>5, <1>6, <1>11
  <2>5. tasks'[t].pc \in {"undo", "rollback"}  BY <1>4, <1>5, <1>11
  <2>6. \A j \in 1..(tasks'[t].i - 1) : WriteOrder[j] \in Http =>
                os'[WriteOrder[j]] = user'[WriteOrder[j]] \/ Flickers(WriteOrder[j])'
    BY <1>4, <1>5, <1>11
  <2>7. WriteOrder[tasks'[t].i] \in Http => HeldIsUsers(tasks[t])'  BY <1>5, <1>11
  <2>8. Undoing(t)'  BY <2>5 DEF Undoing
  <2>9. HttpTask(t)'  BY <2>1, <2>2, <2>3, <2>4, <2>5, <2>6, <2>7 DEF HttpTask
  <2>10. QED  BY <2>8, <2>9
<1>12. CASE Writes(x) /\ Halfway(x, task) /\ UNCHANGED <<mem, disk, lossCause>>
  <2>1. Settles(Http)  BY <1>9, <1>12
  <2>2. x.pc = task.pc /\ x.enable = task.enable /\ x.snap = task.snap /\ x.i = task.i
    BY <1>12 DEF Halfway
  <2>3. f \in Http => HeldIsUsers(tasks[t])'
    BY <1>0, <1>4, <1>5, <1>9, <1>12, <2>2 DEF HeldIsUsers
  <2>4. HttpTask(t)'  BY <1>0, <1>10, <1>11, <1>12, <2>1, <2>2, <2>3
  <2>5. HttpTask(o)'  BY <1>3, <1>4, <1>5, <1>12, <2>1, OtherGoesOn
  <2>6. QED  BY <1>3, <1>4, <1>12, <2>1, <2>4, <2>5, SettledSafe
<1>13. CASE /\ Writes(x) /\ UNCHANGED <<mem, lossCause>> /\ ~Halfway(x, task)
            /\ \/ Same(x, task, task.i + 1) /\ disk' = disk
               \/ /\ task.i = Len(WriteOrder) /\ disk' = NoSnapshot
                  /\ Done(x) \/ Recaptures(x, task)
  <2>1. Settles(Http)  BY <1>9, <1>13
  <2>2. \A j \in 1..task.i : WriteOrder[j] \in Http =>
            os'[WriteOrder[j]] = user[WriteOrder[j]] \/ Flickers(WriteOrder[j])'
    <3>1. SUFFICES ASSUME NEW j \in 1..task.i, WriteOrder[j] \in Http
                   PROVE  os'[WriteOrder[j]] = user[WriteOrder[j]] \/ Flickers(WriteOrder[j])'
      OBVIOUS
    <3>2. j = task.i \/ j \in 1..(task.i - 1)  BY <1>7, Lengths
    <3>3. CASE j = task.i  BY <1>0, <1>9, <1>13, <3>1, <3>3
    <3>4. CASE j \in 1..(task.i - 1)  BY <1>10, <2>1, <3>1, <3>4
    <3>5. QED  BY <3>2, <3>3, <3>4
  <2>3. CASE Same(x, task, task.i + 1) /\ disk' = disk
    <3>1. x.pc = task.pc /\ x.enable = task.enable /\ x.snap = task.snap /\ x.i - 1 = task.i
          /\ ~x.half
      BY <1>7, <2>3, Lengths DEF Same
    <3>2. HeldIsUsers(tasks[t])'  BY <1>5, <3>1 DEF HeldIsUsers
    <3>3. HttpTask(t)'  BY <1>11, <2>1, <2>2, <2>3, <3>1, <3>2
    <3>4. HttpTask(o)'  BY <1>3, <1>4, <1>5, <1>13, <2>1, <2>3, OtherGoesOn
    <3>5. QED  BY <1>3, <1>4, <1>13, <2>1, <2>3, <3>3, <3>4, SettledSafe
  <2>4. CASE /\ task.i = Len(WriteOrder) /\ disk' = NoSnapshot
             /\ Done(x) \/ Recaptures(x, task)
    <3>1. HttpKept'
      <4>1. SUFFICES ASSUME NEW g \in Http PROVE os'[g] = user[g] \/ Flickers(g)'
        BY <1>4 DEF HttpKept
      <4>2. PICK j \in 1..Len(WriteOrder) : WriteOrder[j] = g  BY Orders, KindOfFields
      <4>3. j \in 1..task.i  BY <2>4
      <4>4. QED  BY <2>2, <4>2, <4>3
    <3>2. HttpTask(t)' /\ ~Undoing(t)'
      BY <1>3, <1>4, <1>5, <2>4, DoneIsSafe, RecapturesSafe
    <3>3. HttpTask(o)'  BY <1>3, <1>4, <1>5, <1>13, <2>1, <2>4, <3>2, OtherGoesOn
    <3>4. QED  BY <1>3, <1>4, <1>13, <2>1, <2>4, <3>1, <3>2, <3>3, SettledSafe
  <2>5. QED  BY <1>13, <2>3, <2>4
<1>14. CASE /\ UNCHANGED <<os, held, disk>>
            /\ lossCause' = lossCause \cup CutCause({t})
            /\ \/ Done(x) /\ mem' \in {mem, NoSnapshot}
               \/ RollsBack(x) /\ mem' = NoSnapshot /\ task.enable
  <2>1. \A g \in Http : ~TurnedOn(t, g)  BY <1>14, CutLeavesNone
  <2>2. Settles(Http)  BY <1>5, <1>14, <2>1, SettlesUnwritten
  <2>3. HttpTask(t)'
    BY <1>3, <1>4, <1>5, <1>14, <2>2, DoneIsSafe, RollsBackSafe
  <2>4. Undoing(t)' => task.enable  BY <1>5, <1>14, DoneIsSafe
  <2>5. HttpTask(o)'  BY <1>3, <1>4, <1>5, <1>14, <2>2, <2>4, OtherGoesOn
  <2>6. QED  BY <1>3, <1>4, <1>14, <2>2, <2>3, <2>5, SettledSafe
<1>15. QED  BY <1>1, <1>12, <1>13, <1>14

\* A task whose other slot is idle is alone.
LEMMA AloneSafe ==
    ASSUME NEW t \in Slot, tasks'[Other(t)] = Idle
    PROVE  HttpTask(Other(t))'
  BY DEF Idle, HttpTask, Undoing

LEMMA OtherIdle ==
    ASSUME TypeOK, Shape, HttpSafe, NEW t \in Slot, tasks[t].enable, tasks[t].pc # "idle"
    PROVE  tasks[Other(t)] = Idle
  BY OtherSlot, Slots DEF Shape, Fits

LEMMA NoneFlickers ==
    ASSUME NEW t \in Slot, tasks[Other(t)] = Idle, ~Undoing(t)
    PROVE  \A f : ~Flickers(f)
<1>1. ~Undoing(Other(t))  BY DEF Undoing, Idle
<1>2. QED  BY <1>1, FlickersIn DEF TurnedOn

LEMMA HttpCapture ==
    ASSUME TypeOK, Shape, HttpInv, NEW t \in Slot, Capture(t), lossCause' \subseteq {"cut"}
    PROVE  HttpSafe'
<1> DEFINE o == Other(t)
           task == tasks[t]
           f == ReadOrder[task.i]
           snap == [task.snap EXCEPT !.set[f] = os[f], !.held[f] = held[f]]
<1>1. UNCHANGED <<os, held, user, lossCause>> /\ task.pc = "capture"  BY DEF Capture
<1>2. HttpSafe  BY <1>1, CausesGrow
<1>3. task.enable /\ task.i \in 1..Len(WriteOrder) /\ snap \in Snapshot /\ task.snap \in Snapshot
  BY CaptureEffect
<1>4. PICK x \in Task :
         /\ tasks' = [tasks EXCEPT ![t] = x]
         /\ \/ /\ x.pc = "capture" /\ x.enable /\ x.i = task.i + 1 /\ x.snap = snap
               /\ UNCHANGED <<disk, mem>>
            \/ /\ task.i = Len(WriteOrder)
               /\ x.pc = "apply" /\ x.enable /\ x.i = 1 /\ ~x.half /\ x.snap = snap
               /\ disk' = snap /\ mem' = snap
            \/ /\ Done(x) \/ RollsBack(x)
               /\ disk' = disk /\ mem' = NoSnapshot
  BY CaptureEffect
<1>5. tasks'[t] = x /\ tasks'[o] = Idle /\ tasks[o] = Idle
  BY <1>1, <1>2, <1>3, <1>4, NextTask, OtherIdle DEF TypeOK
<1>6. HttpTask(o)' /\ tasks'[o].pc = "idle"
  <2>1. HttpTask(o)'  BY <1>5, AloneSafe
  <2>2. QED  BY <1>5, <2>1 DEF Idle
<1>15. ~Undoing(t)  BY <1>1 DEF Undoing
<1>16. Settles(Http)
  <2>1. \A g \in Http : ~TurnedOn(t, g)  BY <1>15 DEF TurnedOn
  <2>2. QED  BY <1>1, <1>5, <2>1, SettlesUnwritten
<1>7. /\ disk = NoSnapshot
      /\ \A g \in Http : os[g] = user[g]
      /\ \A j \in 1..(task.i - 1) : task.snap.set[ReadOrder[j]] = os[ReadOrder[j]]
  <2>1. disk = NoSnapshot
        /\ \A j \in 1..(task.i - 1) : task.snap.set[ReadOrder[j]] = os[ReadOrder[j]]
    BY <1>1, <1>2 DEF HttpSafe, HttpTask
  <2>2. \A g : ~Flickers(g)  BY <1>5, <1>15, NoneFlickers
  <2>3. QED  BY <1>2, <2>1, <2>2 DEF HttpSafe, HttpKept
<1>8. f \in Field /\ snap.set[f] = os[f] /\ snap.endpoint = task.snap.endpoint
      /\ \A g \in Field : g # f => snap.set[g] = task.snap.set[g]
  <2>1. f \in Field  BY <1>3, Orders
  <2>2. QED  BY <1>3, <2>1 DEF Snapshot, Setting
<1> HIDE DEF snap
<1>9. \A j \in 1..task.i : snap.set[ReadOrder[j]] = os[ReadOrder[j]]
  <2>1. SUFFICES ASSUME NEW j \in 1..task.i PROVE snap.set[ReadOrder[j]] = os[ReadOrder[j]]
    OBVIOUS
  <2>2. j = task.i \/ j \in 1..(task.i - 1)  BY <1>3, Lengths
  <2>3. j \in 1..Len(WriteOrder)  BY <1>3, Lengths
  <2>4. ReadOrder[j] \in Field  BY <2>3, Orders
  <2>5. QED  BY <1>7, <1>8, <2>2, <2>4
<1>10. CASE /\ x.pc = "capture" /\ x.enable /\ x.i = task.i + 1 /\ x.snap = snap
            /\ UNCHANGED <<disk, mem>>
  <2>1. \A j \in 1..(x.i - 1) : snap.set[ReadOrder[j]] = os[ReadOrder[j]]
    BY <1>3, <1>9, <1>10, Lengths
  <2>2. HttpTask(t)'  BY <1>1, <1>5, <1>6, <1>7, <1>10, <2>1 DEF HttpTask, Undoing
  <2>3. QED  BY <1>1, <1>2, <1>6, <1>10, <1>16, <2>2, SettledSafe
<1>11. CASE /\ task.i = Len(WriteOrder)
            /\ x.pc = "apply" /\ x.enable /\ x.i = 1 /\ ~x.half /\ x.snap = snap
            /\ disk' = snap /\ mem' = snap
  <2>1. ASSUME NEW g \in Field PROVE snap.set[g] = os[g]
    <3>1. PICK j \in 1..Len(WriteOrder) : ReadOrder[j] = g  BY Orders
    <3>2. j \in 1..task.i  BY <1>11
    <3>3. QED  BY <1>9, <3>1, <3>2
  <2>2. \A g \in Http : snap.set[g] = user[g] /\ user[g] # snap.endpoint
    BY <1>3, <1>7, <2>1, KindOfFields, UserIsNotManaged
  <2>3. HttpTask(t)'  BY <1>5, <1>6, <1>11 DEF HttpTask, Undoing
  <2>4. Covered(disk)' /\ Holds(disk, Http)' /\ Covered(mem)' /\ Holds(mem, Http)'
    BY <1>1, <1>7, <1>11, <2>2 DEF Covered, Holds, Sanitized
  <2>5. disk' # NoSnapshot /\ disk' = mem'  BY <1>3, <1>11, NoSnapshotIsNone
  <2>6. \A s \in Slot : HttpTask(s)'  BY <1>6, <2>3, Slots
  <2>7. QED  BY <2>4, <2>5, <2>6 DEF HttpSafe
<1>12. CASE (Done(x) \/ RollsBack(x)) /\ disk' = disk /\ mem' = NoSnapshot
  <2>1. tasks'[o] = tasks[o]  BY <1>5
  <2>2. HttpTask(t)'
    BY <1>1, <1>2, <1>3, <1>5, <1>12, <1>16, <2>1, DoneIsSafe, RollsBackSafe
  <2>3. QED  BY <1>1, <1>2, <1>6, <1>12, <1>16, <2>2, SettledSafe
<1>13. QED  BY <1>4, <1>10, <1>11, <1>12

LEMMA HttpApply ==
    ASSUME TypeOK, Shape, HttpInv, NEW t \in Slot, Apply(t), lossCause' \subseteq {"cut"}
    PROVE  HttpSafe'
<1> DEFINE o == Other(t)
           task == tasks[t]
           f == WriteOrder[task.i]
           address == IF f \in Http THEN task.snap.endpoint ELSE task.snap.held[f]
<1>1. UNCHANGED <<disk, user, lossCause>> /\ task.pc = "apply"  BY DEF Apply
<1>2. HttpSafe  BY <1>1, CausesGrow
<1>3. task.enable /\ task.i \in 1..Len(WriteOrder) /\ task.snap \in Snapshot
  BY ApplyEffect
<1>4. PICK x \in Task :
         /\ tasks' = [tasks EXCEPT ![t] = x]
         /\ \/ /\ Addressed(task, f, address) /\ Halfway(x, task) /\ mem' = mem
            \/ /\ \/ f \notin Http /\ UNCHANGED <<os, held>>
                  \/ Switched(task, f, address, f \in Http)
               /\ mem' = mem
               /\ Same(x, task, task.i + 1) \/ Done(x)
            \/ /\ UNCHANGED <<os, held>> /\ mem' = NoSnapshot
               /\ Done(x) \/ RollsBack(x)
  BY ApplyEffect
<1>5. tasks'[t] = x /\ tasks'[o] = Idle /\ tasks[o] = Idle
  BY <1>1, <1>2, <1>3, <1>4, NextTask, OtherIdle DEF TypeOK
<1>6. HttpTask(o)' /\ tasks'[o].pc = "idle"
  <2>1. HttpTask(o)'  BY <1>5, AloneSafe
  <2>2. QED  BY <1>5, <2>1 DEF Idle
<1>7. /\ disk = task.snap /\ mem = task.snap /\ disk # NoSnapshot /\ mem # NoSnapshot
      /\ task.half /\ f \in Http => held[f] = task.snap.endpoint
  BY <1>1, <1>2, <1>3, NoSnapshotIsNone DEF HttpSafe, HttpTask
<1>8. ~Undoing(t)  BY <1>1 DEF Undoing
<1>9. Holds(mem, Http) /\ \A g \in Http : os[g] \in {user[g], task.snap.endpoint}
  <2>1. \A g : ~Flickers(g)  BY <1>5, <1>8, NoneFlickers
  <2>2. QED  BY <1>2, <1>7, <2>1 DEF HttpSafe, Covered
<1>10. f \in Field  BY <1>3, Orders
<1>11. os \in [Field -> Value] /\ held \in [Field -> Address]  BY DEF TypeOK, Setting
<1>12. task.snap.endpoint # "none"  BY <1>3, ValuesAssumption DEF Snapshot
<1>13. ASSUME mem' = mem, \A g \in Http : os'[g] \in {os[g], task.snap.endpoint}, HttpTask(t)'
       PROVE  HttpSafe'
  <2>1. \A g \in Http : os'[g] \in {user[g], task.snap.endpoint}  BY <1>9, <1>13
  <2>2. Covered(disk)' /\ Holds(disk, Http)' /\ Covered(mem)' /\ Holds(mem, Http)'
    BY <1>1, <1>7, <1>9, <1>13, <2>1 DEF Covered, Holds, Sanitized
  <2>3. disk' # NoSnapshot /\ disk' = mem'  BY <1>1, <1>7, <1>13
  <2>4. \A s \in Slot : HttpTask(s)'  BY <1>6, <1>13, Slots
  <2>5. QED  BY <2>2, <2>3, <2>4 DEF HttpSafe
<1>14. CASE Addressed(task, f, address) /\ Halfway(x, task) /\ mem' = mem
  <2>1. \A g \in Http : os'[g] \in {os[g], task.snap.endpoint}
    BY <1>10, <1>11, <1>14, KindOfFields DEF Addressed
  <2>2. f \in Http => held'[f] = task.snap.endpoint
    BY <1>10, <1>11, <1>14 DEF Addressed
  <2>3. HttpTask(t)'
    BY <1>1, <1>5, <1>6, <1>7, <1>14, <2>2 DEF HttpTask, Undoing, Halfway
  <2>4. QED  BY <1>13, <1>14, <2>1, <2>3
<1>15. CASE /\ \/ f \notin Http /\ UNCHANGED <<os, held>>
               \/ Switched(task, f, address, f \in Http)
            /\ mem' = mem
            /\ Same(x, task, task.i + 1) \/ Done(x)
  <2>1. \A g \in Http : os'[g] \in {os[g], task.snap.endpoint}
    <3>1. CASE UNCHANGED <<os, held>>  BY <3>1
    <3>2. CASE Switched(task, f, address, f \in Http)
      <4>1. ASSUME f \in Http PROVE os'[f] = task.snap.endpoint
        <5>1. task.half  BY <1>12, <3>2, <4>1 DEF Switched
        <5>2. QED  BY <1>7, <1>10, <1>11, <3>2, <4>1, <5>1 DEF Switched
      <4>2. \A g \in Field : g # f => os'[g] = os[g]  BY <1>11, <3>2 DEF Switched
      <4>3. QED  BY <4>1, <4>2, KindOfFields
    <3>3. QED  BY <1>15, <3>1, <3>2
  <2>2. HttpTask(t)'
    <3>1. CASE Same(x, task, task.i + 1)
      BY <1>1, <1>5, <1>6, <1>7, <1>15, <3>1 DEF HttpTask, Undoing, Same
    <3>2. CASE Done(x)  BY <1>5, <3>2, DoneIsSafe
    <3>3. QED  BY <1>15, <3>1, <3>2
  <2>3. QED  BY <1>13, <1>15, <2>1, <2>2
<1>16. CASE UNCHANGED <<os, held>> /\ mem' = NoSnapshot /\ (Done(x) \/ RollsBack(x))
  <2>1. \A g \in Http : ~TurnedOn(t, g)  BY <1>8 DEF TurnedOn
  <2>2. tasks'[o] = tasks[o]  BY <1>5
  <2>3. Settles(Http)  BY <1>16, <2>1, <2>2, SettlesUnwritten
  <2>4. HttpTask(t)'
    BY <1>1, <1>2, <1>3, <1>5, <1>16, <2>2, <2>3, DoneIsSafe, RollsBackSafe
  <2>5. QED  BY <1>1, <1>2, <1>6, <1>16, <2>3, <2>4, SettledSafe
<1>17. QED  BY <1>4, <1>14, <1>15, <1>16

\* A restore that begins in slot t, and the same for a quit and an enable.
LEMMA BegunIsSafe ==
    ASSUME TypeOK, Shape, HttpSafe, NEW t \in Slot,
           \/ tasks'[t].pc = "resume"
           \/ tasks'[t].pc = "undo" /\ mem # NoSnapshot /\ tasks'[t].snap = mem
           \/ tasks'[t].pc = "check" /\ disk # NoSnapshot /\ tasks'[t].snap = disk
           \/ tasks'[t].pc = "capture" /\ disk = NoSnapshot,
           tasks'[t].i = 1, ~tasks'[t].half,
           tasks'[t].enable => tasks'[Other(t)].pc = "idle",
           tasks'[t].pc = "check" => tasks'[t].enable \/ mem' = NoSnapshot,
           UNCHANGED <<disk, user>>, Settles(Http)
    PROVE  HttpTask(t)'
<1>1. CASE tasks'[t].pc = "undo" /\ mem # NoSnapshot /\ tasks'[t].snap = mem
  <2>1. Covered(mem) /\ Holds(mem, Http) /\ disk \in {mem, NoSnapshot}  BY <1>1 DEF HttpSafe
  <2>2. \A f \in Http : os'[f] \in {user[f], mem.endpoint} \/ Flickers(f)'
    <3>1. \A f \in Http : os[f] \in {user[f], mem.endpoint} \/ Flickers(f)
      BY <2>1 DEF Covered
    <3>2. QED  BY <3>1, CoveredKept
  <2>3. Covered(tasks[t].snap)'  BY <1>1, <2>2 DEF Covered
  <2>4. Holds(tasks[t].snap, Http)'  BY <1>1, <2>1 DEF Holds, Sanitized
  <2>5. HeldIsUsers(tasks[t])'  BY DEF HeldIsUsers
  <2>6. disk' \in {tasks'[t].snap, NoSnapshot}  BY <1>1, <2>1
  <2>7. QED  BY <1>1, <2>3, <2>4, <2>5, <2>6 DEF HttpTask
<1>2. CASE tasks'[t].pc # "undo"
  BY <1>2 DEF HttpTask, Undoing
<1>3. QED  BY <1>1, <1>2

LEMMA HttpBegin ==
    ASSUME TypeOK, Shape, HttpSafe, NEW t \in Slot, NEW x \in Task, ~Undoing(t),
           tasks' = [tasks EXCEPT ![t] = x], x.i = 1, ~x.half,
           \/ x.pc = "resume"
           \/ x.pc = "undo" /\ mem # NoSnapshot /\ x.snap = mem
           \/ x.pc = "check" /\ disk # NoSnapshot /\ x.snap = disk
           \/ x.pc = "capture" /\ disk = NoSnapshot,
           UNCHANGED <<os, held, disk, user>>, mem' \in {mem, NoSnapshot},
           x.pc = "check" => x.enable \/ mem' = NoSnapshot,
           tasks[Other(t)].pc = "idle" \/ (~x.enable /\ ~tasks[Other(t)].enable)
    PROVE  HttpSafe'
<1> DEFINE o == Other(t)
<1>1. /\ tasks'[t] = x /\ tasks'[o] = tasks[o] /\ o \in Slot /\ Other(o) = t
  BY NextTask, Slots DEF TypeOK
<1>2. Settles(Http)
  <2>1. \A f \in Http : ~TurnedOn(t, f)  BY DEF TurnedOn
  <2>2. QED  BY <1>1, <2>1, SettlesUnwritten
<1>3. HttpTask(t)'  BY <1>1, <1>2, BegunIsSafe
<1>4. ~tasks[o].enable
  <2>1. tasks[o].pc = "idle" => tasks[o] = Idle  BY <1>1 DEF Shape, Fits
  <2>2. QED  BY <2>1 DEF Idle
<1>5. ASSUME tasks[o].pc = "check", Undoing(t)' PROVE disk' # NoSnapshot
  <2>1. mem = NoSnapshot  BY <1>1, <1>4, <1>5 DEF HttpSafe, HttpTask
  <2>2. QED  BY <1>1, <1>5, <2>1 DEF Undoing
<1>6. HttpTask(o)'  BY <1>1, <1>2, <1>4, <1>5, OtherTaskSafe
<1>7. QED  BY <1>2, <1>3, <1>6, SettledSafe

LEMMA NotRaced ==
    ASSUME TypeOK, NEW t \in Slot, NEW task, lossCause' = lossCause \cup RaceCause(t, task),
           lossCause' \subseteq {"cut"}
    PROVE  /\ lossCause \subseteq lossCause'
           /\ \/ tasks[Other(t)].pc = "idle"
              \/ ~Enabling(task) /\ ~Enabling(tasks[Other(t)])
  BY RaceEffect

LEMMA HttpRestore ==
    ASSUME TypeOK, Shape, HttpInv, NEW t \in Slot, NEW then \in Then, BeginRestore(t, then),
           ~Undoing(t), UNCHANGED <<os, held, disk, user>>, lossCause' \subseteq {"cut"}
    PROVE  HttpSafe'
<1>1. PICK x \in Task :
         /\ tasks' = [tasks EXCEPT ![t] = x] /\ ~x.enable /\ x.i = 1 /\ ~x.half
         /\ \/ x.pc = "resume"
            \/ x.pc = "undo" /\ mem # NoSnapshot /\ x.snap = mem
            \/ x.pc = "check" /\ disk # NoSnapshot /\ x.snap = disk
  BY BeginRestoreEffect
<1>2. PICK task : lossCause' = lossCause \cup RaceCause(t, task)  BY DEF BeginRestore
<1>3. /\ lossCause \subseteq lossCause'
      /\ tasks[Other(t)].pc = "idle" \/ ~Enabling(tasks[Other(t)])
  BY <1>2, NotRaced
<1>4. HttpSafe  BY <1>3, CausesGrow
<1>5. mem' = NoSnapshot  BY DEF BeginRestore
<1>6. tasks[Other(t)].pc = "idle" \/ (~x.enable /\ ~tasks[Other(t)].enable)
  BY <1>1, <1>3 DEF Enabling
<1>7. QED  BY <1>1, <1>4, <1>5, <1>6, HttpBegin

LEMMA HttpEnable ==
    ASSUME TypeOK, Shape, HttpInv, NEW t \in Slot, BeginEnable(t), ~Undoing(t),
           UNCHANGED <<os, held, disk, user>>, lossCause' \subseteq {"cut"}
    PROVE  HttpSafe'
<1> DEFINE task == [pc |-> "check", enable |-> TRUE, i |-> 1, half |-> FALSE, snap |-> disk,
                    then |-> "nothing"]
<1>1. PICK x \in Task :
         /\ tasks' = [tasks EXCEPT ![t] = x] /\ x.enable /\ x.i = 1 /\ ~x.half
         /\ \/ x.pc = "capture" /\ disk = NoSnapshot
            \/ x.pc = "check" /\ disk # NoSnapshot /\ x.snap = disk
  BY BeginEnableEffect
<1>2. lossCause' = lossCause \cup RaceCause(t, task) /\ mem' = mem  BY DEF BeginEnable
<1>3. Enabling(task)  BY DEF Enabling
<1> HIDE DEF task
<1>4. lossCause \subseteq lossCause' /\ tasks[Other(t)].pc = "idle"  BY <1>2, <1>3, NotRaced
<1>5. HttpSafe  BY <1>4, CausesGrow
<1>6. QED  BY <1>1, <1>2, <1>4, <1>5, HttpBegin

LEMMA HttpEnded ==
    ASSUME TypeOK, Shape, HttpInv, Ended, lossCause' \subseteq {"cut"}
    PROVE  HttpSafe'
<1>1. lossCause \subseteq lossCause'  BY DEF Ended
<1>2. HttpSafe  BY <1>1, CausesGrow
<1>3. UNCHANGED <<os, held, disk, user>> /\ mem' = NoSnapshot /\ (\A t \in Slot : tasks'[t] = Idle)
  BY DEF Ended
<1>4. \A t \in Slot : HttpTask(t)'  BY <1>3, DoneIsSafe DEF Done
<1>5. ASSUME NEW f \in Http PROVE ~Flickers(f)
  <2>1. lossCause' = lossCause \cup CutCause(Slot) /\ "half" \notin lossCause'  BY DEF Ended
  <2>2. ASSUME NEW t \in Slot PROVE ~TurnedOn(t, f)  BY <2>1, CutLeavesNone
  <2>3. QED  BY <2>2 DEF Flickers
<1>6. Settles(Http)  BY <1>3, <1>5 DEF Settles
<1>7. "main" \in Slot /\ Other("main") \in Slot  BY DEF Slot, Other
<1>8. QED  BY <1>2, <1>3, <1>4, <1>6, <1>7, SettledSafe

LEMMA HttpResume ==
    ASSUME TypeOK, Shape, HttpInv, NEW t \in Slot, Resume(t), lossCause' \subseteq {"cut"}
    PROVE  HttpSafe'
<1>1. tasks[t].pc = "resume" /\ ~Undoing(t)  BY DEF Resume, Undoing
<1>2. CASE tasks' = [tasks EXCEPT ![t] = Idle]
           /\ UNCHANGED <<os, held, disk, app, mem, endpoint, seen, user, lossCause>>
  <2>1. HttpSafe  BY <1>2, CausesGrow
  <2>2. tasks'[t] = Idle /\ tasks'[Other(t)] = tasks[Other(t)]  BY <1>2, NextTask, IdleTask DEF TypeOK
  <2>3. HttpTask(t)' /\ ~Undoing(t)'  BY <2>2, DoneIsSafe DEF Done
  <2>4. Settles(Http)
    <3>1. \A f \in Http : ~TurnedOn(t, f)  BY <1>1 DEF TurnedOn
    <3>2. QED  BY <1>2, <2>2, <3>1, SettlesUnwritten
  <2>5. HttpTask(Other(t))'  BY <1>1, <1>2, <2>1, <2>2, <2>3, <2>4, OtherGoesOn
  <2>6. QED  BY <1>2, <2>1, <2>3, <2>4, <2>5, SettledSafe
<1>3. CASE BeginEnable(t) /\ UNCHANGED <<os, held, disk, app, endpoint, user>>
  BY <1>1, <1>3, HttpEnable
<1>4. CASE Ended  BY <1>4, HttpEnded
<1>5. QED  BY <1>2, <1>3, <1>4 DEF Resume

\* An operation that is overtaken takes what it has half written with it.
LEMMA SettlesOvertaken ==
    ASSUME UNCHANGED <<os, held>>, tasks["late"].pc = "idle", Moved(tasks'["late"], tasks["main"]),
           NEW fields
    PROVE  Settles(fields)
<1>1. "main" \in Slot /\ "late" \in Slot /\ Other("main") = "late"  BY DEF Slot, Other
<1>2. ASSUME NEW f \in fields, Flickers(f) PROVE Flickers(f)'
  <2>1. TurnedOn("main", f)
    <3>1. ~TurnedOn("late", f)  BY DEF TurnedOn, Undoing
    <3>2. QED  BY <1>1, <1>2, <3>1, FlickersIn
  <2>2. TurnedOn("late", f)'  BY <2>1 DEF TurnedOn, Undoing, Moved, Sanitized
  <2>3. QED  BY <1>1, <2>2 DEF Flickers
<1>3. QED  BY <1>2 DEF Settles

\* And is as safe there.
LEMMA OvertakenSafe ==
    ASSUME TypeOK, Shape, HttpSafe, Moved(tasks'["late"], tasks["main"]), ~tasks["main"].enable,
           UNCHANGED <<os, held, disk, user>>, mem' \in {mem, NoSnapshot}, Settles(Http),
           tasks["main"].pc = "check" /\ Undoing("main")' => disk' # NoSnapshot
    PROVE  HttpTask("late")'
<1> DEFINE old == tasks["main"]
           new == tasks'["late"]
<1>1. "main" \in Slot /\ "late" \in Slot /\ Other("main") = "late" /\ Other("late") = "main"
  BY DEF Slot, Other
<1>2. old \in Task /\ Fits(old) /\ HttpTask("main")  BY <1>1 DEF TypeOK, Shape, HttpSafe
<1>3. /\ new.pc = old.pc /\ new.enable = old.enable /\ new.snap = old.snap
      /\ new.i = old.i /\ new.half = old.half
  BY DEF Moved
<1>4. old.pc \notin {"rollback", "capture", "apply"}  BY <1>2 DEF Fits
<1>5. CASE old.pc = "check"
  <2>1. old.snap \in Snapshot /\ old.i \in Nat /\ old.i <= Len(CheckOrder)
    BY <1>2, <1>5 DEF Fits, Task
  <2>2. /\ disk \in {old.snap, NoSnapshot} /\ mem = NoSnapshot
        /\ \A j \in 1..(old.i - 1) :
              os[CheckOrder[j]] # old.snap.endpoint \/ Flickers(CheckOrder[j])
    BY <1>2, <1>5 DEF HttpTask
  <2>3. ASSUME NEW j \in 1..(old.i - 1)
        PROVE  os'[CheckOrder[j]] # old.snap.endpoint \/ Flickers(CheckOrder[j])'
    <3>1. j \in 1..Len(CheckOrder)  BY <2>1, Lengths
    <3>2. CheckOrder[j] \in Http /\ CheckOrder[j] \in Field  BY <3>1, Orders, KindOfFields
    <3>3. user[CheckOrder[j]] # old.snap.endpoint  BY <2>1, <3>2, UserIsNotManaged
    <3>4. QED  BY <2>2, <3>2, <3>3 DEF Settles
  <2>4. ~Undoing("late")'  BY <1>3, <1>5 DEF Undoing
  <2>5. disk' \in {new.snap, NoSnapshot} /\ mem' = NoSnapshot  BY <1>3, <2>2
  <2>6. QED  BY <1>1, <1>3, <1>5, <2>3, <2>4, <2>5 DEF HttpTask
<1>6. CASE old.pc = "undo"
  <2>1. /\ Covered(old.snap) /\ Holds(old.snap, Http) /\ disk \in {old.snap, NoSnapshot}
        /\ \A j \in 1..(old.i - 1) :
              WriteOrder[j] \in Http => os[WriteOrder[j]] = user[WriteOrder[j]] \/ Flickers(WriteOrder[j])
        /\ WriteOrder[old.i] \in Http => HeldIsUsers(old)
    BY <1>2, <1>6 DEF HttpTask, Undoing
  <2>2. \A f \in Http : os'[f] \in {user[f], old.snap.endpoint} \/ Flickers(f)'
    <3>1. \A f \in Http : os[f] \in {user[f], old.snap.endpoint} \/ Flickers(f)
      BY <2>1 DEF Covered
    <3>2. QED  BY <3>1, CoveredKept
  <2>3. Covered(tasks["late"].snap)'  BY <1>3, <2>2 DEF Covered
  <2>4. Holds(tasks["late"].snap, Http)'  BY <1>3, <2>1 DEF Holds, Sanitized
  <2>5. \A j \in 1..(old.i - 1) :
           WriteOrder[j] \in Http => os'[WriteOrder[j]] = user[WriteOrder[j]] \/ Flickers(WriteOrder[j])'
    BY <2>1 DEF Settles
  <2>6. WriteOrder[new.i] \in Http => HeldIsUsers(tasks["late"])'
    BY <1>3, <2>1 DEF HeldIsUsers
  <2>7. disk' \in {new.snap, NoSnapshot}  BY <1>3, <2>1
  <2>8. QED  BY <1>3, <1>6, <2>3, <2>4, <2>5, <2>6, <2>7 DEF HttpTask, Undoing
<1>7. CASE old.pc \notin {"check", "undo"}
  BY <1>3, <1>4, <1>7 DEF HttpTask, Undoing
<1>8. QED  BY <1>5, <1>6, <1>7

LEMMA HttpQuit ==
    ASSUME TypeOK, Shape, HttpInv, Quit, lossCause' \subseteq {"cut"}
    PROVE  HttpSafe'
<1> DEFINE old == tasks["main"]
<1>1. PICK x \in Task :
         /\ tasks' = [main |-> x, late |-> old] /\ ~x.enable /\ x.i = 1 /\ ~x.half
         /\ \/ x.pc = "resume"
            \/ x.pc = "undo" /\ mem # NoSnapshot /\ x.snap = mem
            \/ x.pc = "check" /\ disk # NoSnapshot /\ x.snap = disk
  BY QuitEffect
<1>2. /\ lossCause \subseteq lossCause' /\ UNCHANGED <<os, held, disk, user>> /\ mem' = NoSnapshot
      /\ old.pc = "idle" \/ ~Enabling(old)
      /\ tasks["late"].pc = "idle"
  BY DEF Quit
<1>3. HttpSafe  BY <1>2, CausesGrow
<1>4. "main" \in Slot /\ "late" \in Slot /\ Other("main") = "late" /\ Other("late") = "main"
  BY DEF Slot, Other
<1>5. old \in Task /\ Fits(old) /\ HttpTask("main")  BY <1>3, <1>4 DEF TypeOK, Shape, HttpSafe
<1>6. tasks'["main"] = x /\ tasks'["late"] = old /\ Moved(tasks'["late"], old)
  BY <1>1, <1>5, TwoTasks DEF Moved
<1>7. ~old.enable
  <2>1. old.pc = "idle" => old = Idle  BY <1>5 DEF Fits
  <2>2. QED  BY <1>2, <2>1 DEF Enabling, Idle
<1>8. Settles(Http)  BY <1>2, <1>6, SettlesOvertaken
<1>9. HttpTask("main")'  BY <1>1, <1>2, <1>3, <1>4, <1>6, <1>8, BegunIsSafe
<1>10. ASSUME old.pc = "check", Undoing("main")' PROVE disk' # NoSnapshot
  <2>1. mem = NoSnapshot  BY <1>5, <1>7, <1>10 DEF HttpTask
  <2>2. QED  BY <1>1, <1>6, <1>10, <2>1 DEF Undoing
<1>11. HttpTask("late")'  BY <1>2, <1>3, <1>6, <1>7, <1>8, <1>10, OvertakenSafe
<1>12. QED  BY <1>2, <1>3, <1>4, <1>8, <1>9, <1>11, SettledSafe

LEMMA HttpTimeOut ==
    ASSUME TypeOK, Shape, HttpInv, TimeOut, lossCause' \subseteq {"cut"}
    PROVE  HttpSafe'
<1> DEFINE old == tasks["main"]
<1>1. PICK x \in Task, y \in Task :
         /\ tasks' = [main |-> x, late |-> y] /\ x.pc = "resume" /\ ~x.enable
         /\ Moved(y, old) /\ ~y.enable
  BY TimeOutEffect
<1>2. /\ UNCHANGED <<os, held, disk, mem, user, lossCause>> /\ ~old.enable
      /\ tasks["late"].pc = "idle"
  BY DEF TimeOut
<1>3. HttpSafe  BY <1>2, CausesGrow
<1>4. "main" \in Slot /\ "late" \in Slot /\ Other("main") = "late" /\ Other("late") = "main"
  BY DEF Slot, Other
<1>5. tasks'["main"] = x /\ tasks'["late"] = y  BY <1>1, TwoTasks
<1>6. Settles(Http)  BY <1>1, <1>2, <1>5, SettlesOvertaken
<1>7. HttpTask("main")' /\ ~Undoing("main")'  BY <1>1, <1>5 DEF HttpTask, Undoing
<1>8. HttpTask("late")'
  BY <1>1, <1>2, <1>3, <1>5, <1>6, <1>7, OvertakenSafe
<1>9. QED  BY <1>2, <1>3, <1>4, <1>6, <1>7, <1>8, SettledSafe

LEMMA HttpLaunch ==
    ASSUME TypeOK, Shape, HttpInv, Launch, lossCause' \subseteq {"cut"}
    PROVE  HttpSafe'
<1>1. UNCHANGED <<os, held, disk, mem, user, lossCause>> /\ ~app  BY DEF Launch
<1>2. HttpSafe  BY <1>1, CausesGrow
<1>3. \A t \in Slot : tasks[t] = Idle  BY <1>1 DEF Shape, AllIdle, Fits
<1>4. tasks' = [tasks EXCEPT !["main"] = [Idle EXCEPT !.pc = "launch", !.then = "attach"]]
  BY <1>3 DEF Launch, Slot
<1>5. /\ tasks'["main"] = [Idle EXCEPT !.pc = "launch", !.then = "attach"]
      /\ tasks'["late"] = Idle /\ tasks["late"] = Idle
  BY <1>3, <1>4 DEF TypeOK, Slot
<1>6. "main" \in Slot /\ Other("main") = "late" /\ "late" \in Slot  BY DEF Slot, Other
<1>7. HttpTask("main")'  BY <1>5 DEF HttpTask, Undoing, Idle
<1>8. HttpTask("late")'  BY <1>5, <1>6, DoneIsSafe DEF Done
<1>9. Settles(Http)
  <2>1. \A f \in Http : ~TurnedOn("main", f)  BY <1>3, <1>6 DEF TurnedOn, Undoing, Idle
  <2>2. QED  BY <1>1, <1>5, <1>6, <2>1, SettlesUnwritten
<1>10. QED  BY <1>1, <1>2, <1>6, <1>7, <1>8, <1>9, SettledSafe

\* What the user sets while the application is not running is what there is.
LEMMA HttpUserSets ==
    ASSUME TypeOK, Shape, UserSets
    PROVE  HttpSafe'
<1>1. ~app /\ user' = os' /\ UNCHANGED <<disk, mem, tasks>>  BY DEF UserSets
<1>2. mem' = NoSnapshot /\ (\A t \in Slot : tasks'[t] = Idle)  BY <1>1 DEF Shape, AllIdle, Fits
<1>3. \A t \in Slot : HttpTask(t)'  BY <1>2, DoneIsSafe DEF Done
<1>4. user' \in [Field -> Choice]  BY ChosenOKNext DEF UserSets
<1>5. ASSUME disk' # NoSnapshot PROVE Covered(disk)' /\ ~Managed(disk)'
  <2>1. disk' \in Snapshot  BY <1>1, <1>5 DEF TypeOK
  <2>2. \A f \in Http : os'[f] # disk'.endpoint
    BY <1>1, <1>4, <2>1, KindOfFields, ValuesAssumption DEF Choice, Snapshot
  <2>3. QED  BY <1>1, <2>2 DEF Covered, Managed, ManagedBy
<1>6. HttpKept'  BY <1>1 DEF HttpKept
<1>7. QED  BY <1>2, <1>3, <1>5, <1>6 DEF HttpSafe

LEMMA HttpStep ==
    ASSUME TypeOK, Shape, HttpInv, [Next]_vars
    PROVE  HttpInv'
<1>1. SUFFICES ASSUME lossCause' \subseteq {"cut"} PROVE HttpSafe'  BY DEF HttpInv
<1>2. CASE Command
  <2>1. PICK then \in {"stop", "attach"} : BeginRestore("main", then)  BY <1>2 DEF Command
  <2>2. ~Undoing("main") /\ "main" \in Slot  BY <1>2 DEF Command, Undoing, Slot
  <2>3. QED  BY <1>1, <1>2, <2>1, <2>2, HttpRestore DEF Command, Then
<1>3. CASE Ensure
  <2>1. ~Undoing("main") /\ "main" \in Slot  BY <1>3 DEF Ensure, Undoing, Slot
  <2>2. QED  BY <1>1, <1>3, <2>1, HttpEnable DEF Ensure
<1>4. CASE Started
  <2>1. PICK t \in Slot : tasks[t].pc = "launch" /\ BeginRestore(t, "attach")
    BY <1>4 DEF Started
  <2>2. ~Undoing(t)  BY <2>1 DEF Undoing
  <2>3. QED  BY <1>1, <1>4, <2>1, <2>2, HttpRestore DEF Started, Then
<1>5. CASE Quit  BY <1>1, <1>5, HttpQuit
<1>6. CASE TimeOut  BY <1>1, <1>6, HttpTimeOut
<1>7. CASE Crash  BY <1>1, <1>7, HttpEnded DEF Crash
<1>8. CASE Launch  BY <1>1, <1>8, HttpLaunch
<1>9. CASE UserSets  BY <1>9, HttpUserSets
<1>10. ASSUME NEW t \in Slot, Step(t) PROVE HttpSafe'
  BY <1>1, <1>10, HttpCheck, HttpUndo, HttpCapture, HttpApply, HttpResume DEF Step
<1>11. CASE UNCHANGED vars
  <2>1. HttpSafe  BY <1>1, <1>11 DEF HttpInv, vars
  <2>2. \A f : Flickers(f)' <=> Flickers(f)
    BY <1>11 DEF vars, Flickers, TurnedOn, Undoing, Sanitized
  <2>3. HttpKept' <=> HttpKept  BY <1>11, <2>2 DEF vars, HttpKept
  <2>4. Covered(disk)' <=> Covered(disk)  BY <1>11, <2>2 DEF vars, Covered
  <2>5. Covered(mem)' <=> Covered(mem)  BY <1>11, <2>2 DEF vars, Covered
  <2>6. \A t \in Slot : HttpTask(t)'
    BY <1>11, <2>1, <2>2 DEF vars, HttpSafe, HttpTask, Covered, Holds, Sanitized, Undoing,
                             HeldIsUsers
  <2>7. QED
    BY <1>11, <2>1, <2>3, <2>4, <2>5, <2>6 DEF vars, HttpSafe, Holds, Managed, ManagedBy, Sanitized
<1>12. QED  BY <1>2, <1>3, <1>4, <1>5, <1>6, <1>7, <1>8, <1>9, <1>10, <1>11 DEF Next

LEMMA HttpInit ==
    ASSUME Init
    PROVE  HttpInv
<1>1. \A t \in Slot : tasks[t] = Idle  BY DEF Init
<1>2. \A t \in Slot : HttpTask(t)  BY <1>1 DEF HttpTask, Undoing, Idle
<1>3. QED  BY <1>2 DEF Init, HttpInv, HttpSafe, HttpKept

-----------------------------------------------------------------------------
(* All the settings, while nothing has happened that may cost one.         *)

LEMMA NoCauseBefore ==
    ASSUME lossCause \subseteq lossCause', lossCause' = {}, HttpInv, FullInv
    PROVE  HttpSafe /\ FullSafe
<1>1. lossCause = {}  OBVIOUS
<1>2. QED  BY <1>1 DEF HttpInv, FullInv

\* An operation that is cut without a cause leaves no setting half written.
LEMMA CutLeavesNothing ==
    ASSUME NEW slots, NEW t \in slots, CutCause(slots) = {}
    PROVE  \A f \in Field : ~TurnedOn(t, f)
<1>1. ASSUME NEW f \in Field, TurnedOn(t, f) PROVE FALSE
  <2>1. CASE f \in Http  BY <1>1, <2>1 DEF CutCause
  <2>2. CASE f \notin Http
    <3>1. "cut" \in CutCause(slots)  BY <1>1, <2>2 DEF CutCause
    <3>2. QED  BY <3>1
  <2>3. QED  BY <2>1, <2>2
<1>2. QED  BY <1>1

\* Such an operation had done nothing or has left a trace, unless the other one
\* has just turned a setting on.
LEMMA CutLeavesTrace ==
    ASSUME TypeOK, Shape, HttpSafe, FullSafe, NEW slots, NEW t \in slots, t \in Slot,
           CutCause(slots) = {}, Undoing(t), os # user
    PROVE  (disk # NoSnapshot /\ Managed(disk)) \/ \E f \in Http : TurnedOn(Other(t), f)
<1>1. ManagedBy(tasks[t].snap.endpoint) # {}
  <2>1. ASSUME ManagedBy(tasks[t].snap.endpoint) = {} PROVE "cut" \in CutCause(slots)
    BY <2>1 DEF CutCause
  <2>2. QED  BY <2>1
<1>2. tasks[t].snap \in Snapshot /\ disk \in {tasks[t].snap, NoSnapshot}
  BY DEF FullSafe, FullTask, Undoing, Shape, Fits
<1>3. CASE disk = NoSnapshot
  <2>1. PICK f \in Http : os[f] = tasks[t].snap.endpoint  BY <1>1 DEF ManagedBy
  <2>2. os[f] # user[f]  BY <1>2, <2>1, KindOfFields, UserIsNotManaged
  <2>3. Flickers(f)  BY <1>3, <2>2 DEF HttpSafe, HttpKept
  <2>4. ~TurnedOn(t, f)  BY KindOfFields, CutLeavesNothing
  <2>5. QED  BY <2>3, <2>4, FlickersIn
<1>4. CASE disk # NoSnapshot
  BY <1>1, <1>2, <1>4 DEF Managed
<1>5. QED  BY <1>3, <1>4

LEMMA OtherTaskFull ==
    ASSUME TypeOK, FullSafe, NEW t \in Slot, tasks'[t] = tasks[t], user' = user,
           disk' \in {disk, NoSnapshot}, Settles(Field),
           tasks[t].pc # "apply" \/ os' = os
    PROVE  FullTask(t)'
<1> DEFINE task == tasks[t]
<1>1. FullTask(t) /\ task \in Task  BY DEF FullSafe, TypeOK
<1>2. ASSUME task.pc \in {"undo", "rollback"}
      PROVE  /\ Holds(tasks[t].snap, Field)' /\ disk' \in {task.snap, NoSnapshot}
             /\ \A j \in 1..(task.i - 1) :
                   os'[WriteOrder[j]] = user[WriteOrder[j]] \/ Flickers(WriteOrder[j])'
             /\ HeldIsUsers(tasks[t])'
  <2>1. /\ Holds(task.snap, Field) /\ disk \in {task.snap, NoSnapshot}
        /\ \A j \in 1..(task.i - 1) :
              os[WriteOrder[j]] = user[WriteOrder[j]] \/ Flickers(WriteOrder[j])
        /\ HeldIsUsers(task)
    BY <1>1, <1>2 DEF FullTask, Undoing
  <2>2. Holds(tasks[t].snap, Field)'  BY <2>1 DEF Holds, Sanitized
  <2>3. task.i \in 1..Len(WriteOrder)  BY <1>1 DEF Task
  <2>4. ASSUME NEW j \in 1..(task.i - 1)
        PROVE  os'[WriteOrder[j]] = user[WriteOrder[j]] \/ Flickers(WriteOrder[j])'
    <3>1. j \in 1..Len(WriteOrder)  BY <2>3, Lengths
    <3>2. WriteOrder[j] \in Field  BY <3>1, Orders
    <3>3. QED  BY <2>1, <3>2 DEF Settles
  <2>5. HeldIsUsers(tasks[t])'
    <3>1. WriteOrder[task.i] \in Field  BY <2>3, Orders
    <3>2. QED  BY <2>1, <3>1 DEF HeldIsUsers, Settles
  <2>6. QED  BY <2>1, <2>2, <2>4, <2>5
<1>3. CASE task.pc = "apply"
  BY <1>1, <1>3 DEF FullTask, Undoing
<1>4. CASE task.pc # "apply"
  BY <1>2, <1>4 DEF FullTask, Undoing
<1>5. QED  BY <1>3, <1>4

LEMMA FullParts ==
    ASSUME NEW t \in Slot, FullTask(t)', FullTask(Other(t))',
           \/ \E s \in Slot : Undoing(s)'
           \/ os' = user'
           \/ disk' # NoSnapshot /\ Managed(disk)',
           disk' # NoSnapshot /\ Managed(disk)' => Holds(disk, Field)',
           mem' # NoSnapshot => Holds(mem, Field)' /\ disk' \in {mem', NoSnapshot}
    PROVE  FullSafe'
<1>1. \A s \in Slot : FullTask(s)'  BY Slots
<1>2. QED  BY <1>1 DEF FullSafe

\* The settings and the two snapshots, when settings are left or put back.
LEMMA SettledFull ==
    ASSUME TypeOK, FullSafe, user' = user, mem' \in {mem, NoSnapshot},
           disk' \in {disk, NoSnapshot}, Settles(Field),
           NEW t \in Slot, FullTask(t)', FullTask(Other(t))',
           \/ \E s \in Slot : Undoing(s)'
           \/ os' = user'
           \/ disk' # NoSnapshot /\ Managed(disk)'
    PROVE  FullSafe'
<1>1. \A s \in Slot : FullTask(s)'  BY Slots
<1>2. ASSUME disk' # NoSnapshot, Managed(disk)' PROVE Holds(disk, Field)'
  <2>1. disk' = disk /\ disk \in Snapshot  BY <1>2 DEF TypeOK
  <2>2. PICK f \in Http : os'[f] = disk.endpoint  BY <1>2, <2>1 DEF Managed, ManagedBy
  <2>3. user[f] # disk.endpoint /\ f \in Field  BY <2>1, KindOfFields, UserIsNotManaged
  <2>4. CASE Flickers(f)'
    <3>1. PICK s \in Slot : Undoing(s)'  BY <2>4 DEF Flickers, TurnedOn
    <3>2. Holds(tasks[s].snap, Field)' /\ disk' = tasks'[s].snap
      BY <1>1, <1>2, <3>1 DEF FullTask
    <3>3. QED  BY <3>2 DEF Holds, Sanitized
  <2>5. CASE ~Flickers(f)'
    <3>1. os[f] = disk.endpoint  BY <2>2, <2>3, <2>5 DEF Settles
    <3>2. Managed(disk)  BY <3>1 DEF Managed, ManagedBy
    <3>3. Holds(disk, Field)  BY <1>2, <2>1, <3>2 DEF FullSafe
    <3>4. QED  BY <2>1, <3>3 DEF Holds, Sanitized
  <2>6. QED  BY <2>4, <2>5
<1>3. ASSUME mem' # NoSnapshot PROVE Holds(mem, Field)' /\ disk' \in {mem', NoSnapshot}
  <2>1. mem' = mem /\ Holds(mem, Field) /\ disk \in {mem, NoSnapshot}  BY <1>3 DEF FullSafe
  <2>2. QED  BY <2>1 DEF Holds, Sanitized
<1>4. QED  BY <1>2, <1>3, FullParts

\* What there is when the operation of slot t puts nothing back.
LEMMA FullThere ==
    ASSUME FullSafe, NEW t \in Slot, ~Undoing(t)
    PROVE  os = user \/ Undoing(Other(t)) \/ (disk # NoSnapshot /\ Managed(disk))
<1>1. ~Undoing(Other(t)) => \A s \in Slot : ~Undoing(s)  BY Slots
<1>2. QED  BY <1>1 DEF FullSafe

LEMMA DoneIsFull ==
    ASSUME NEW t \in Slot, Done(tasks'[t]) \/ tasks'[t].pc \in {"check", "capture", "launch"}
    PROVE  FullTask(t)' /\ ~Undoing(t)'
  BY DEF Done, Idle, FullTask, Undoing

LEMMA RollsBackFull ==
    ASSUME TypeOK, FullSafe, NEW t \in Slot, RollsBack(tasks'[t]), user' = user, disk' = disk
    PROVE  FullTask(t)' /\ Undoing(t)'
<1>1. Holds(mem, Field) /\ disk \in {mem, NoSnapshot} /\ tasks'[t].snap = mem
  BY DEF RollsBack, FullSafe
<1>2. Holds(tasks[t].snap, Field)'  BY <1>1 DEF Holds, Sanitized
<1>3. HeldIsUsers(tasks[t])'  BY DEF HeldIsUsers, RollsBack
<1>4. tasks'[t].pc = "rollback" /\ tasks'[t].i = 1  BY DEF RollsBack
<1>5. disk' \in {tasks'[t].snap, NoSnapshot}  BY <1>1
<1>6. QED  BY <1>2, <1>3, <1>4, <1>5 DEF FullTask, Undoing

LEMMA FullCheck ==
    ASSUME TypeOK, Shape, HttpInv, FullInv, NEW t \in Slot, Check(t), lossCause' = {}
    PROVE  FullSafe'
<1> DEFINE o == Other(t)
           task == tasks[t]
           f == CheckOrder[task.i]
<1>1. HttpSafe /\ FullSafe  BY CheckEffect, NoCauseBefore
<1>2. PICK x \in Task :
         /\ tasks' = [tasks EXCEPT ![t] = x]
         /\ \/ /\ os[f] = task.snap.endpoint
               /\ x.pc = "undo" /\ x.i = 1 /\ x.snap = task.snap /\ x.enable = task.enable
               /\ ~x.half /\ disk' = disk
            \/ /\ os[f] # task.snap.endpoint
               /\ Same(x, task, task.i + 1) /\ disk' = disk
            \/ /\ os[f] # task.snap.endpoint
               /\ task.i = Len(CheckOrder) /\ disk' = NoSnapshot
               /\ Done(x) \/ Recaptures(x, task)
  BY CheckEffect
<1>3. task.pc = "check" /\ UNCHANGED <<os, held, mem, user>>  BY DEF Check
<1>4. tasks'[t] = x /\ tasks'[o] = tasks[o] /\ o \in Slot  BY <1>2, NextTask, Slots DEF TypeOK
<1>5. ~Undoing(t) /\ (Undoing(o)' <=> Undoing(o))  BY <1>3, <1>4 DEF Undoing
<1>6. task.i \in 1..Len(CheckOrder) /\ f \in Http /\ f \in Field  BY CheckEffect, Orders, KindOfFields
<1>7. task.snap \in Snapshot  BY <1>3 DEF Shape, Fits
<1>8. /\ disk \in {task.snap, NoSnapshot}
      /\ Undoing(o) => disk # NoSnapshot
      /\ \A j \in 1..(task.i - 1) :
            os[CheckOrder[j]] # task.snap.endpoint \/ Flickers(CheckOrder[j])
  BY <1>1, <1>3 DEF HttpSafe, HttpTask
<1>9. disk' \in {disk, NoSnapshot} /\ os' = os  BY <1>2, <1>3
<1>10. Settles(Field)
  <2>1. \A g \in Field : ~TurnedOn(t, g)  BY <1>5 DEF TurnedOn
  <2>2. QED  BY <1>3, <1>4, <2>1, SettlesUnwritten
<1>11. FullTask(o)'  BY <1>1, <1>3, <1>4, <1>9, <1>10, OtherTaskFull
<1>12. os = user \/ Undoing(o) \/ (disk # NoSnapshot /\ Managed(disk))
  BY <1>1, <1>5, FullThere
<1>13. \A g : Flickers(g) => Undoing(o)  BY <1>5, FlickersIn DEF TurnedOn
<1>14. CASE /\ os[f] = task.snap.endpoint /\ disk' = disk
            /\ x.pc = "undo" /\ x.i = 1 /\ x.snap = task.snap /\ x.enable = task.enable
            /\ ~x.half
  <2>1. os[f] # user[f]  BY <1>6, <1>7, <1>14, UserIsNotManaged
  <2>2. disk # NoSnapshot  BY <1>1, <1>6, <1>8, <1>13, <2>1 DEF HttpSafe, HttpKept
  <2>3. disk = task.snap  BY <1>8, <2>2
  <2>4. Managed(disk)  BY <1>6, <1>14, <2>3 DEF Managed, ManagedBy
  <2>5. Holds(task.snap, Field)  BY <1>1, <2>2, <2>3, <2>4 DEF FullSafe
  <2>6. Holds(tasks[t].snap, Field)'  BY <1>3, <1>4, <1>14, <2>5 DEF Holds, Sanitized
  <2>7. HeldIsUsers(tasks[t])'  BY <1>4, <1>14 DEF HeldIsUsers
  <2>8. disk' \in {tasks'[t].snap, NoSnapshot} /\ tasks'[t].pc = "undo" /\ tasks'[t].i = 1
    BY <1>4, <1>14, <2>3
  <2>9. FullTask(t)' /\ Undoing(t)'  BY <2>6, <2>7, <2>8 DEF FullTask, Undoing
  <2>10. QED  BY <1>1, <1>3, <1>9, <1>10, <1>11, <2>9, SettledFull
<1>15. CASE Same(x, task, task.i + 1) /\ disk' = disk
  <2>1. FullTask(t)'  BY <1>3, <1>4, <1>15, DoneIsFull DEF Same
  <2>2. Managed(disk) => Managed(disk)'  BY <1>3, <1>15 DEF Managed, ManagedBy
  <2>3. os' = user' \/ Undoing(o)' \/ (disk' # NoSnapshot /\ Managed(disk)')
    BY <1>3, <1>5, <1>12, <1>15, <2>2
  <2>4. QED  BY <1>1, <1>3, <1>4, <1>9, <1>10, <1>11, <2>1, <2>3, SettledFull
<1>16. CASE /\ os[f] # task.snap.endpoint
            /\ task.i = Len(CheckOrder) /\ disk' = NoSnapshot
            /\ Done(x) \/ Recaptures(x, task)
  <2>1. FullTask(t)'  BY <1>4, <1>16, DoneIsFull DEF Recaptures
  <2>2. ASSUME NEW j \in 1..Len(CheckOrder)
        PROVE  os[CheckOrder[j]] # task.snap.endpoint \/ Flickers(CheckOrder[j])
    <3>1. j = task.i \/ j \in 1..(task.i - 1)  BY <1>6, <1>16, Lengths
    <3>2. QED  BY <1>8, <1>16, <3>1
  <2>3. \A g \in Http : os[g] # task.snap.endpoint \/ Undoing(o)  BY <1>13, <2>2, Orders
  <2>4. disk # NoSnapshot /\ Managed(disk) => Undoing(o)
    BY <1>8, <2>3 DEF Managed, ManagedBy
  <2>5. os' = user' \/ Undoing(o)'  BY <1>3, <1>5, <1>12, <2>4
  <2>6. QED  BY <1>1, <1>3, <1>4, <1>9, <1>10, <1>11, <2>1, <2>5, SettledFull
<1>17. QED  BY <1>2, <1>14, <1>15, <1>16

LEMMA FullUndo ==
    ASSUME TypeOK, Shape, Armed, HttpInv, FullInv, NEW t \in Slot, Undo(t), lossCause' = {}
    PROVE  FullSafe'
<1> DEFINE o == Other(t)
           task == tasks[t]
<1>0. PICK f \in Field : f = WriteOrder[task.i]  BY UndoEffect, Orders
<1> DEFINE Writes(x) == \/ Addressed(task, f, task.snap.held[f]) /\ Halfway(x, task)
                        \/ Switched(task, f, task.snap.held[f], Sanitized(task.snap, f) # "off")
<1>1. PICK x \in Task :
         /\ tasks' = [tasks EXCEPT ![t] = x]
         /\ \/ /\ Writes(x) /\ Halfway(x, task)
               /\ UNCHANGED <<mem, disk, lossCause>>
            \/ /\ Writes(x)
               /\ UNCHANGED <<mem, lossCause>>
               /\ ~Halfway(x, task)
               /\ \/ Same(x, task, task.i + 1) /\ disk' = disk
                  \/ /\ task.i = Len(WriteOrder) /\ disk' = NoSnapshot
                     /\ Done(x) \/ Recaptures(x, task)
            \/ /\ UNCHANGED <<os, held, disk>>
               /\ lossCause' = lossCause \cup CutCause({t})
               /\ \/ Done(x) /\ mem' \in {mem, NoSnapshot}
                  \/ RollsBack(x) /\ mem' = NoSnapshot /\ task.enable
  BY <1>0, UndoKinds
<1>2. lossCause \subseteq lossCause'  BY <1>1
<1>3. HttpSafe /\ FullSafe  BY <1>2, NoCauseBefore
<1>4. task.pc \in {"undo", "rollback"} /\ user' = user /\ Undoing(t)  BY DEF Undo, Undoing
<1>5. tasks'[t] = x /\ tasks'[o] = tasks[o] /\ o \in Slot  BY <1>1, NextTask, Slots DEF TypeOK
<1>6. tasks[o].pc # "apply"
  <2>1. ~tasks[o].enable  BY <1>3, <1>4, OtherSlot
  <2>2. QED  BY <1>5, <2>1 DEF Shape, Fits
<1>7. task.i \in 1..Len(WriteOrder) /\ f \in Field /\ task.snap \in Snapshot  BY <1>0, UndoEffect
<1>8. /\ Holds(task.snap, Field) /\ disk \in {task.snap, NoSnapshot}
      /\ \A j \in 1..(task.i - 1) :
            os[WriteOrder[j]] = user[WriteOrder[j]] \/ Flickers(WriteOrder[j])
      /\ HeldIsUsers(task)
  BY <1>3, <1>4 DEF FullSafe, FullTask
<1>9. ASSUME Writes(x)
      PROVE  /\ Settles(Field)
             /\ user[f] # "off" => held'[f] = user[f]
             /\ \A j \in 1..task.i :
                   os'[WriteOrder[j]] = user[WriteOrder[j]] \/ Flickers(WriteOrder[j])'
  <2>1. tasks[t].i \in 1..Len(WriteOrder) /\ tasks[t].snap \in Snapshot /\ f = WriteOrder[tasks[t].i]
    BY <1>0, <1>7
  <2>2. Sanitized(tasks[t].snap, f) = user[f] /\ HeldIsUsers(tasks[t])  BY <1>8 DEF Holds
  <2>3. \/ Addressed(tasks[t], f, tasks[t].snap.held[f]) /\ Halfway(x, tasks[t])
        \/ Switched(tasks[t], f, tasks[t].snap.held[f], Sanitized(tasks[t].snap, f) # "off")
    BY <1>9
  <2>4. tasks'[t] = x /\ tasks'[Other(t)] = tasks[Other(t)] /\ f \in Field  BY <1>5, <1>7
  <2>5. ASSUME NEW j \in 1..task.i PROVE WriteOrder[j] \in Field /\ (j = task.i \/ j \in 1..(task.i - 1))
    <3>1. j \in 1..Len(WriteOrder) /\ (j = task.i \/ j \in 1..(task.i - 1))  BY <1>7, Lengths
    <3>2. QED  BY <3>1, Orders
  <2> HIDE DEF task, o, Writes
  <2>6. /\ os'[f] = user[f] \/ Flickers(f)'
        /\ user[f] # "off" => held'[f] = user[f]
        /\ \A g \in Field : g # f =>
              /\ os'[g] = os[g] /\ held'[g] = held[g]
              /\ Flickers(g) => Flickers(g)'
    BY <1>4, <2>1, <2>2, <2>3, <2>4, UndoSettles
  <2>7. Settles(Field)
    <3>1. ASSUME NEW g \in Field
          PROVE  /\ os'[g] = user[g] \/ Flickers(g)' \/ (os'[g] = os[g] /\ ~Flickers(g))
                 /\ held'[g] = held[g] \/ (user[g] # "off" => held'[g] = user[g])
      <4>1. CASE g = f  BY <2>6, <4>1
      <4>2. CASE g # f  BY <2>6, <4>2
      <4>3. QED  BY <4>1, <4>2
    <3>2. QED  BY <3>1 DEF Settles
  <2>8. ASSUME NEW j \in 1..task.i
        PROVE  os'[WriteOrder[j]] = user[WriteOrder[j]] \/ Flickers(WriteOrder[j])'
    <3>1. CASE j = task.i  BY <1>0, <2>6, <3>1
    <3>2. CASE j \in 1..(task.i - 1)
      <4>1. os[WriteOrder[j]] = user[WriteOrder[j]] \/ Flickers(WriteOrder[j])  BY <1>8, <3>2
      <4>2. QED  BY <2>5, <2>7, <4>1 DEF Settles
    <3>3. QED  BY <2>5, <3>1, <3>2
  <2>9. QED  BY <2>6, <2>7, <2>8
<1>10. ASSUME x.pc = task.pc, x.snap = task.snap, disk' = disk,
              \A j \in 1..(x.i - 1) :
                  os'[WriteOrder[j]] = user[WriteOrder[j]] \/ Flickers(WriteOrder[j])',
              HeldIsUsers(tasks[t])'
       PROVE  FullTask(t)' /\ Undoing(t)'
  <2>1. Holds(tasks[t].snap, Field)'  BY <1>4, <1>5, <1>8, <1>10 DEF Holds, Sanitized
  <2>2. disk' \in {tasks'[t].snap, NoSnapshot} /\ tasks'[t].pc \in {"undo", "rollback"}
    BY <1>4, <1>5, <1>8, <1>10
  <2>3. \A j \in 1..(tasks'[t].i - 1) :
            os'[WriteOrder[j]] = user'[WriteOrder[j]] \/ Flickers(WriteOrder[j])'
    BY <1>4, <1>5, <1>10
  <2>4. Undoing(t)'  BY <2>2 DEF Undoing
  <2>5. FullTask(t)'  BY <1>10, <2>1, <2>2, <2>3 DEF FullTask
  <2>6. QED  BY <2>4, <2>5
<1>11. ASSUME Settles(Field), disk' \in {disk, NoSnapshot} PROVE FullTask(o)'
  BY <1>3, <1>4, <1>5, <1>6, <1>11, OtherTaskFull
<1>12. CASE Writes(x) /\ Halfway(x, task) /\ UNCHANGED <<mem, disk, lossCause>>
  <2>1. x.pc = task.pc /\ x.snap = task.snap /\ x.i = task.i  BY <1>12 DEF Halfway
  <2>2. HeldIsUsers(tasks[t])'  BY <1>0, <1>4, <1>5, <1>9, <1>12, <2>1 DEF HeldIsUsers
  <2>3. \A j \in 1..(x.i - 1) :
            os'[WriteOrder[j]] = user[WriteOrder[j]] \/ Flickers(WriteOrder[j])'
    <3>1. \A j \in 1..(task.i - 1) : j \in 1..task.i  BY <1>7, Lengths
    <3>2. QED  BY <1>9, <1>12, <2>1, <3>1
  <2>4. FullTask(t)' /\ Undoing(t)'  BY <1>10, <1>12, <2>1, <2>2, <2>3
  <2>5. QED  BY <1>3, <1>4, <1>9, <1>11, <1>12, <2>4, SettledFull
<1>13. CASE /\ Writes(x) /\ UNCHANGED <<mem, lossCause>> /\ ~Halfway(x, task)
            /\ \/ Same(x, task, task.i + 1) /\ disk' = disk
               \/ /\ task.i = Len(WriteOrder) /\ disk' = NoSnapshot
                  /\ Done(x) \/ Recaptures(x, task)
  <2>1. CASE Same(x, task, task.i + 1) /\ disk' = disk
    <3>1. x.pc = task.pc /\ x.snap = task.snap /\ x.i - 1 = task.i /\ ~x.half
      BY <1>7, <2>1, Lengths DEF Same
    <3>2. HeldIsUsers(tasks[t])'  BY <1>5, <3>1 DEF HeldIsUsers
    <3>3. FullTask(t)' /\ Undoing(t)'  BY <1>9, <1>10, <1>13, <2>1, <3>1, <3>2
    <3>4. QED  BY <1>3, <1>4, <1>9, <1>11, <1>13, <2>1, <3>3, SettledFull
  <2>2. CASE /\ task.i = Len(WriteOrder) /\ disk' = NoSnapshot
             /\ Done(x) \/ Recaptures(x, task)
    <3>1. FullTask(t)'  BY <1>5, <2>2, DoneIsFull DEF Recaptures
    <3>2. os' = user' \/ \E s \in Slot : Undoing(s)'
      <4>1. ASSUME NEW g \in Field PROVE os'[g] = user'[g] \/ \E s \in Slot : Undoing(s)'
        <5>1. PICK j \in 1..Len(WriteOrder) : WriteOrder[j] = g  BY Orders
        <5>2. j \in 1..task.i  BY <2>2
        <5>3. os'[g] = user[g] \/ Flickers(g)'  BY <1>9, <1>13, <5>1, <5>2
        <5>4. QED  BY <1>4, <5>3 DEF Flickers, TurnedOn
      <4>2. TypeOK'  BY TypeUndo
      <4>3. QED  BY <4>1, <4>2 DEF TypeOK, Setting
    <3>3. QED  BY <1>3, <1>4, <1>9, <1>11, <1>13, <2>2, <3>1, <3>2, SettledFull
  <2>3. QED  BY <1>13, <2>1, <2>2
<1>14. CASE /\ UNCHANGED <<os, held, disk>>
            /\ lossCause' = lossCause \cup CutCause({t})
            /\ \/ Done(x) /\ mem' \in {mem, NoSnapshot}
               \/ RollsBack(x) /\ mem' = NoSnapshot /\ task.enable
  <2>1. CutCause({t}) = {} /\ t \in {t}  BY <1>14
  <2>2. \A g \in Field : ~TurnedOn(t, g)  BY <2>1, CutLeavesNothing
  <2>3. Settles(Field)  BY <1>5, <1>14, <2>2, SettlesUnwritten
  <2>4. FullTask(o)' /\ mem' \in {mem, NoSnapshot}  BY <1>11, <1>14, <2>3
  <2>5. CASE RollsBack(x)
    <3>1. RollsBack(tasks'[t]) /\ disk' = disk  BY <1>5, <1>14, <2>5
    <3>2. FullTask(t)' /\ Undoing(t)'  BY <1>3, <1>4, <3>1, RollsBackFull
    <3>3. QED  BY <1>3, <1>4, <1>14, <2>3, <2>4, <3>2, SettledFull
  <2>6. CASE Done(x)
    <3>1. FullTask(t)'  BY <1>5, <2>6, DoneIsFull
    <3>2. os = user \/ Undoing(o) \/ (disk # NoSnapshot /\ Managed(disk))
      BY <1>3, <1>4, <2>1, CutLeavesTrace DEF TurnedOn
    <3>3. (Managed(disk) => Managed(disk)') /\ (Undoing(o) => Undoing(o)')
      BY <1>5, <1>14 DEF Managed, ManagedBy, Undoing
    <3>4. os' = user' \/ (\E s \in Slot : Undoing(s)') \/ (disk' # NoSnapshot /\ Managed(disk)')
      BY <1>4, <1>5, <1>14, <3>2, <3>3
    <3>5. QED  BY <1>3, <1>4, <1>14, <2>3, <2>4, <3>1, <3>4, SettledFull
  <2>7. QED  BY <1>14, <2>5, <2>6
<1>15. QED  BY <1>1, <1>12, <1>13, <1>14

LEMMA IdleIsFull ==
    ASSUME NEW t \in Slot, tasks'[t] = Idle
    PROVE  FullTask(t)' /\ ~Undoing(t)'
  BY DoneIsFull DEF Done

LEMMA FullCapture ==
    ASSUME TypeOK, Shape, HttpInv, FullInv, NEW t \in Slot, Capture(t), lossCause' = {}
    PROVE  FullSafe'
<1> DEFINE o == Other(t)
           task == tasks[t]
           f == ReadOrder[task.i]
           snap == [task.snap EXCEPT !.set[f] = os[f], !.held[f] = held[f]]
<1>1. UNCHANGED <<os, held, user, lossCause>> /\ task.pc = "capture"  BY DEF Capture
<1>2. HttpSafe /\ FullSafe  BY <1>1, NoCauseBefore
<1>3. task.enable /\ task.i \in 1..Len(WriteOrder) /\ snap \in Snapshot /\ task.snap \in Snapshot
  BY CaptureEffect
<1>4. PICK x \in Task :
         /\ tasks' = [tasks EXCEPT ![t] = x]
         /\ \/ /\ x.pc = "capture" /\ x.enable /\ x.i = task.i + 1 /\ x.snap = snap
               /\ UNCHANGED <<disk, mem>>
            \/ /\ task.i = Len(WriteOrder)
               /\ x.pc = "apply" /\ x.enable /\ x.i = 1 /\ ~x.half /\ x.snap = snap
               /\ disk' = snap /\ mem' = snap
            \/ /\ Done(x) \/ RollsBack(x)
               /\ disk' = disk /\ mem' = NoSnapshot
  BY CaptureEffect
<1>5. tasks[o] = Idle  BY <1>1, <1>2, <1>3, OtherIdle
<1>6. tasks'[t] = x /\ tasks'[o] = Idle /\ o \in Slot
  BY <1>4, <1>5, NextTask, Slots DEF TypeOK
<1>7. FullTask(o)'  BY <1>6, IdleIsFull
<1>8. /\ disk = NoSnapshot
      /\ \A j \in 1..(task.i - 1) : task.snap.set[ReadOrder[j]] = os[ReadOrder[j]]
  BY <1>1, <1>2 DEF HttpSafe, HttpTask
<1>9. os = user
  <2>1. ~Undoing(t) /\ ~Undoing(o)  BY <1>1, <1>5 DEF Undoing, Idle
  <2>2. QED  BY <1>2, <1>8, <2>1, FullThere
<1>10. os' = user'  BY <1>1, <1>9
<1>11. f \in Field /\ snap.set[f] = os[f] /\ snap.endpoint = task.snap.endpoint
       /\ \A g \in Field : g # f => snap.set[g] = task.snap.set[g]
  <2>1. f \in Field  BY <1>3, Orders
  <2>2. QED  BY <1>3, <2>1 DEF Snapshot, Setting
<1> HIDE DEF snap
<1>16. Settles(Field)
  <2>1. \A g \in Field : ~TurnedOn(t, g)  BY <1>1 DEF TurnedOn, Undoing
  <2>2. tasks'[o] = tasks[o]  BY <1>5, <1>6
  <2>3. QED  BY <1>1, <2>1, <2>2, SettlesUnwritten
<1>12. CASE x.pc = "capture" /\ UNCHANGED <<disk, mem>>
  <2>1. FullTask(t)'  BY <1>6, <1>12, DoneIsFull
  <2>2. QED  BY <1>1, <1>2, <1>7, <1>10, <1>12, <1>16, <2>1, SettledFull
<1>13. CASE /\ task.i = Len(WriteOrder)
            /\ x.pc = "apply" /\ x.enable /\ x.i = 1 /\ ~x.half /\ x.snap = snap
            /\ disk' = snap /\ mem' = snap
  <2>1. ASSUME NEW g \in Field PROVE snap.set[g] = user[g] /\ user[g] # snap.endpoint
    <3>1. PICK j \in 1..Len(WriteOrder) : ReadOrder[j] = g  BY Orders
    <3>2. j = task.i \/ j \in 1..(task.i - 1)  BY <1>13, Lengths
    <3>3. snap.set[g] = os[g]  BY <1>8, <1>11, <3>1, <3>2
    <3>4. QED  BY <1>3, <1>9, <3>3, UserIsNotManaged
  <2>2. Holds(snap, Field)  BY <2>1 DEF Holds, Sanitized
  <2>3. Holds(disk, Field)' /\ Holds(mem, Field)'
    BY <1>1, <1>13, <2>2 DEF Holds, Sanitized
  <2>4. FullTask(t)'  BY <1>6, <1>10, <1>13 DEF FullTask, Undoing
  <2>5. QED  BY <1>7, <1>10, <1>13, <2>3, <2>4, FullParts
<1>14. CASE (Done(x) \/ RollsBack(x)) /\ disk' = disk /\ mem' = NoSnapshot
  <2>1. FullTask(t)'
    BY <1>1, <1>2, <1>6, <1>14, DoneIsFull, RollsBackFull
  <2>2. QED  BY <1>1, <1>2, <1>7, <1>10, <1>14, <1>16, <2>1, SettledFull
<1>15. QED  BY <1>4, <1>12, <1>13, <1>14

LEMMA FullApply ==
    ASSUME TypeOK, Shape, HttpInv, FullInv, NEW t \in Slot, Apply(t), lossCause' = {}
    PROVE  FullSafe'
<1> DEFINE o == Other(t)
           task == tasks[t]
           f == WriteOrder[task.i]
           address == IF f \in Http THEN task.snap.endpoint ELSE task.snap.held[f]
           first == WriteOrder[1]
<1>1. UNCHANGED <<disk, user, lossCause>> /\ task.pc = "apply"  BY DEF Apply
<1>2. HttpSafe /\ FullSafe  BY <1>1, NoCauseBefore
<1>3. task.enable /\ task.i \in 1..Len(WriteOrder) /\ task.snap \in Snapshot
  BY ApplyEffect
<1>4. PICK x \in Task :
         /\ tasks' = [tasks EXCEPT ![t] = x]
         /\ \/ /\ Addressed(task, f, address) /\ Halfway(x, task) /\ mem' = mem
            \/ /\ \/ f \notin Http /\ UNCHANGED <<os, held>>
                  \/ Switched(task, f, address, f \in Http)
               /\ mem' = mem
               /\ Same(x, task, task.i + 1) \/ Done(x)
            \/ /\ UNCHANGED <<os, held>> /\ mem' = NoSnapshot
               /\ Done(x) \/ RollsBack(x)
  BY ApplyEffect
<1>5. tasks[o] = Idle  BY <1>1, <1>2, <1>3, OtherIdle
<1>6. tasks'[t] = x /\ tasks'[o] = Idle /\ o \in Slot
  BY <1>4, <1>5, NextTask, Slots DEF TypeOK
<1>7. FullTask(o)'  BY <1>6, IdleIsFull
<1>8. /\ disk = task.snap /\ mem = task.snap /\ disk # NoSnapshot /\ mem # NoSnapshot
      /\ task.half /\ f \in Http => held[f] = task.snap.endpoint
  BY <1>1, <1>2, <1>3, NoSnapshotIsNone DEF HttpSafe, HttpTask
<1>9. Holds(task.snap, Field)  BY <1>2, <1>8 DEF FullSafe
<1>10. IF task.i = 1 /\ ~task.half THEN os = user ELSE os[first] = task.snap.endpoint
  BY <1>1, <1>2 DEF FullSafe, FullTask
<1>11. first \in Http /\ first \in Field /\ f \in Field  BY <1>3, Orders, KindOfFields
<1>12. os \in [Field -> Value] /\ held \in [Field -> Address]  BY DEF TypeOK, Setting
<1>13. task.snap.endpoint # "none"  BY <1>3, ValuesAssumption DEF Snapshot
<1>14. ASSUME os'[first] = task.snap.endpoint, mem' = mem, FullTask(t)'
       PROVE  FullSafe'
  <2>1. disk' # NoSnapshot /\ Managed(disk)'
    BY <1>1, <1>8, <1>11, <1>14 DEF Managed, ManagedBy
  <2>2. Holds(disk, Field)' /\ Holds(mem, Field)' /\ disk' = mem'
    BY <1>1, <1>8, <1>9, <1>14 DEF Holds, Sanitized
  <2>3. QED  BY <1>7, <1>14, <2>1, <2>2, FullParts
<1>15. f # first => os[first] = task.snap.endpoint  BY <1>10
<1>16. CASE Addressed(task, f, address) /\ Halfway(x, task) /\ mem' = mem
  <2>1. os' = [os EXCEPT ![f] = address]  BY <1>16 DEF Addressed
  <2>2. os'[first] = task.snap.endpoint
    <3>1. CASE f = first  BY <1>11, <1>12, <2>1, <3>1
    <3>2. CASE f # first  BY <1>11, <1>12, <1>15, <2>1, <3>2
    <3>3. QED  BY <3>1, <3>2
  <2>3. FullTask(t)'
    BY <1>1, <1>6, <1>16, <2>2 DEF FullTask, Undoing, Halfway
  <2>4. QED  BY <1>14, <1>16, <2>2, <2>3
<1>17. CASE /\ \/ f \notin Http /\ UNCHANGED <<os, held>>
               \/ Switched(task, f, address, f \in Http)
            /\ mem' = mem
            /\ Same(x, task, task.i + 1) \/ Done(x)
  <2>1. os'[first] = task.snap.endpoint
    <3>1. CASE f \notin Http /\ UNCHANGED <<os, held>>  BY <1>11, <1>15, <3>1
    <3>2. CASE Switched(task, f, address, f \in Http)
      <4>1. os' = [os EXCEPT ![f] = IF f \in Http THEN held[f] ELSE "off"]
        BY <3>2 DEF Switched
      <4>2. CASE f = first
        <5>1. task.half  BY <1>11, <1>13, <3>2, <4>2 DEF Switched
        <5>2. held[f] = task.snap.endpoint  BY <1>8, <1>11, <4>2, <5>1
        <5>3. os'[f] = held[f]  BY <1>11, <1>12, <4>1, <4>2
        <5>4. QED  BY <4>2, <5>2, <5>3
      <4>3. CASE f # first  BY <1>11, <1>12, <1>15, <4>1, <4>3
      <4>4. QED  BY <4>2, <4>3
    <3>3. QED  BY <1>17, <3>1, <3>2
  <2>2. FullTask(t)'
    <3>1. CASE Done(x)  BY <1>6, <3>1, DoneIsFull
    <3>2. CASE Same(x, task, task.i + 1)
      <4>1. task.i + 1 # 1  BY <1>3, Lengths
      <4>2. QED  BY <1>1, <1>6, <2>1, <3>2, <4>1 DEF FullTask, Undoing, Same
    <3>3. QED  BY <1>17, <3>1, <3>2
  <2>3. QED  BY <1>14, <1>17, <2>1, <2>2
<1>18. CASE UNCHANGED <<os, held>> /\ mem' = NoSnapshot /\ (Done(x) \/ RollsBack(x))
  <2>1. FullTask(t)'
    BY <1>1, <1>2, <1>6, <1>18, DoneIsFull, RollsBackFull
  <2>2. Settles(Field)
    <3>1. \A g \in Field : ~TurnedOn(t, g)  BY <1>1 DEF TurnedOn, Undoing
    <3>2. tasks'[o] = tasks[o]  BY <1>5, <1>6
    <3>3. QED  BY <1>18, <3>1, <3>2, SettlesUnwritten
  <2>3. os' = user' \/ (disk' # NoSnapshot /\ Managed(disk)')
    BY <1>1, <1>8, <1>10, <1>11, <1>18 DEF Managed, ManagedBy
  <2>4. QED  BY <1>1, <1>2, <1>7, <1>18, <2>1, <2>2, <2>3, SettledFull
<1>19. QED  BY <1>4, <1>16, <1>17, <1>18

LEMMA FullBegin ==
    ASSUME TypeOK, Shape, FullSafe, NEW t \in Slot, NEW x \in Task,
           tasks' = [tasks EXCEPT ![t] = x], x.i = 1, ~x.half,
           \/ x.pc = "resume"
           \/ x.pc = "undo" /\ mem # NoSnapshot /\ x.snap = mem
           \/ x.pc = "check"
           \/ x.pc = "capture",
           UNCHANGED <<os, held, disk, user>>, mem' \in {mem, NoSnapshot}, ~Undoing(t)
    PROVE  FullSafe'
<1> DEFINE o == Other(t)
<1>1. tasks'[t] = x /\ tasks'[o] = tasks[o] /\ o \in Slot  BY NextTask, Slots DEF TypeOK
<1>2. Settles(Field)
  <2>1. \A g \in Field : ~TurnedOn(t, g)  BY DEF TurnedOn
  <2>2. QED  BY <1>1, <2>1, SettlesUnwritten
<1>3. FullTask(o)' /\ (Undoing(o) => Undoing(o)')
  BY <1>1, <1>2, OtherTaskFull DEF Undoing
<1>4. CASE x.pc = "undo" /\ mem # NoSnapshot /\ x.snap = mem
  <2>1. Holds(mem, Field) /\ disk \in {mem, NoSnapshot}  BY <1>4 DEF FullSafe
  <2>2. Holds(tasks[t].snap, Field)'  BY <1>1, <1>4, <2>1 DEF Holds, Sanitized
  <2>3. HeldIsUsers(tasks[t])'  BY <1>1 DEF HeldIsUsers
  <2>4. FullTask(t)' /\ Undoing(t)'
    BY <1>1, <1>4, <2>1, <2>2, <2>3 DEF FullTask, Undoing
  <2>5. QED  BY <1>2, <1>3, <2>4, SettledFull
<1>5. CASE x.pc \in {"resume", "check", "capture"}
  <2>1. FullTask(t)'  BY <1>1, <1>5 DEF FullTask, Undoing
  <2>2. os = user \/ Undoing(o) \/ (disk # NoSnapshot /\ Managed(disk))  BY FullThere
  <2>3. Managed(disk) => Managed(disk)'  BY DEF Managed, ManagedBy
  <2>4. os' = user' \/ (\E s \in Slot : Undoing(s)') \/ (disk' # NoSnapshot /\ Managed(disk)')
    BY <1>1, <1>3, <2>2, <2>3
  <2>5. QED  BY <1>2, <1>3, <2>1, <2>4, SettledFull
<1>6. QED  BY <1>4, <1>5

LEMMA FullRestore ==
    ASSUME TypeOK, Shape, HttpInv, FullInv, NEW t \in Slot, NEW then \in Then,
           BeginRestore(t, then), ~Undoing(t), UNCHANGED <<os, held, disk, user>>, lossCause' = {}
    PROVE  FullSafe'
<1>1. PICK x \in Task :
         /\ tasks' = [tasks EXCEPT ![t] = x] /\ x.i = 1 /\ ~x.half
         /\ \/ x.pc = "resume"
            \/ x.pc = "undo" /\ mem # NoSnapshot /\ x.snap = mem
            \/ x.pc = "check"
  BY BeginRestoreEffect
<1>2. lossCause \subseteq lossCause' /\ mem' = NoSnapshot  BY DEF BeginRestore
<1>3. FullSafe  BY <1>2, NoCauseBefore
<1>4. QED  BY <1>1, <1>2, <1>3, FullBegin

LEMMA FullEnable ==
    ASSUME TypeOK, Shape, HttpInv, FullInv, NEW t \in Slot, BeginEnable(t), ~Undoing(t),
           UNCHANGED <<os, held, disk, user>>, lossCause' = {}
    PROVE  FullSafe'
<1>1. PICK x \in Task : /\ tasks' = [tasks EXCEPT ![t] = x] /\ x.i = 1 /\ ~x.half
                        /\ x.pc \in {"capture", "check"}
  BY BeginEnableEffect
<1>2. lossCause \subseteq lossCause' /\ mem' = mem  BY DEF BeginEnable
<1>3. FullSafe  BY <1>2, NoCauseBefore
<1>4. QED  BY <1>1, <1>2, <1>3, FullBegin

LEMMA FullEnded ==
    ASSUME TypeOK, Shape, HttpInv, FullInv, Ended, lossCause' = {}
    PROVE  FullSafe'
<1>1. lossCause \subseteq lossCause' /\ CutCause(Slot) = {}  BY DEF Ended
<1>2. HttpSafe /\ FullSafe  BY <1>1, NoCauseBefore
<1>3. UNCHANGED <<os, held, disk, user>> /\ mem' = NoSnapshot /\ (\A t \in Slot : tasks'[t] = Idle)
  BY DEF Ended
<1>4. \A t \in Slot : FullTask(t)'  BY <1>3, IdleIsFull
<1>5. os = user \/ (disk # NoSnapshot /\ Managed(disk))
  <2>1. CASE \A t \in Slot : ~Undoing(t)  BY <1>2, <2>1 DEF FullSafe
  <2>2. ASSUME NEW t \in Slot, Undoing(t), os # user PROVE disk # NoSnapshot /\ Managed(disk)
    <3>1. ASSUME NEW s \in Slot, NEW f \in Http PROVE ~TurnedOn(s, f)
      BY <1>1, KindOfFields, CutLeavesNothing
    <3>2. Other(t) \in Slot  BY Slots
    <3>3. QED  BY <1>1, <1>2, <2>2, <3>1, <3>2, CutLeavesTrace
  <2>3. QED  BY <2>1, <2>2
<1>6. Managed(disk) => Managed(disk)'  BY <1>3 DEF Managed, ManagedBy
<1>7. disk' # NoSnapshot /\ Managed(disk)' => Holds(disk, Field)'
  BY <1>2, <1>3 DEF FullSafe, Managed, ManagedBy, Holds, Sanitized
<1>8. QED  BY <1>3, <1>4, <1>5, <1>6, <1>7 DEF FullSafe

LEMMA FullResume ==
    ASSUME TypeOK, Shape, HttpInv, FullInv, NEW t \in Slot, Resume(t), lossCause' = {}
    PROVE  FullSafe'
<1>1. tasks[t].pc = "resume" /\ ~Undoing(t)  BY DEF Resume, Undoing
<1>2. CASE tasks' = [tasks EXCEPT ![t] = Idle]
           /\ UNCHANGED <<os, held, disk, app, mem, endpoint, seen, user, lossCause>>
  <2>1. FullSafe  BY <1>2, NoCauseBefore
  <2>2. tasks'[t] = Idle /\ tasks'[Other(t)] = tasks[Other(t)] /\ Other(t) \in Slot
    BY <1>2, NextTask, IdleTask, Slots DEF TypeOK
  <2>3. FullTask(t)'  BY <2>2, IdleIsFull
  <2>4. Settles(Field)
    <3>1. \A g \in Field : ~TurnedOn(t, g)  BY <1>1 DEF TurnedOn
    <3>2. QED  BY <1>2, <2>2, <3>1, SettlesUnwritten
  <2>5. FullTask(Other(t))' /\ (Undoing(Other(t)) => Undoing(Other(t))')
    BY <1>2, <2>1, <2>2, <2>4, OtherTaskFull DEF Undoing
  <2>6. os = user \/ Undoing(Other(t)) \/ (disk # NoSnapshot /\ Managed(disk))
    BY <1>1, <2>1, FullThere
  <2>7. Managed(disk) => Managed(disk)'  BY <1>2 DEF Managed, ManagedBy
  <2>8. os' = user' \/ (\E s \in Slot : Undoing(s)') \/ (disk' # NoSnapshot /\ Managed(disk)')
    BY <1>2, <2>2, <2>5, <2>6, <2>7
  <2>9. QED  BY <1>2, <2>1, <2>3, <2>4, <2>5, <2>8, SettledFull
<1>3. CASE BeginEnable(t) /\ UNCHANGED <<os, held, disk, app, endpoint, user>>
  BY <1>1, <1>3, FullEnable
<1>4. CASE Ended  BY <1>4, FullEnded
<1>5. QED  BY <1>2, <1>3, <1>4 DEF Resume

\* The operation of the first slot moves to the second.
LEMMA MovedFull ==
    ASSUME TypeOK, Shape, FullSafe, NEW x \in Task, NEW y \in Task,
           tasks' = [main |-> x, late |-> y], tasks["late"].pc = "idle",
           Moved(y, tasks["main"]), y.pc # "apply",
           UNCHANGED <<os, held, disk, user>>, mem' \in {mem, NoSnapshot},
           \/ x.pc = "undo" /\ mem # NoSnapshot /\ x.snap = mem /\ x.i = 1 /\ ~x.half
           \/ x.pc \in {"resume", "check"}
    PROVE  FullSafe'
<1> DEFINE old == tasks["main"]
<1>1. "main" \in Slot /\ "late" \in Slot /\ Other("main") = "late" /\ Other("late") = "main"
  BY DEF Slot, Other
<1>2. tasks'["main"] = x /\ tasks'["late"] = y  BY TwoTasks
<1>3. Settles(Field)  BY <1>2, SettlesOvertaken
<1>4. ~Undoing("late") /\ (Undoing("main") => Undoing("late")')
  BY <1>2 DEF Undoing, Moved
<1>5. FullTask("main") /\ old \in Task  BY <1>1 DEF FullSafe, TypeOK
<1>6. FullTask("late")'
  <2>1. CASE y.pc \in {"undo", "rollback"}
    <3>1. /\ Holds(old.snap, Field) /\ disk \in {old.snap, NoSnapshot}
          /\ \A j \in 1..(old.i - 1) :
                os[WriteOrder[j]] = user[WriteOrder[j]] \/ Flickers(WriteOrder[j])
          /\ HeldIsUsers(old)
      BY <1>5, <2>1 DEF FullTask, Undoing, Moved
    <3>2. Holds(tasks["late"].snap, Field)'
      BY <1>2, <3>1 DEF Holds, Sanitized, Moved
    <3>3. HeldIsUsers(tasks["late"])'  BY <1>2, <3>1 DEF HeldIsUsers, Moved
    <3>4. y.i = old.i /\ y.snap = old.snap  BY DEF Moved
    <3>5. ASSUME NEW j \in 1..(old.i - 1)
          PROVE  os'[WriteOrder[j]] = user'[WriteOrder[j]] \/ Flickers(WriteOrder[j])'
      <4>1. old.i \in 1..Len(WriteOrder)  BY <1>5 DEF Task
      <4>2. j \in 1..Len(WriteOrder)  BY <4>1, Lengths
      <4>3. WriteOrder[j] \in Field  BY <4>2, Orders
      <4>4. QED  BY <1>3, <3>1, <4>3 DEF Settles
    <3>6. QED  BY <1>2, <2>1, <3>1, <3>2, <3>3, <3>4, <3>5 DEF FullTask, Undoing
  <2>2. CASE y.pc \notin {"undo", "rollback"}
    BY <1>2, <2>2 DEF FullTask, Undoing
  <2>3. QED  BY <2>1, <2>2
<1>7. FullTask("main")'
  <2>1. CASE x.pc = "undo" /\ mem # NoSnapshot /\ x.snap = mem /\ x.i = 1 /\ ~x.half
    <3>1. Holds(mem, Field) /\ disk \in {mem, NoSnapshot}  BY <2>1 DEF FullSafe
    <3>2. Holds(tasks["main"].snap, Field)'  BY <1>2, <2>1, <3>1 DEF Holds, Sanitized
    <3>3. HeldIsUsers(tasks["main"])'  BY <1>2, <2>1 DEF HeldIsUsers
    <3>4. QED  BY <1>2, <2>1, <3>1, <3>2, <3>3 DEF FullTask, Undoing
  <2>2. CASE x.pc \in {"resume", "check"}  BY <1>2, <2>2 DEF FullTask, Undoing
  <2>3. QED  BY <2>1, <2>2
<1>8. os = user \/ Undoing("main") \/ (disk # NoSnapshot /\ Managed(disk))
  BY <1>1, <1>4, FullThere
<1>9. Managed(disk) => Managed(disk)'  BY DEF Managed, ManagedBy
<1>10. \/ os' = user' \/ (\E s \in Slot : Undoing(s)')
       \/ (disk' # NoSnapshot /\ Managed(disk)')
  BY <1>1, <1>4, <1>8, <1>9
<1>11. QED  BY <1>1, <1>3, <1>6, <1>7, <1>10, SettledFull

LEMMA FullQuit ==
    ASSUME TypeOK, Shape, HttpInv, FullInv, Quit, lossCause' = {}
    PROVE  FullSafe'
<1> DEFINE old == tasks["main"]
<1>1. PICK x \in Task :
         /\ tasks' = [main |-> x, late |-> old] /\ ~x.enable /\ x.i = 1 /\ ~x.half
         /\ \/ x.pc = "resume"
            \/ x.pc = "undo" /\ mem # NoSnapshot /\ x.snap = mem
            \/ x.pc = "check" /\ disk # NoSnapshot /\ x.snap = disk
  BY QuitEffect
<1>2. /\ lossCause \subseteq lossCause' /\ UNCHANGED <<os, held, disk, user>> /\ mem' = NoSnapshot
      /\ old.pc = "idle" \/ ~Enabling(old)
      /\ tasks["late"].pc = "idle"
  BY DEF Quit
<1>3. FullSafe  BY <1>2, NoCauseBefore
<1>4. old \in Task /\ Fits(old)  BY DEF TypeOK, Shape, Slot
<1>5. old.pc # "apply"  BY <1>2, <1>4 DEF Fits, Enabling
<1>6. Moved(old, old)  BY DEF Moved
<1>7. QED  BY <1>1, <1>2, <1>3, <1>4, <1>5, <1>6, MovedFull

LEMMA FullTimeOut ==
    ASSUME TypeOK, Shape, HttpInv, FullInv, TimeOut, lossCause' = {}
    PROVE  FullSafe'
<1>1. PICK x \in Task, y \in Task :
         /\ tasks' = [main |-> x, late |-> y] /\ x.pc = "resume"
         /\ Moved(y, tasks["main"])
  BY TimeOutEffect
<1>2. /\ UNCHANGED <<os, held, disk, mem, user, lossCause>> /\ tasks["late"].pc = "idle"
      /\ tasks["main"].pc \in {"check", "undo"}
  BY DEF TimeOut
<1>3. FullSafe  BY <1>2, NoCauseBefore
<1>4. y.pc # "apply"  BY <1>1, <1>2 DEF Moved
<1>5. QED  BY <1>1, <1>2, <1>3, <1>4, MovedFull

LEMMA FullLaunch ==
    ASSUME TypeOK, Shape, HttpInv, FullInv, Launch, lossCause' = {}
    PROVE  FullSafe'
<1>1. UNCHANGED <<os, held, disk, mem, user, lossCause>> /\ ~app  BY DEF Launch
<1>2. FullSafe  BY <1>1, NoCauseBefore
<1>3. \A t \in Slot : tasks[t] = Idle  BY <1>1 DEF Shape, AllIdle, Fits
<1>4. tasks' = [tasks EXCEPT !["main"] = [Idle EXCEPT !.pc = "launch", !.then = "attach"]]
  BY <1>3 DEF Launch, Slot
<1>5. tasks'["main"].pc = "launch" /\ tasks'["late"] = Idle /\ tasks["late"] = Idle
  BY <1>3, <1>4 DEF TypeOK, Slot, Idle
<1>6. "main" \in Slot /\ Other("main") = "late" /\ "late" \in Slot  BY DEF Slot, Other
<1>7. FullTask("main")'  BY <1>5, <1>6, DoneIsFull
<1>8. FullTask("late")'  BY <1>5, <1>6, IdleIsFull
<1>9. ~Undoing("main") /\ ~Undoing("late")  BY <1>3, <1>6 DEF Undoing, Idle
<1>10. os = user \/ (disk # NoSnapshot /\ Managed(disk))  BY <1>2, <1>6, <1>9, FullThere
<1>11. Managed(disk) => Managed(disk)'  BY <1>1 DEF Managed, ManagedBy
<1>12. Settles(Field)
  <2>1. \A f \in Field : ~TurnedOn("main", f)  BY <1>9 DEF TurnedOn
  <2>2. QED  BY <1>1, <1>5, <1>6, <2>1, SettlesUnwritten
<1>13. QED  BY <1>1, <1>2, <1>6, <1>7, <1>8, <1>10, <1>11, <1>12, SettledFull

LEMMA FullUserSets ==
    ASSUME TypeOK, Shape, UserSets
    PROVE  FullSafe'
<1>1. ~app /\ user' = os' /\ UNCHANGED <<disk, mem, tasks>>  BY DEF UserSets
<1>2. mem' = NoSnapshot /\ (\A t \in Slot : tasks'[t] = Idle)  BY <1>1 DEF Shape, AllIdle, Fits
<1>3. \A t \in Slot : FullTask(t)'  BY <1>2, IdleIsFull
<1>4. user' \in [Field -> Choice]  BY ChosenOKNext DEF UserSets
<1>5. ASSUME disk' # NoSnapshot PROVE ~Managed(disk)'
  <2>1. disk' \in Snapshot  BY <1>1, <1>5 DEF TypeOK
  <2>2. \A f \in Http : os'[f] # disk'.endpoint
    BY <1>1, <1>4, <2>1, KindOfFields, ValuesAssumption DEF Choice, Snapshot
  <2>3. QED  BY <2>2 DEF Managed, ManagedBy
<1>6. QED  BY <1>1, <1>2, <1>3, <1>5 DEF FullSafe

LEMMA FullStep ==
    ASSUME TypeOK, Shape, Armed, HttpInv, FullInv, [Next]_vars
    PROVE  FullInv'
<1>1. SUFFICES ASSUME lossCause' = {} PROVE FullSafe'  BY DEF FullInv
<1>2. CASE Command
  <2>1. PICK then \in {"stop", "attach"} : BeginRestore("main", then)  BY <1>2 DEF Command
  <2>2. "main" \in Slot /\ ~Undoing("main") /\ then \in Then
    BY <1>2, <2>1 DEF Command, Slot, Undoing, Then
  <2>3. QED  BY <1>1, <1>2, <2>1, <2>2, FullRestore DEF Command
<1>3. CASE Ensure
  <2>1. "main" \in Slot /\ ~Undoing("main")  BY <1>3 DEF Ensure, Slot, Undoing
  <2>2. QED  BY <1>1, <1>3, <2>1, FullEnable DEF Ensure
<1>4. CASE Started
  <2>1. PICK t \in Slot : tasks[t].pc = "launch" /\ BeginRestore(t, "attach")
    BY <1>4 DEF Started
  <2>2. ~Undoing(t) /\ "attach" \in Then  BY <2>1 DEF Undoing, Then
  <2>3. QED  BY <1>1, <1>4, <2>1, <2>2, FullRestore DEF Started
<1>5. CASE Quit  BY <1>1, <1>5, FullQuit
<1>6. CASE TimeOut  BY <1>1, <1>6, FullTimeOut
<1>7. CASE Crash  BY <1>1, <1>7, FullEnded DEF Crash
<1>8. CASE Launch  BY <1>1, <1>8, FullLaunch
<1>9. CASE UserSets  BY <1>9, FullUserSets
<1>10. ASSUME NEW t \in Slot, Step(t) PROVE FullSafe'
  BY <1>1, <1>10, FullCheck, FullUndo, FullCapture, FullApply, FullResume DEF Step
<1>11. CASE UNCHANGED vars
  <2>1. FullSafe  BY <1>1, <1>11 DEF FullInv, vars
  <2>2. \A f : Flickers(f)' <=> Flickers(f)
    BY <1>11 DEF vars, Flickers, TurnedOn, Undoing, Sanitized
  <2>3. \A t \in Slot : FullTask(t)'
    BY <1>11, <2>1, <2>2 DEF vars, FullSafe, FullTask, Holds, Sanitized, Undoing, HeldIsUsers
  <2>4. QED
    BY <1>11, <2>1, <2>3 DEF vars, FullSafe, Holds, Managed, ManagedBy, Sanitized, Undoing
<1>12. QED  BY <1>2, <1>3, <1>4, <1>5, <1>6, <1>7, <1>8, <1>9, <1>10, <1>11 DEF Next

LEMMA FullInit ==
    ASSUME Init
    PROVE  FullInv
<1>1. \A t \in Slot : tasks[t] = Idle  BY DEF Init
<1>2. \A t \in Slot : FullTask(t)  BY <1>1 DEF FullTask, Undoing, Idle
<1>3. QED  BY <1>2 DEF Init, FullInv, FullSafe

-----------------------------------------------------------------------------

LEMMA SafeSurvivesCrash ==
    ASSUME TypeOK, Shape, HttpInv, FullInv
    PROVE  SettingsSurviveCrash
<1>1. ASSUME lossCause \subseteq {"cut"}, NEW f \in Http
      PROVE  AfterRestart(f) = user[f] \/ (~Recognised /\ Flickers(f))
  <2>1. HttpSafe  BY <1>1 DEF HttpInv
  <2>2. CASE disk = NoSnapshot
    BY <2>1, <2>2 DEF HttpSafe, HttpKept, AfterRestart, Recognised
  <2>3. CASE disk # NoSnapshot /\ Managed(disk)
    BY <2>1, <2>3 DEF HttpSafe, Holds, AfterRestart, Recognised, Managed
  <2>4. CASE disk # NoSnapshot /\ ~Managed(disk)
    <3>1. AfterRestart(f) = os[f] /\ os[f] # disk.endpoint /\ ~Recognised
      BY <2>4 DEF AfterRestart, Recognised, Managed, ManagedBy
    <3>2. QED  BY <2>1, <2>4, <3>1 DEF HttpSafe, Covered
  <2>5. QED  BY <2>2, <2>3, <2>4
<1>2. ASSUME lossCause = {}, ~(\E t \in Slot : Undoing(t)), NEW f \in Field
      PROVE  AfterRestart(f) = user[f]
  <2>1. FullSafe  BY <1>2 DEF FullInv
  <2>2. CASE disk # NoSnapshot /\ Managed(disk)
    BY <2>1, <2>2 DEF FullSafe, Holds, AfterRestart, Recognised, Managed
  <2>3. CASE disk = NoSnapshot \/ ~Managed(disk)
    <3>1. os = user  BY <1>2, <2>1, <2>3 DEF FullSafe
    <3>2. QED  BY <2>3, <3>1 DEF AfterRestart, Recognised, Managed
  <2>4. QED  BY <2>2, <2>3
<1>3. QED  BY <1>1, <1>2 DEF SettingsSurviveCrash

\* A crash between any two commands of SystemProxyManager, between the two that
\* write one setting included, leaves what the next start needs to put back what
\* the user had.  The two HTTP proxies: with the one exception of a setting that
\* the user had off and that is on between the two commands that put it back,
\* when no other setting is managed any more.  The SOCKS proxy: unless the crash
\* comes while the settings are put back (SettingsSurviveCrash).
THEOREM CrashIsSurvived == Spec => []SettingsSurviveCrash
<1>1. Init => IInv  BY TypeInit, HttpInit, FullInit DEF IInv
<1>2. IInv /\ [Next]_vars => IInv'  BY TypeStep, HttpStep, FullStep DEF IInv
<1>3. IInv => SettingsSurviveCrash  BY SafeSurvivesCrash DEF IInv
<1>4. QED  BY <1>1, <1>2, <1>3, PTL DEF Spec

-----------------------------------------------------------------------------
(* What the status tells.                                                  *)

\* The application is about to end.
Quitting == tasks["main"].pc # "idle" /\ tasks["main"].then = "quit" /\ ~tasks["main"].enable
\* An operation is under way that will set the status when it ends.
Underway == \/ tasks["main"].pc \in {"check", "undo", "launch"}
            \/ tasks["main"].pc # "idle" /\ tasks["main"].enable
            \/ Quitting

Roles ==
    /\ ~app => seen = "inactive"
    /\ tasks["main"].pc # "idle" /\ ~tasks["main"].enable => tasks["main"].then # "nothing"
    /\ \A t \in Slot : /\ tasks[t].pc \in {"resume", "launch"} => ~tasks[t].enable
                       /\ tasks[t].pc = "launch" => tasks[t].then = "attach"

\* The status is wrong only as long as an operation is under way that sets it.
Told ==
    /\ seen \in {"restored", "inactive"} => ~app \/ disk = NoSnapshot \/ Underway
    /\ seen = "active" => (\A f \in Http : os[f] = endpoint) \/ Underway
\* An operation that was overtaken takes nothing over, and says so only to an
\* application that is about to end.
Overtakes ==
    /\ ~Enabling(tasks["late"])
    /\ tasks["late"].pc # "idle" => seen # "active" \/ Quitting
    /\ tasks["late"].pc # "idle" /\ tasks["late"].then # "nothing" => Quitting
\* The settings are taken over for the address the proxy listens at, in order.
Aimed(t) ==
    /\ tasks[t].pc \in {"capture", "apply"} => tasks[t].snap.endpoint = endpoint
    /\ tasks[t].pc = "apply" =>
          /\ \A j \in 1..(tasks[t].i - 1) : WriteOrder[j] \in Http => os[WriteOrder[j]] = endpoint
          /\ tasks[t].half /\ WriteOrder[tasks[t].i] \in Http => held[WriteOrder[tasks[t].i]] = endpoint
SeenSafe == Told /\ Overtakes /\ \A t \in Slot : Aimed(t)
SeenInv == Roles /\ (lossCause = {} => SeenSafe)

\* A task goes on so that it is aimed after the step.
AimsAt(x) ==
    /\ x.pc \in {"capture", "apply"} => x.snap.endpoint = endpoint
    /\ x.pc = "apply" =>
          /\ \A j \in 1..(x.i - 1) : WriteOrder[j] \in Http => os'[WriteOrder[j]] = endpoint
          /\ x.half /\ WriteOrder[x.i] \in Http => held'[WriteOrder[x.i]] = endpoint

\* A task that goes on, and one that ends with an outcome.
Goes(x, task) ==
    /\ x.enable = task.enable /\ x.then = task.then
    /\ UNCHANGED seen
    /\ x.pc \in {"check", "undo"} \/ (x.enable /\ x.pc \in {"capture", "apply", "rollback"})
Ends(x, task, outcome) ==
    /\ IF task.enable \/ task.then = "nothing"
       THEN x = Idle ELSE x.pc = "resume" /\ ~x.enable /\ x.then = task.then
    /\ seen' = IF task.then = "nothing" /\ ~task.enable THEN seen ELSE outcome

\* What a command of the task in slot t does, as far as the status is concerned.
Turn(t, x) ==
    /\ tasks' = [tasks EXCEPT ![t] = x] /\ app' /\ endpoint' = endpoint
    /\ tasks[t].pc \in {"check", "undo", "capture", "apply", "rollback"}
    /\ disk' \in {disk, NoSnapshot} \/ tasks[t].enable
    /\ \/ Goes(x, tasks[t])
       \/ Ends(x, tasks[t], "error")
       \/ disk' = NoSnapshot /\ \E outcome \in {"inactive", "restored"} : Ends(x, tasks[t], outcome)
       \/ /\ Ends(x, tasks[t], "active") /\ tasks[t].enable
          /\ Aimed(t) => \A f \in Http : os'[f] = endpoint

LEMMA FinishEnds ==
    ASSUME TypeOK, NEW t \in Slot, NEW outcome, Finish(t, outcome)
    PROVE  \E x \in Task : tasks' = [tasks EXCEPT ![t] = x] /\ Ends(x, tasks[t], outcome)
<1> DEFINE y == [tasks[t] EXCEPT !.pc = "resume", !.snap = NoSnapshot, !.i = 1, !.half = FALSE]
<1>1. tasks[t] \in Task /\ 1 \in 1..Len(WriteOrder)  BY Orders DEF TypeOK
<1>2. y \in Task /\ y.pc = "resume" /\ y.enable = tasks[t].enable /\ y.then = tasks[t].then
  BY <1>1 DEF Task
<1> DEFINE x == IF tasks[t].enable \/ tasks[t].then = "nothing" THEN Idle ELSE y
<1>3. tasks' = [tasks EXCEPT ![t] = x]  BY DEF Finish
<1>4. seen' = IF tasks[t].then = "nothing" /\ ~tasks[t].enable THEN seen ELSE outcome
  BY DEF Finish
<1> HIDE DEF y
<1>5. x \in Task /\ Ends(x, tasks[t], outcome)  BY <1>1, <1>2, <1>4, IdleTask DEF Ends
<1> HIDE DEF x
<1>6. QED  BY <1>3, <1>5

LEMMA CapturingGoes ==
    ASSUME TypeOK, NEW task \in Task, task.enable, UNCHANGED seen
    PROVE  Capturing(task) \in Task /\ Goes(Capturing(task), task)
<1>1. Capturing(task).then = task.then  BY DEF Capturing, Task
<1>2. QED  BY <1>1, CapturingTask DEF Goes

LEMMA EnableFailsTurn ==
    ASSUME TypeOK, Shape, NEW t \in Slot, EnableFails(t), tasks[t].enable
    PROVE  \E x \in Task : /\ tasks' = [tasks EXCEPT ![t] = x]
                           /\ Goes(x, tasks[t]) \/ Ends(x, tasks[t], "error")
                           /\ x.pc \notin {"capture", "apply"}
<1>1. CASE mem = NoSnapshot
  <2>1. PICK x \in Task : tasks' = [tasks EXCEPT ![t] = x] /\ Ends(x, tasks[t], "error")
    BY <1>1, FinishEnds DEF EnableFails
  <2>2. x.pc \notin {"capture", "apply"}  BY <2>1 DEF Ends, Idle
  <2>3. QED  BY <2>1, <2>2
<1>2. CASE mem # NoSnapshot
  <2> DEFINE x == [tasks[t] EXCEPT !.pc = "rollback", !.i = 1, !.half = FALSE, !.snap = mem]
  <2>1. tasks[t] \in Task /\ mem \in Snapshot /\ 1 \in 1..Len(WriteOrder)
    BY <1>2, Orders DEF TypeOK
  <2>2. tasks' = [tasks EXCEPT ![t] = x] /\ seen' = seen  BY <1>2 DEF EnableFails
  <2>3. x \in Task /\ x.pc = "rollback" /\ x.enable /\ x.then = tasks[t].then
    BY <2>1 DEF Task
  <2> HIDE DEF x
  <2>4. Goes(x, tasks[t])  BY <2>2, <2>3 DEF Goes
  <2>5. QED  BY <2>2, <2>3, <2>4
<1>3. QED  BY <1>1, <1>2

LEMMA CheckTurn ==
    ASSUME TypeOK, Shape, NEW t \in Slot, Check(t)
    PROVE  \E x \in Task : Turn(t, x) /\ (x.pc \in {"capture", "apply"} => x = Capturing(tasks[t]))
<1> DEFINE task == tasks[t]
<1>1. task \in Task /\ task.pc = "check"  BY DEF TypeOK, Check
<1>2. app' /\ endpoint' = endpoint  BY <1>1, Busy DEF Check
<1>3. ASSUME NEW x \in Task, tasks' = [tasks EXCEPT ![t] = x], disk' \in {disk, NoSnapshot},
             \/ Goes(x, task) /\ (x.pc = "check" \/ x.pc = "undo" \/ x = Capturing(task))
             \/ Ends(x, task, "inactive") /\ disk' = NoSnapshot
      PROVE  \E y \in Task : Turn(t, y) /\ (y.pc \in {"capture", "apply"} => y = Capturing(task))
  <2>1. Turn(t, x)  BY <1>1, <1>2, <1>3 DEF Turn
  <2>2. x.pc \in {"capture", "apply"} => x = Capturing(task)  BY <1>3 DEF Ends, Idle
  <2>3. QED  BY <2>1, <2>2
<1>4. CASE tasks' = [tasks EXCEPT ![t].pc = "undo", ![t].i = 1] /\ UNCHANGED <<disk, seen>>
  <2> DEFINE x == [task EXCEPT !.pc = "undo", !.i = 1]
  <2>1. x \in Task /\ x.pc = "undo" /\ x.enable = task.enable /\ x.then = task.then
    <3>1. 1 \in 1..Len(WriteOrder)  BY Lengths
    <3>2. QED  BY <1>1, <3>1 DEF Task
  <2>2. tasks' = [tasks EXCEPT ![t] = x]  BY <1>4
  <2> HIDE DEF x
  <2>3. Goes(x, task)  BY <1>4, <2>1 DEF Goes
  <2>4. QED  BY <1>3, <1>4, <2>1, <2>2, <2>3
<1>5. CASE /\ MoreLeft(t, CheckOrder) /\ tasks' = [tasks EXCEPT ![t].i = @ + 1]
           /\ UNCHANGED <<disk, seen>>
  <2> DEFINE x == [task EXCEPT !.i = @ + 1]
  <2>1. task.i \in 1..Len(WriteOrder) /\ task.i + 1 \in 1..Len(WriteOrder)
    BY <1>1, <1>5, Lengths DEF Task, MoreLeft
  <2>2. x \in Task /\ x.pc = "check" /\ x.enable = task.enable /\ x.then = task.then
    BY <1>1, <2>1 DEF Task
  <2>3. tasks' = [tasks EXCEPT ![t] = x]  BY <1>5
  <2> HIDE DEF x
  <2>4. Goes(x, task)  BY <1>5, <2>2 DEF Goes
  <2>5. QED  BY <1>3, <1>5, <2>2, <2>3, <2>4
<1>6. CASE disk' = NoSnapshot /\ task.enable /\ tasks' = [tasks EXCEPT ![t] = Capturing(task)]
           /\ UNCHANGED seen
  <2>1. Capturing(task) \in Task /\ Goes(Capturing(task), task)  BY <1>1, <1>6, CapturingGoes
  <2>2. QED  BY <1>3, <1>6, <2>1
<1>7. CASE disk' = NoSnapshot /\ Finish(t, "inactive")
  <2>1. PICK x \in Task : tasks' = [tasks EXCEPT ![t] = x] /\ Ends(x, task, "inactive")
    BY <1>7, FinishEnds
  <2>2. QED  BY <1>3, <1>7, <2>1
<1>8. QED  BY <1>4, <1>5, <1>6, <1>7 DEF Check

LEMMA UndoTurn ==
    ASSUME TypeOK, Shape, NEW t \in Slot, Undo(t)
    PROVE  \E x \in Task : Turn(t, x) /\ (x.pc \in {"capture", "apply"} => x = Capturing(tasks[t]))
<1> DEFINE task == tasks[t]
<1>1. task \in Task /\ task.pc \in {"undo", "rollback"}  BY DEF TypeOK, Undo, Undoing
<1>2. app' /\ endpoint' = endpoint /\ (task.pc = "rollback" => task.enable)
  BY <1>1, Busy DEF Undo, Shape, Fits
<1>3. ASSUME NEW x \in Task, tasks' = [tasks EXCEPT ![t] = x], disk' \in {disk, NoSnapshot},
             \/ Goes(x, task) /\ (x.pc \in {"undo", "rollback"} \/ x = Capturing(task))
             \/ Ends(x, task, "error")
             \/ Ends(x, task, "restored") /\ disk' = NoSnapshot
      PROVE  \E y \in Task : Turn(t, y) /\ (y.pc \in {"capture", "apply"} => y = Capturing(task))
  <2>1. Turn(t, x)  BY <1>1, <1>2, <1>3 DEF Turn
  <2>2. x.pc \in {"capture", "apply"} => x = Capturing(task)  BY <1>3 DEF Ends, Idle
  <2>3. QED  BY <2>1, <2>2
<1>10. CASE /\ WriteAddress(t, WriteOrder[task.i], task.snap.held[WriteOrder[task.i]])
            /\ UNCHANGED <<disk, seen>>
  <2> DEFINE x == [task EXCEPT !.half = TRUE]
  <2>1. x \in Task /\ x.pc = task.pc /\ x.enable = task.enable /\ x.then = task.then
    BY <1>1 DEF Task
  <2>2. tasks' = [tasks EXCEPT ![t] = x]  BY <1>10 DEF WriteAddress
  <2> HIDE DEF x
  <2>3. Goes(x, task)  BY <1>1, <1>2, <1>10, <2>1 DEF Goes
  <2>4. QED  BY <1>1, <1>3, <1>10, <2>1, <2>2, <2>3
<1>4. CASE MoreLeft(t, WriteOrder) /\ NextSetting(t) /\ UNCHANGED <<disk, seen>>
  <2> DEFINE x == [task EXCEPT !.i = @ + 1, !.half = FALSE]
  <2>1. task.i \in 1..Len(WriteOrder) /\ task.i + 1 \in 1..Len(WriteOrder)
    BY <1>1, <1>4, Lengths DEF Task, MoreLeft
  <2>2. x \in Task /\ x.pc = task.pc /\ x.enable = task.enable /\ x.then = task.then
    BY <1>1, <2>1 DEF Task
  <2>3. tasks' = [tasks EXCEPT ![t] = x]  BY <1>4 DEF NextSetting
  <2> HIDE DEF x
  <2>4. Goes(x, task)  BY <1>1, <1>2, <1>4, <2>2 DEF Goes
  <2>5. QED  BY <1>1, <1>3, <1>4, <2>2, <2>3, <2>4
<1>5. CASE disk' = NoSnapshot /\ task.enable /\ tasks' = [tasks EXCEPT ![t] = Capturing(task)]
           /\ UNCHANGED seen
  <2>1. Capturing(task) \in Task /\ Goes(Capturing(task), task)  BY <1>1, <1>5, CapturingGoes
  <2>2. QED  BY <1>3, <1>5, <2>1
<1>6. CASE disk' = NoSnapshot /\ Finish(t, "restored")
  <2>1. PICK x \in Task : tasks' = [tasks EXCEPT ![t] = x] /\ Ends(x, task, "restored")
    BY <1>6, FinishEnds
  <2>2. QED  BY <1>3, <1>6, <2>1
<1>7. CASE disk' \in {disk, NoSnapshot} /\ Finish(t, "error")
  <2>1. PICK x \in Task : tasks' = [tasks EXCEPT ![t] = x] /\ Ends(x, task, "error")
    BY <1>7, FinishEnds
  <2>2. QED  BY <1>3, <1>7, <2>1
<1>8. CASE disk' = disk /\ task.enable /\ EnableFails(t)
  <2>1. PICK x \in Task : /\ tasks' = [tasks EXCEPT ![t] = x]
                          /\ Goes(x, task) \/ Ends(x, task, "error")
                          /\ x.pc \notin {"capture", "apply"}
    BY <1>8, EnableFailsTurn
  <2>2. Turn(t, x)  BY <1>1, <1>2, <1>8, <2>1 DEF Turn
  <2>3. QED  BY <2>1, <2>2
<1>9. QED  BY <1>4, <1>5, <1>6, <1>7, <1>8, <1>10 DEF Undo

LEMMA CaptureTurn ==
    ASSUME TypeOK, Shape, NEW t \in Slot, Capture(t)
    PROVE  \E x \in Task :
             /\ Turn(t, x)
             /\ x.pc \in {"capture", "apply"} => x.snap.endpoint = tasks[t].snap.endpoint
             /\ x.pc = "apply" => x.i = 1 /\ ~x.half
<1> DEFINE task == tasks[t]
           f == ReadOrder[task.i]
           snap == [task.snap EXCEPT !.set[f] = os[f], !.held[f] = held[f]]
<1>1. task \in Task /\ task.pc = "capture"  BY DEF TypeOK, Capture
<1>2. app' /\ endpoint' = endpoint /\ task.enable /\ task.snap \in Snapshot /\ ~task.half
  BY <1>1, Busy DEF Capture, Shape, Fits
<1>3. snap.endpoint = task.snap.endpoint  BY <1>1, <1>2 DEF Snapshot
<1>4. task.i \in 1..Len(WriteOrder) /\ snap \in Snapshot  BY CaptureEffect
<1> HIDE DEF snap
<1>5. CASE /\ MoreLeft(t, ReadOrder) /\ UNCHANGED seen
           /\ tasks' = [tasks EXCEPT ![t].i = @ + 1, ![t].snap = snap]
  <2> DEFINE x == [task EXCEPT !.i = @ + 1, !.snap = snap]
  <2>1. task.i + 1 \in 1..Len(WriteOrder)  BY <1>4, <1>5, Lengths DEF MoreLeft
  <2>2. /\ x \in Task /\ x.pc = "capture" /\ x.enable = task.enable /\ x.then = task.then
        /\ x.snap = snap
    BY <1>1, <1>4, <2>1 DEF Task
  <2>3. tasks' = [tasks EXCEPT ![t] = x]  BY <1>5
  <2> HIDE DEF x
  <2>4. Goes(x, task)  BY <1>2, <1>5, <2>2 DEF Goes
  <2>5. Turn(t, x)  BY <1>1, <1>2, <2>3, <2>4 DEF Turn
  <2>6. QED  BY <1>3, <2>2, <2>5
<1>6. CASE /\ tasks' = [tasks EXCEPT ![t].pc = "apply", ![t].i = 1, ![t].snap = snap]
           /\ UNCHANGED seen
  <2> DEFINE x == [task EXCEPT !.pc = "apply", !.i = 1, !.snap = snap]
  <2>1. 1 \in 1..Len(WriteOrder)  BY Orders
  <2>2. /\ x \in Task /\ x.pc = "apply" /\ x.enable = task.enable /\ x.then = task.then
        /\ x.snap = snap /\ x.i = 1 /\ ~x.half
    BY <1>1, <1>2, <1>4, <2>1 DEF Task
  <2>3. tasks' = [tasks EXCEPT ![t] = x]  BY <1>6
  <2> HIDE DEF x
  <2>4. Goes(x, task)  BY <1>2, <1>6, <2>2 DEF Goes
  <2>5. Turn(t, x)  BY <1>1, <1>2, <2>3, <2>4 DEF Turn
  <2>6. QED  BY <1>3, <2>2, <2>5
<1>7. CASE EnableFails(t)
  <2>1. PICK x \in Task : /\ tasks' = [tasks EXCEPT ![t] = x]
                          /\ Goes(x, task) \/ Ends(x, task, "error")
                          /\ x.pc \notin {"capture", "apply"}
    BY <1>2, <1>7, EnableFailsTurn
  <2>2. Turn(t, x)  BY <1>1, <1>2, <2>1 DEF Turn
  <2>3. QED  BY <2>1, <2>2
<1>8. QED  BY <1>5, <1>6, <1>7 DEF Capture, snap

\* What a takeover writes at setting f keeps the settings up to n at the proxy.
LEMMA AimKept ==
    ASSUME TypeOK, NEW t \in Slot, Aimed(t), tasks[t].pc = "apply",
           NEW f, NEW value, os' = [os EXCEPT ![f] = value], f \in Http => value = endpoint,
           NEW n \in Nat, n <= Len(WriteOrder),
           \A j \in 1..n : WriteOrder[j] = f \/ j \in 1..(tasks[t].i - 1)
    PROVE  \A j \in 1..n : WriteOrder[j] \in Http => os'[WriteOrder[j]] = endpoint
<1>1. ASSUME NEW j \in 1..n, WriteOrder[j] \in Http PROVE os'[WriteOrder[j]] = endpoint
  <2>1. os \in [Field -> Value]  BY DEF TypeOK, Setting
  <2>2. WriteOrder[j] \in Field
    <3>1. j \in 1..Len(WriteOrder)  BY Lengths
    <3>2. QED  BY <3>1, Orders
  <2>3. CASE WriteOrder[j] = f  BY <1>1, <2>1, <2>2, <2>3
  <2>4. CASE WriteOrder[j] # f
    <3>1. os[WriteOrder[j]] = endpoint  BY <1>1, <2>4 DEF Aimed
    <3>2. QED  BY <2>1, <2>2, <2>4, <3>1
  <2>5. QED  BY <2>3, <2>4
<1>2. QED  BY <1>1

\* The last command of a takeover leaves all the HTTP settings taken over.
LEMMA ApplyTurn ==
    ASSUME TypeOK, Shape, NEW t \in Slot, Apply(t)
    PROVE  \E x \in Task : Turn(t, x) /\ (Aimed(t) => AimsAt(x))
<1> DEFINE task == tasks[t]
           f == WriteOrder[task.i]
           address == IF f \in Http THEN task.snap.endpoint ELSE task.snap.held[f]
<1>1. task \in Task /\ task.pc = "apply" /\ (Aimed(t) => task.snap.endpoint = endpoint)
  BY DEF TypeOK, Apply, Aimed
<1>2. app' /\ endpoint' = endpoint /\ task.enable /\ task.snap \in Snapshot
  BY <1>1, Busy DEF Apply, Shape, Fits
<1>3. task.i \in 1..Len(WriteOrder) /\ Len(WriteOrder) \in Nat  BY <1>1, Orders DEF Task
<1>4. f \in Field /\ os \in [Field -> Value] /\ held \in [Field -> Address]
  BY <1>3, Orders DEF TypeOK, Setting
<1>5. CASE WriteAddress(t, f, address) /\ UNCHANGED seen
  <2> DEFINE x == [task EXCEPT !.half = TRUE]
  <2>1. /\ x \in Task /\ x.pc = "apply" /\ x.enable = task.enable /\ x.then = task.then
        /\ x.snap = task.snap /\ x.i = task.i
    BY <1>1 DEF Task
  <2>2. tasks' = [tasks EXCEPT ![t] = x]  BY <1>5 DEF WriteAddress
  <2> HIDE DEF x
  <2>3. Goes(x, task)  BY <1>2, <1>5, <2>1 DEF Goes
  <2>4. Turn(t, x)  BY <1>1, <1>2, <2>2, <2>3 DEF Turn
  <2>5. ASSUME Aimed(t) PROVE AimsAt(x)
    <3>1. f \in Http => address = endpoint  BY <1>1, <2>5
    <3>2. os' = [os EXCEPT ![f] = address] /\ held' = [held EXCEPT ![f] = address]
      BY <1>5 DEF WriteAddress
    <3>3. task.i - 1 \in Nat /\ task.i - 1 <= Len(WriteOrder)  BY <1>3
    <3> HIDE DEF address, f
    <3>4. \A j \in 1..(task.i - 1) : WriteOrder[j] \in Http => os'[WriteOrder[j]] = endpoint
      BY <1>1, <2>5, <3>1, <3>2, <3>3, AimKept
    <3>5. f \in Http => held'[f] = endpoint  BY <1>4, <3>1, <3>2
    <3>6. QED  BY <1>1, <2>1, <2>5, <3>4, <3>5 DEF AimsAt, f
  <2>6. QED  BY <2>1, <2>4, <2>5
\* The setting is finished.
<1>6. ASSUME \/ f \notin Http /\ os' = os
             \/ WriteState(t, f, address, f \in Http),
             Aimed(t)
      PROVE  \A j \in 1..task.i : WriteOrder[j] \in Http => os'[WriteOrder[j]] = endpoint
  <2>1. PICK value : os' = [os EXCEPT ![f] = value] /\ (f \in Http => value = endpoint)
    <3>1. CASE f \notin Http /\ os' = os
      <4>1. os' = [os EXCEPT ![f] = os[f]]  BY <1>4, <3>1
      <4>2. QED  BY <3>1, <4>1
    <3>2. CASE WriteState(t, f, address, f \in Http) /\ f \in Http
      <4>1. address = endpoint /\ endpoint # "none"
        BY <1>1, <1>6, <3>2, ValuesAssumption DEF TypeOK
      <4>2. task.half  BY <3>2, <4>1 DEF WriteState
      <4>3. held[f] = endpoint  BY <1>1, <1>6, <3>2, <4>2 DEF Aimed
      <4>4. os' = [os EXCEPT ![f] = held[f]]  BY <3>2 DEF WriteState
      <4>5. QED  BY <4>3, <4>4
    <3>3. CASE WriteState(t, f, address, f \in Http) /\ f \notin Http
      <4>1. os' = [os EXCEPT ![f] = "off"]  BY <3>3 DEF WriteState
      <4>2. QED  BY <3>3, <4>1
    <3>4. QED  BY <1>6, <3>1, <3>2, <3>3
  <2>2. task.i \in Nat /\ task.i <= Len(WriteOrder)  BY <1>3
  <2>3. \A j \in 1..task.i : WriteOrder[j] = f \/ j \in 1..(task.i - 1)
    <3>1. \A j \in 1..task.i : j = task.i \/ j \in 1..(task.i - 1)  BY <1>3
    <3>2. QED  BY <3>1
  <2> HIDE DEF f
  <2>4. QED  BY <1>1, <1>6, <2>1, <2>2, <2>3, AimKept
<1>7. CASE /\ \/ f \notin Http /\ os' = os
              \/ WriteState(t, f, address, f \in Http)
           /\ MoreLeft(t, WriteOrder) /\ NextSetting(t) /\ UNCHANGED seen
  <2> DEFINE x == [task EXCEPT !.i = @ + 1, !.half = FALSE]
  <2>1. task.i + 1 \in 1..Len(WriteOrder) /\ (task.i + 1) - 1 = task.i
    BY <1>3, <1>7 DEF MoreLeft
  <2>2. /\ x \in Task /\ x.pc = "apply" /\ x.enable = task.enable /\ x.then = task.then
        /\ x.snap = task.snap /\ x.i = task.i + 1 /\ ~x.half
    BY <1>1, <2>1 DEF Task
  <2>3. tasks' = [tasks EXCEPT ![t] = x]  BY <1>7 DEF NextSetting
  <2>4. Aimed(t) => \A j \in 1..task.i : WriteOrder[j] \in Http => os'[WriteOrder[j]] = endpoint
    BY <1>6, <1>7
  <2> HIDE DEF x
  <2>5. Goes(x, task)  BY <1>2, <1>7, <2>2 DEF Goes
  <2>6. Turn(t, x)  BY <1>1, <1>2, <2>3, <2>5 DEF Turn
  <2>7. Aimed(t) => AimsAt(x)  BY <1>1, <2>1, <2>2, <2>4 DEF AimsAt
  <2>8. QED  BY <2>2, <2>6, <2>7
<1>8. CASE /\ \/ f \notin Http /\ os' = os
              \/ WriteState(t, f, address, f \in Http)
           /\ ~MoreLeft(t, WriteOrder) /\ Finish(t, "active")
  <2>1. PICK x \in Task : tasks' = [tasks EXCEPT ![t] = x] /\ Ends(x, task, "active")
    BY <1>8, FinishEnds
  <2>2. task.i = Len(WriteOrder)  BY <1>3, <1>8 DEF MoreLeft
  <2>3. \A g \in Http : \E j \in 1..task.i : WriteOrder[j] = g  BY <2>2, Orders, KindOfFields
  <2>4. Aimed(t) => \A j \in 1..task.i : WriteOrder[j] \in Http => os'[WriteOrder[j]] = endpoint
    BY <1>6, <1>8
  <2>5. Aimed(t) => \A g \in Http : os'[g] = endpoint  BY <2>3, <2>4
  <2>6. Turn(t, x)  BY <1>1, <1>2, <2>1, <2>5 DEF Turn
  <2>7. x.pc \notin {"capture", "apply"}  BY <2>1 DEF Ends, Idle
  <2>8. QED  BY <2>6, <2>7 DEF AimsAt
<1>9. CASE EnableFails(t)
  <2>1. PICK x \in Task : /\ tasks' = [tasks EXCEPT ![t] = x]
                          /\ Goes(x, task) \/ Ends(x, task, "error")
                          /\ x.pc \notin {"capture", "apply"}
    BY <1>2, <1>9, EnableFailsTurn
  <2>2. Turn(t, x)  BY <1>1, <1>2, <2>1 DEF Turn
  <2>3. QED  BY <2>1, <2>2 DEF AimsAt
<1>10. QED  BY <1>5, <1>7, <1>8, <1>9 DEF Apply


LEMMA TurnRoles ==
    ASSUME TypeOK, Roles, NEW t \in Slot, NEW x \in Task, Turn(t, x)
    PROVE  Roles'
<1> DEFINE o == Other(t)
<1>1. tasks'[t] = x /\ tasks'[o] = tasks[o] /\ \A s \in Slot : s = t \/ s = o
  BY NextTask, Slots DEF TypeOK, Turn
<1>2. app' /\ (Goes(x, tasks[t]) \/ \E outcome : Ends(x, tasks[t], outcome))  BY DEF Turn
<1>3. /\ x.pc \in {"resume", "launch"} => ~x.enable
      /\ x.pc # "launch"
  BY <1>2 DEF Goes, Ends, Idle
<1>4. ASSUME NEW s \in Slot
      PROVE  /\ tasks'[s].pc \in {"resume", "launch"} => ~tasks'[s].enable
             /\ tasks'[s].pc = "launch" => tasks'[s].then = "attach"
  BY <1>1, <1>3 DEF Roles
<1>5. tasks'["main"].pc # "idle" /\ ~tasks'["main"].enable => tasks'["main"].then # "nothing"
  <2>1. CASE t = "main"
    <3>1. tasks["main"].pc # "idle"  BY <2>1 DEF Turn
    <3>2. tasks'["main"] = x  BY <1>1, <2>1
    <3>3. QED  BY <1>2, <2>1, <3>1, <3>2 DEF Roles, Goes, Ends, Idle
  <2>2. CASE t # "main"
    <3>1. tasks'["main"] = tasks["main"]  BY <1>1, <2>2 DEF Slot
    <3>2. QED  BY <3>1 DEF Roles
  <2>3. QED  BY <2>1, <2>2
<1>6. QED  BY <1>2, <1>4, <1>5 DEF Roles

\* An operation in the first slot that goes on is under way.
LEMMA MainGoesOn ==
    ASSUME TypeOK, Shape, Roles, SeenSafe, HttpSafe, NEW x \in Task, Turn("main", x)
    PROVE  Told' /\ Overtakes'
<1> DEFINE task == tasks["main"]
<1>1. "main" \in Slot /\ "late" \in Slot /\ Other("main") = "late"  BY DEF Slot, Other
<1>2. tasks'["main"] = x /\ tasks'["late"] = tasks["late"]
  BY <1>1, NextTask DEF TypeOK, Turn
<1>3. task.pc # "idle" /\ app' /\ endpoint' = endpoint /\ (~task.enable => task.then # "nothing")
  BY DEF Turn, Roles
<1>4. task.enable => tasks["late"].pc = "idle"  BY <1>1, <1>3, OtherSlot
<1>5. /\ ~Enabling(tasks["late"])
      /\ tasks["late"].pc # "idle" => seen # "active" \/ Quitting
      /\ tasks["late"].pc # "idle" /\ tasks["late"].then # "nothing" => Quitting
  BY DEF SeenSafe, Overtakes
<1>6. ~Enabling(tasks["late"])'  BY <1>2, <1>5 DEF Enabling
<1>7. CASE Goes(x, task)
  <2>1. Underway'  BY <1>2, <1>7 DEF Goes, Underway
  <2>2. Quitting => Quitting'  BY <1>2, <1>3, <1>7 DEF Goes, Quitting
  <2>3. seen' = seen  BY <1>7 DEF Goes
  <2>4. QED  BY <1>2, <1>5, <1>6, <2>1, <2>2, <2>3 DEF Told, Overtakes
<1>8. CASE Ends(x, task, "error")
  <2>1. seen' = "error"  BY <1>3, <1>8 DEF Ends
  <2>2. ~task.enable /\ task.then = "quit" => Quitting'
    BY <1>2, <1>8 DEF Ends, Quitting
  <2>3. Quitting /\ ~task.enable => Quitting'  BY <2>2 DEF Quitting
  <2>4. tasks["late"].pc # "idle" /\ tasks["late"].then # "nothing" => Quitting'
    BY <1>4, <1>5, <2>3
  <2>5. QED  BY <1>2, <1>6, <2>1, <2>4 DEF Told, Overtakes
<1>9. CASE disk' = NoSnapshot /\ \E outcome \in {"inactive", "restored"} : Ends(x, task, outcome)
  <2>1. seen' \in {"inactive", "restored"}  BY <1>3, <1>9 DEF Ends
  <2>2. ~task.enable /\ task.then = "quit" => Quitting'
    BY <1>2, <1>9 DEF Ends, Quitting
  <2>3. Quitting /\ ~task.enable => Quitting'  BY <2>2 DEF Quitting
  <2>4. tasks["late"].pc # "idle" /\ tasks["late"].then # "nothing" => Quitting'
    BY <1>4, <1>5, <2>3
  <2>5. QED  BY <1>2, <1>6, <1>9, <2>1, <2>4 DEF Told, Overtakes
<1>10. CASE /\ Ends(x, task, "active") /\ task.enable
            /\ Aimed("main") => \A f \in Http : os'[f] = endpoint
  <2>1. seen' = "active"  BY <1>10 DEF Ends
  <2>2. \A f \in Http : os'[f] = endpoint  BY <1>1, <1>10 DEF SeenSafe
  <2>3. QED  BY <1>2, <1>3, <1>4, <1>6, <1>10, <2>1, <2>2 DEF Told, Overtakes
<1>11. QED  BY <1>7, <1>8, <1>9, <1>10 DEF Turn

\* One in the second slot says something only to an application about to end.
LEMMA LateGoesOn ==
    ASSUME TypeOK, Shape, Roles, SeenSafe, HttpSafe, NEW x \in Task, Turn("late", x)
    PROVE  Told' /\ Overtakes'
<1> DEFINE task == tasks["late"]
<1>1. "main" \in Slot /\ "late" \in Slot /\ Other("late") = "main"  BY DEF Slot, Other
<1>2. tasks'["late"] = x /\ tasks'["main"] = tasks["main"]
  BY <1>1, NextTask DEF TypeOK, Turn
<1>3. /\ task.pc # "idle" /\ app' /\ endpoint' = endpoint
      /\ ~task.enable /\ task.then # "attach" /\ disk' \in {disk, NoSnapshot}
      /\ app
  BY <1>1, Busy DEF Turn, SeenSafe, Overtakes, Enabling
<1>4. /\ seen # "active" \/ Quitting
      /\ task.then # "nothing" => Quitting
  BY <1>3 DEF SeenSafe, Overtakes
<1>5. (Quitting <=> Quitting') /\ (Underway <=> Underway')
  BY <1>2 DEF Quitting, Underway
<1>6. ~Enabling(tasks["late"])'
  <2>1. ~x.enable /\ x.then # "attach"  BY <1>3 DEF Turn, Goes, Ends, Idle
  <2>2. QED  BY <1>2, <2>1 DEF Enabling
<1>7. CASE Quitting
  <2>1. Underway' /\ Quitting'  BY <1>5, <1>7 DEF Underway
  <2>2. QED  BY <1>6, <2>1 DEF Told, Overtakes
<1>8. CASE ~Quitting
  <2>1. task.then = "nothing" /\ seen # "active"  BY <1>4, <1>8
  <2>2. seen' = seen /\ x.then = "nothing"
    BY <1>3, <2>1 DEF Turn, Goes, Ends, Idle
  <2>3. seen \in {"restored", "inactive"} => disk' = NoSnapshot \/ Underway'
    BY <1>3, <1>5 DEF SeenSafe, Told
  <2>4. QED  BY <1>2, <1>6, <2>1, <2>2, <2>3 DEF Told, Overtakes
<1>9. QED  BY <1>7, <1>8

LEMMA TurnSeen ==
    ASSUME TypeOK, Shape, Roles, SeenSafe, HttpSafe, NEW t \in Slot, NEW x \in Task, Turn(t, x),
           AimsAt(x)
    PROVE  SeenSafe'
<1> DEFINE o == Other(t)
<1>1. /\ tasks'[t] = x /\ tasks'[o] = tasks[o] /\ o \in Slot
      /\ \A s \in Slot : s = t \/ s = o
  BY NextTask, Slots DEF TypeOK, Turn
<1>2. Told' /\ Overtakes'  BY MainGoesOn, LateGoesOn DEF Slot
<1>3. Aimed(t)'  BY <1>1 DEF Aimed, AimsAt, Turn
<1>4. Aimed(o)'
  <2>1. ~tasks[o].enable  BY OtherSlot DEF Turn
  <2>2. tasks[o].pc \notin {"capture", "apply"}  BY <1>1, <2>1 DEF Shape, Fits
  <2>3. QED  BY <1>1, <2>2 DEF Aimed
<1>5. \A s \in Slot : Aimed(s)'  BY <1>1, <1>3, <1>4
<1>6. QED  BY <1>2, <1>5 DEF SeenSafe

\* The commands of an operation keep the status true.
LEMMA SeenCommand ==
    ASSUME TypeOK, Shape, HttpInv, FullInv, SeenInv, NEW t \in Slot,
           Check(t) \/ Undo(t) \/ Capture(t) \/ Apply(t)
    PROVE  SeenInv'
<1>1. CASE Check(t) \/ Undo(t)
  <2>1. PICK x \in Task : Turn(t, x) /\ (x.pc \in {"capture", "apply"} => x = Capturing(tasks[t]))
    BY <1>1, CheckTurn, UndoTurn
  <2>2. Roles'  BY <2>1, TurnRoles DEF SeenInv
  <2>3. AimsAt(x)  BY <2>1, CapturingTask DEF TypeOK, AimsAt
  <2>4. ASSUME lossCause' = {} PROVE SeenSafe'
    <3>1. lossCause \subseteq lossCause'  BY <1>1 DEF Check, Undo
    <3>2. SeenSafe /\ HttpSafe  BY <2>4, <3>1, NoCauseBefore DEF SeenInv
    <3>3. QED  BY <2>1, <2>3, <3>2, TurnSeen DEF SeenInv
  <2>5. QED  BY <2>2, <2>4 DEF SeenInv
<1>2. CASE Capture(t) \/ Apply(t)
  <2>1. PICK x \in Task :
          /\ Turn(t, x)
          /\ Aimed(t) => AimsAt(x)
    <3>1. CASE Capture(t)
      <4>1. PICK x \in Task :
              /\ Turn(t, x)
              /\ x.pc \in {"capture", "apply"} => x.snap.endpoint = tasks[t].snap.endpoint
              /\ x.pc = "apply" => x.i = 1 /\ ~x.half
        BY <3>1, CaptureTurn
      <4>2. x.pc = "apply" => 1..(x.i - 1) = {}  BY <4>1
      <4>3. Aimed(t) => tasks[t].snap.endpoint = endpoint  BY <3>1 DEF Capture, Aimed
      <4>4. QED  BY <4>1, <4>2, <4>3 DEF AimsAt
    <3>2. CASE Apply(t)  BY <3>2, ApplyTurn
    <3>3. QED  BY <1>2, <3>1, <3>2
  <2>2. Roles'  BY <2>1, TurnRoles DEF SeenInv
  <2>3. ASSUME lossCause' = {} PROVE SeenSafe'
    <3>1. lossCause \subseteq lossCause'
      <4>1. CASE Capture(t)  BY <4>1 DEF Capture
      <4>2. CASE Apply(t)  BY <4>2 DEF Apply
      <4>3. QED  BY <1>2, <4>1, <4>2
    <3>2. SeenSafe /\ HttpSafe /\ Aimed(t)
      BY <2>3, <3>1, NoCauseBefore DEF SeenInv, SeenSafe
    <3>3. QED  BY <2>1, <3>2, TurnSeen DEF SeenInv
  <2>4. QED  BY <2>2, <2>3 DEF SeenInv
<1>3. QED  BY <1>1, <1>2

\* A slot begins an operation.
LEMMA Begins ==
    ASSUME TypeOK, Roles, app, UNCHANGED <<app, endpoint>>,
           NEW t \in Slot, NEW x \in Task, tasks' = [tasks EXCEPT ![t] = x],
           x.pc \in {"resume", "check", "undo", "capture"},
           \/ x.enable /\ x.pc # "resume"
           \/ ~x.enable /\ x.then # "nothing"
    PROVE  Roles' /\ tasks'[t] = x /\ tasks'[Other(t)] = tasks[Other(t)]
<1>1. "main" \in Slot /\ \A s \in Slot : s = t \/ s = Other(t)  BY Slots DEF Slot
<1>2. tasks'[t] = x /\ tasks'[Other(t)] = tasks[Other(t)]  BY NextTask DEF TypeOK
<1>3. ASSUME NEW s \in Slot
      PROVE  /\ tasks'[s].pc \in {"resume", "launch"} => ~tasks'[s].enable
             /\ tasks'[s].pc = "launch" => tasks'[s].then = "attach"
  BY <1>1, <1>2 DEF Roles
<1>4. tasks'["main"].pc # "idle" /\ ~tasks'["main"].enable => tasks'["main"].then # "nothing"
  BY <1>1, <1>2 DEF Roles
<1>5. QED  BY <1>2, <1>3, <1>4 DEF Roles

LEMMA MainBegins ==
    ASSUME TypeOK, Roles, app, UNCHANGED <<app, endpoint>>,
           NEW x \in Task, tasks' = [tasks EXCEPT !["main"] = x],
           x.pc \in {"resume", "check", "undo", "capture"},
           \/ x.enable /\ x.pc # "resume"
           \/ ~x.enable /\ x.then # "nothing"
    PROVE  Roles' /\ tasks'["main"] = x /\ tasks'["late"] = tasks["late"]
<1>1. "main" \in Slot /\ Other("main") = "late"  BY DEF Slot, Other
<1>2. QED  BY <1>1, Begins

\* The second slot never takes anything over.
LEMMA LateAims ==
    ASSUME Shape, ~Enabling(tasks["late"]), tasks'["late"] = tasks["late"]
    PROVE  Aimed("late")'
  BY DEF Aimed, Shape, Fits, Enabling, Slot

\* A restore that begins in the first slot, for a stop or an attach.
LEMMA SeenRestore ==
    ASSUME TypeOK, Shape, HttpInv, FullInv, SeenInv, NEW then \in {"stop", "attach"},
           BeginRestore("main", then), app, tasks["main"].pc \in {"idle", "launch"},
           UNCHANGED <<os, held, disk, app, endpoint>>
    PROVE  SeenInv'
<1>1. "main" \in Slot /\ then \in Then /\ \A s \in Slot : s = "main" \/ s = "late"
  BY DEF Slot, Then
<1>2. PICK x \in Task :
        /\ tasks' = [tasks EXCEPT !["main"] = x]
        /\ ~x.enable /\ x.then = then /\ x.pc \in {"resume", "undo", "check"}
        /\ IF x.pc = "resume" THEN disk = NoSnapshot /\ seen' = "inactive" ELSE seen' = seen
  BY <1>1, BeginRestoreEffect
<1>3. Roles' /\ tasks'["main"] = x /\ tasks'["late"] = tasks["late"]
  BY <1>2, MainBegins DEF SeenInv
<1>4. ASSUME lossCause' = {} PROVE SeenSafe'
  <2>1. lossCause \subseteq lossCause'  BY DEF BeginRestore
  <2>2. SeenSafe /\ Roles  BY <1>4, <2>1, NoCauseBefore DEF SeenInv
  <2>3. ~Quitting  BY <2>2 DEF Quitting, Roles, Slot
  <2>4. /\ ~Enabling(tasks["late"])
        /\ tasks["late"].pc # "idle" => seen # "active" /\ tasks["late"].then = "nothing"
    BY <2>2, <2>3 DEF SeenSafe, Overtakes
  <2>5. Overtakes'  BY <1>2, <1>3, <2>4 DEF Overtakes, Enabling
  <2>6. Told'
    <3>1. CASE x.pc = "resume"  BY <1>2, <3>1 DEF Told
    <3>2. CASE x.pc # "resume"
      <4>1. Underway'  BY <1>2, <1>3, <3>2 DEF Underway
      <4>2. QED  BY <4>1 DEF Told
    <3>3. QED  BY <3>1, <3>2
  <2>7. Aimed("main")' /\ Aimed("late")'  BY <1>2, <1>3, <2>4, LateAims DEF Aimed
  <2>8. QED  BY <1>1, <2>5, <2>6, <2>7 DEF SeenSafe
<1>5. QED  BY <1>3, <1>4 DEF SeenInv

\* An enable that begins in the first slot.
LEMMA SeenEnable ==
    ASSUME TypeOK, Shape, HttpInv, FullInv, SeenInv, BeginEnable("main"), app,
           tasks["main"].pc \in {"idle", "resume"}, UNCHANGED <<os, held, disk, app, endpoint>>
    PROVE  SeenInv'
<1>1. "main" \in Slot /\ \A s \in Slot : s = "main" \/ s = "late"  BY DEF Slot
<1>2. PICK x \in Task :
        /\ tasks' = [tasks EXCEPT !["main"] = x]
        /\ x.enable
        /\ x.pc = "check" \/ (x.pc = "capture" /\ x.snap.endpoint = endpoint)
  BY <1>1, BeginEnableEffect
<1>3. Roles' /\ tasks'["main"] = x /\ tasks'["late"] = tasks["late"]
  BY <1>2, MainBegins DEF SeenInv
<1>4. ASSUME lossCause' = {} PROVE SeenSafe'
  <2>1. lossCause \subseteq lossCause' /\ "raced" \notin lossCause'  BY <1>4 DEF BeginEnable
  <2>2. SeenSafe  BY <1>4, <2>1, NoCauseBefore DEF SeenInv
  <2>3. tasks["late"].pc = "idle"
    <3> DEFINE task == [pc |-> "check", enable |-> TRUE, i |-> 1, half |-> FALSE, snap |-> disk,
                        then |-> "nothing"]
    <3>1. Enabling(task) /\ Other("main") = "late"  BY DEF Enabling, Other
    <3>2. lossCause' = lossCause \cup RaceCause("main", task)  BY DEF BeginEnable
    <3>3. QED  BY <2>1, <3>1, <3>2 DEF RaceCause
  <2>4. ~Enabling(tasks["late"])  BY <2>2 DEF SeenSafe, Overtakes
  <2>5. Overtakes'  BY <1>3, <2>3, <2>4 DEF Overtakes, Enabling
  <2>6. Underway'  BY <1>2, <1>3 DEF Underway
  <2>7. Aimed("main")' /\ Aimed("late")'  BY <1>2, <1>3, <2>4, LateAims DEF Aimed
  <2>8. QED  BY <1>1, <2>5, <2>6, <2>7 DEF SeenSafe, Told
<1>5. QED  BY <1>3, <1>4 DEF SeenInv

\* With the application gone nothing is under way.
LEMMA SeenEnded ==
    ASSUME Ended
    PROVE  SeenInv'
<1>1. /\ app' = FALSE /\ seen' = "inactive"
      /\ tasks'["main"] = Idle /\ tasks'["late"] = Idle /\ \A t \in Slot : tasks'[t] = Idle
  BY DEF Ended, Slot
<1>2. Roles'  BY <1>1 DEF Roles, Idle
<1>3. Told' /\ Overtakes'  BY <1>1 DEF Told, Overtakes, Enabling, Idle
<1>4. \A t \in Slot : Aimed(t)'  BY <1>1 DEF Aimed, Idle
<1>5. QED  BY <1>2, <1>3, <1>4 DEF SeenInv, SeenSafe

LEMMA SeenResume ==
    ASSUME TypeOK, Shape, HttpInv, FullInv, SeenInv, NEW t \in Slot, Resume(t)
    PROVE  SeenInv'
<1>1. app /\ tasks[t].pc = "resume" /\ ~tasks[t].enable /\ Roles
  BY Busy DEF Resume, SeenInv, Roles
<1>2. /\ "main" \in Slot /\ "late" \in Slot /\ Other("main") = "late" /\ Other("late") = "main"
      /\ \A s \in Slot : s = "main" \/ s = "late"
  BY DEF Slot, Other
<1>3. CASE /\ tasks[t].then = "stop" /\ tasks' = [tasks EXCEPT ![t] = Idle]
           /\ UNCHANGED <<os, held, disk, app, endpoint, seen, lossCause>>
  <2>1. tasks'[t] = Idle /\ tasks'[Other(t)] = tasks[Other(t)]
    BY <1>3, NextTask, IdleTask DEF TypeOK
  <2>2. \A s \in Slot : tasks'[s] = Idle \/ tasks'[s] = tasks[s]  BY <2>1, Slots
  <2>3. /\ app' = app /\ seen' = seen
        /\ \A s \in Slot : /\ tasks'[s].pc \in {"resume", "launch"} => ~tasks'[s].enable
                           /\ tasks'[s].pc = "launch" => tasks'[s].then = "attach"
    BY <1>1, <1>3, <2>2 DEF Roles, Idle
  <2>4. Roles'  BY <1>1, <1>2, <2>2, <2>3 DEF Roles, Idle
  <2>5. ASSUME lossCause' = {} PROVE SeenSafe'
    <3>1. SeenSafe  BY <1>3, <2>5 DEF SeenInv
    <3>2. (Underway => Underway') /\ (Quitting => Quitting')
      <4>1. CASE t = "main"
        <5>1. ~Underway /\ ~Quitting  BY <1>1, <1>3, <4>1 DEF Underway, Quitting
        <5>2. QED  BY <5>1
      <4>2. CASE t = "late"
        <5>1. tasks'["main"] = tasks["main"]  BY <1>2, <2>1, <4>2
        <5>2. QED  BY <5>1 DEF Underway, Quitting
      <4>3. QED  BY <1>2, <4>1, <4>2
    <3>3. Told'  BY <1>3, <3>1, <3>2 DEF SeenSafe, Told
    <3>4. tasks'["late"] = Idle \/ tasks'["late"] = tasks["late"]  BY <1>2, <2>2
    <3>5. Overtakes'
      BY <1>3, <3>1, <3>2, <3>4 DEF SeenSafe, Overtakes, Enabling, Idle
    <3>6. \A s \in Slot : Aimed(s)'  BY <1>3, <2>2, <3>1 DEF SeenSafe, Aimed, Idle
    <3>7. QED  BY <3>3, <3>5, <3>6 DEF SeenSafe
  <2>6. QED  BY <2>4, <2>5 DEF SeenInv
<1>4. CASE tasks[t].then = "attach" /\ BeginEnable(t) /\ UNCHANGED <<os, held, disk, app, endpoint>>
  <2>1. CASE t = "main"  BY <1>1, <1>4, <2>1, SeenEnable
  <2>2. CASE t = "late"
    <3>1. PICK x \in Task : /\ tasks' = [tasks EXCEPT ![t] = x] /\ x.enable
                            /\ x.pc \in {"check", "capture"}
      BY <1>4, BeginEnableEffect
    <3>2. Roles'  BY <1>1, <1>4, <3>1, Begins
    <3>3. lossCause' # {}
      <4>1. SUFFICES ASSUME lossCause' = {} PROVE FALSE  OBVIOUS
      <4>2. lossCause = {}  BY <1>4, <4>1 DEF BeginEnable
      <4>3. QED  BY <1>4, <2>2, <4>2 DEF SeenInv, SeenSafe, Overtakes, Enabling
    <3>4. QED  BY <3>2, <3>3 DEF SeenInv
  <2>3. QED  BY <1>2, <2>1, <2>2
<1>5. CASE Ended  BY <1>5, SeenEnded
<1>6. QED  BY <1>3, <1>4, <1>5 DEF Resume

LEMMA SeenStarted ==
    ASSUME TypeOK, Shape, HttpInv, FullInv, SeenInv, Started
    PROVE  SeenInv'
<1>1. PICK t \in Slot : tasks[t].pc = "launch" /\ BeginRestore(t, "attach")
  BY DEF Started
<1>2. app /\ UNCHANGED <<os, held, disk, app, endpoint>>  BY <1>1, Busy DEF Started
<1>3. CASE t = "main"  BY <1>1, <1>2, <1>3, SeenRestore
<1>4. CASE t = "late"
  <2>1. PICK x \in Task : /\ tasks' = [tasks EXCEPT ![t] = x] /\ ~x.enable /\ x.then = "attach"
                          /\ x.pc \in {"resume", "check", "undo"}
    BY <1>1, BeginRestoreEffect DEF Then
  <2>2. Roles'  BY <1>2, <2>1, Begins DEF SeenInv
  <2>3. lossCause' # {}
    <3>1. SUFFICES ASSUME lossCause' = {} PROVE FALSE  OBVIOUS
    <3>2. lossCause = {}  BY <1>1, <3>1 DEF BeginRestore
    <3>3. tasks["late"].then = "attach"  BY <1>1, <1>4 DEF SeenInv, Roles
    <3>4. QED  BY <3>2, <3>3 DEF SeenInv, SeenSafe, Overtakes, Enabling
  <2>4. QED  BY <2>2, <2>3 DEF SeenInv
<1>5. QED  BY <1>3, <1>4 DEF Slot

\* The operation of the first slot is overtaken.
LEMMA SeenQuit ==
    ASSUME TypeOK, Shape, SeenInv, Quit
    PROVE  SeenInv'
<1> DEFINE old == tasks["main"]
<1>1. PICK x \in Task :
         /\ tasks' = [main |-> x, late |-> old] /\ ~x.enable /\ x.then = "quit"
         /\ x.pc \in {"resume", "undo", "check"}
  BY QuitEffect
<1>2. app /\ UNCHANGED <<app, seen>> /\ \A s \in Slot : s = "main" \/ s = "late"
  BY DEF Quit, Slot
<1>3. old \in Task /\ Fits(old) /\ "main" \in Slot  BY DEF TypeOK, Shape, Slot
<1>4. tasks'["main"] = x /\ tasks'["late"] = old  BY <1>1, <1>3, TwoTasks
<1>5. /\ old.pc \in {"resume", "launch"} => ~old.enable
      /\ old.pc = "launch" => old.then = "attach"
  BY <1>3 DEF SeenInv, Roles
<1>6. Roles'
  <2>1. ASSUME NEW s \in Slot
        PROVE  /\ tasks'[s].pc \in {"resume", "launch"} => ~tasks'[s].enable
               /\ tasks'[s].pc = "launch" => tasks'[s].then = "attach"
    BY <1>1, <1>2, <1>4, <1>5
  <2>2. QED  BY <1>1, <1>2, <1>4, <2>1 DEF Roles
<1>7. ASSUME lossCause' = {} PROVE SeenSafe'
  <2>1. ~Enabling(old)
    <3>1. CASE old.pc = "idle"  BY <1>3, <3>1 DEF Fits, Idle, Enabling
    <3>2. CASE old.pc # "idle"  BY <1>7, <3>2 DEF Quit
    <3>3. QED  BY <3>1, <3>2
  <2>2. Quitting' /\ Underway'  BY <1>1, <1>4 DEF Quitting, Underway
  <2>3. Told' /\ Overtakes'  BY <1>4, <2>1, <2>2 DEF Told, Overtakes, Enabling
  <2>4. old.pc \notin {"capture", "apply"}  BY <1>3, <2>1 DEF Fits, Enabling
  <2>5. \A s \in Slot : Aimed(s)'  BY <1>1, <1>2, <1>4, <2>4 DEF Aimed
  <2>6. QED  BY <2>3, <2>5 DEF SeenSafe
<1>8. QED  BY <1>6, <1>7 DEF SeenInv

LEMMA SeenTimeOut ==
    ASSUME TypeOK, Shape, SeenInv, TimeOut
    PROVE  SeenInv'
<1> DEFINE old == tasks["main"]
<1>1. PICK x \in Task, y \in Task :
         /\ tasks' = [main |-> x, late |-> y]
         /\ x.pc = "resume" /\ ~x.enable /\ x.then = old.then
         /\ Moved(y, old) /\ ~y.enable /\ y.then = "nothing"
  BY TimeOutEffect
<1>2. /\ old.pc \in {"check", "undo"} /\ ~old.enable /\ seen' = "error" /\ app' = app
      /\ \A s \in Slot : s = "main" \/ s = "late"
  BY DEF TimeOut, Slot
<1>3. tasks'["main"] = x /\ tasks'["late"] = y /\ y.pc = old.pc /\ "main" \in Slot
  BY <1>1, TwoTasks DEF Moved, Slot
<1>4. old.then # "nothing" /\ app  BY <1>2, <1>3, Busy DEF SeenInv, Roles
<1>5. Roles'
  <2>1. ASSUME NEW s \in Slot
        PROVE  /\ tasks'[s].pc \in {"resume", "launch"} => ~tasks'[s].enable
               /\ tasks'[s].pc = "launch" => tasks'[s].then = "attach"
    BY <1>1, <1>2, <1>3
  <2>2. QED  BY <1>1, <1>2, <1>3, <1>4, <2>1 DEF Roles
<1>6. Told' /\ Overtakes'  BY <1>1, <1>2, <1>3 DEF Told, Overtakes, Enabling
<1>7. \A s \in Slot : Aimed(s)'  BY <1>1, <1>2, <1>3 DEF Aimed
<1>8. QED  BY <1>5, <1>6, <1>7 DEF SeenInv, SeenSafe

LEMMA SeenLaunch ==
    ASSUME TypeOK, Shape, SeenInv, Launch
    PROVE  SeenInv'
<1>1. "main" \in Slot /\ "late" \in Slot /\ \A s \in Slot : s = "main" \/ s = "late"
  BY DEF Slot
<1>2. tasks["main"] = Idle /\ tasks["late"] = Idle
  BY <1>1 DEF Launch, Shape, AllIdle, Fits
<1> DEFINE x == [Idle EXCEPT !.pc = "launch", !.then = "attach"]
<1>3. tasks' = [tasks EXCEPT !["main"] = x]  BY <1>2 DEF Launch
<1>4. x.pc = "launch" /\ ~x.enable /\ x.then = "attach"  BY DEF Idle
<1> HIDE DEF x
<1>5. tasks'["main"] = x /\ tasks'["late"] = Idle  BY <1>1, <1>2, <1>3 DEF TypeOK
<1>6. app' /\ seen' = seen /\ seen = "inactive"  BY DEF Launch, SeenInv, Roles
<1>7. Roles'
  <2>1. ASSUME NEW s \in Slot
        PROVE  /\ tasks'[s].pc \in {"resume", "launch"} => ~tasks'[s].enable
               /\ tasks'[s].pc = "launch" => tasks'[s].then = "attach"
    BY <1>1, <1>4, <1>5 DEF Idle
  <2>2. QED  BY <1>4, <1>5, <1>6, <2>1 DEF Roles
<1>8. Told' /\ Overtakes'
  BY <1>4, <1>5, <1>6 DEF Told, Overtakes, Underway, Enabling, Idle
<1>9. \A s \in Slot : Aimed(s)'  BY <1>1, <1>4, <1>5 DEF Aimed, Idle
<1>10. QED  BY <1>7, <1>8, <1>9 DEF SeenInv, SeenSafe

LEMMA SeenUserSets ==
    ASSUME Shape, SeenInv, UserSets
    PROVE  SeenInv'
<1>1. ~app /\ UNCHANGED <<app, tasks, seen>>  BY DEF UserSets
<1>2. (\A t \in Slot : tasks'[t] = Idle) /\ seen' = "inactive"
  BY <1>1 DEF Shape, AllIdle, Fits, SeenInv, Roles
<1>3. tasks'["main"] = Idle /\ tasks'["late"] = Idle  BY <1>2 DEF Slot
<1>4. Roles'  BY <1>1, <1>2, <1>3 DEF Roles, Idle
<1>5. Told' /\ Overtakes'  BY <1>1, <1>2, <1>3 DEF Told, Overtakes, Enabling, Idle
<1>6. \A t \in Slot : Aimed(t)'  BY <1>2 DEF Aimed, Idle
<1>7. QED  BY <1>4, <1>5, <1>6 DEF SeenInv, SeenSafe

LEMMA SeenStep ==
    ASSUME TypeOK, Shape, HttpInv, FullInv, SeenInv, [Next]_vars
    PROVE  SeenInv'
<1>1. CASE Command  BY <1>1, SeenRestore DEF Command
<1>2. CASE Ensure  BY <1>2, SeenEnable DEF Ensure
<1>3. CASE Started  BY <1>3, SeenStarted
<1>4. CASE Quit  BY <1>4, SeenQuit
<1>5. CASE TimeOut  BY <1>5, SeenTimeOut
<1>6. CASE Crash  BY <1>6, SeenEnded DEF Crash
<1>7. CASE Launch  BY <1>7, SeenLaunch
<1>8. CASE UserSets  BY <1>8, SeenUserSets
<1>9. ASSUME NEW t \in Slot, Step(t) PROVE SeenInv'
  BY <1>9, SeenCommand, SeenResume DEF Step
<1>10. CASE UNCHANGED vars
  BY <1>10 DEF vars, SeenInv, SeenSafe, Roles, Told, Overtakes, Aimed, Underway, Quitting, Enabling
<1>11. QED
  BY <1>1, <1>2, <1>3, <1>4, <1>5, <1>6, <1>7, <1>8, <1>9, <1>10 DEF Next

LEMMA SeenInit ==
    ASSUME Init
    PROVE  SeenInv
<1>1. (\A t \in Slot : tasks[t] = Idle) /\ ~app /\ seen = "inactive"  BY DEF Init
<1>2. tasks["main"] = Idle /\ tasks["late"] = Idle  BY <1>1 DEF Slot
<1>3. Roles /\ Told /\ Overtakes
  BY <1>1, <1>2 DEF Roles, Told, Overtakes, Enabling, Idle
<1>4. \A t \in Slot : Aimed(t)  BY <1>1 DEF Aimed, Idle
<1>5. QED  BY <1>3, <1>4 DEF SeenInv, SeenSafe

LEMMA SeenTells ==
    ASSUME TypeOK, Shape, HttpInv, FullInv, SeenInv
    PROVE  StatusTellsSettings
<1>1. SUFFICES ASSUME app, AllIdle, lossCause = {}
               PROVE  /\ seen \in {"restored", "inactive"} => os = user
                      /\ seen = "active" => Http = ManagedBy(endpoint)
  BY DEF StatusTellsSettings
<1>2. FullSafe /\ Told  BY <1>1 DEF FullInv, SeenInv, SeenSafe
<1>3. ~Underway /\ \A t \in Slot : ~Undoing(t)
  BY <1>1 DEF AllIdle, Underway, Quitting, Undoing, Slot
<1>4. seen \in {"restored", "inactive"} => os = user
  BY <1>1, <1>2, <1>3 DEF Told, FullSafe
<1>5. seen = "active" => Http = ManagedBy(endpoint)
  BY <1>2, <1>3 DEF Told, ManagedBy
<1>6. QED  BY <1>4, <1>5

\* When nothing is under way, the status that ProxyService reports is true,
\* unless a read was blind, a restore was cut or operations raced
\* (StatusTellsSettings): what an operation leaves wrong another one, under way
\* and not overtaken, sets right before it ends.
THEOREM StatusIsTrue == Spec => []StatusTellsSettings
<1>1. Init => IInv /\ SeenInv  BY TypeInit, HttpInit, FullInit, SeenInit DEF IInv
<1>2. IInv /\ SeenInv /\ [Next]_vars => (IInv /\ SeenInv)'
  BY TypeStep, HttpStep, FullStep, SeenStep DEF IInv
<1>3. IInv /\ SeenInv => StatusTellsSettings  BY SeenTells DEF IInv
<1>4. QED  BY <1>1, <1>2, <1>3, PTL DEF Spec
=============================================================================
