------------------------ MODULE CircuitBreakerProofs ------------------------
(* Proofs about CircuitBreaker, for every set of tasks and configurations.  *)
EXTENDS CircuitBreaker, FiniteSetTheorems, TLAPS

-----------------------------------------------------------------------------
USE DEF stamp

(* Type correctness *)

\* What the fetch_add and fetch_sub of an AtomicU32 return stays an AtomicU32.
LEMMA CounterTypes ==
    ASSUME NEW n \in 0 .. Word - 1
    PROVE  /\ Incr(n) \in 0 .. Word - 1
           /\ Decr(n) \in 0 .. Word - 1
           /\ Released(n) \in 0 .. Word - 1
BY WordAssumption DEF Incr, Decr, Released

\* A step of one process changes its label to another label.
LEMMA GotoType ==
    ASSUME TypeOK, NEW p \in Tasks \cup Admins, NEW from, NEW to \in Label,
           Goto(p, from, to)
    PROVE  pc' \in [Tasks \cup Admins -> Label]
BY DEF Goto, TypeOK

\* A move keeps the types.
LEMMA MoveType ==
    ASSUME TypeOK, NEW p \in Tasks, NEW from, NEW to \in Label,
           Move(p, from, to)
    PROVE  TypeOK'
<1>1. pc' \in [Tasks \cup Admins -> Label]  BY GotoType DEF Move
<1>2. QED  BY <1>1 DEF Move, TypeOK, counts, permits

LEMMA WordPositive == Word \in Nat /\ Word > 1
<1>1. Cardinality(Tasks) \in Nat  BY TasksAssumption, FS_CardinalityType
<1>2. QED  BY <1>1, WordAssumption

LEMMA TypeInit == Init => TypeOK
<1> SUFFICES ASSUME Init PROVE TypeOK  OBVIOUS
<1>1. 0 \in 0 .. Word - 1 /\ 0 \in Nat  BY WordPositive
<1>2. pc \in [Tasks \cup Admins -> Label]  BY DEF Init, Label
<1>3. seen \in [Tasks -> CircuitState]  BY DEF Init, CircuitState
<1>4. permit \in [Tasks -> BOOLEAN]  BY DEF Init
<1>5. overlap \in BOOLEAN /\ unstamped \in BOOLEAN  BY DEF Init
<1>6. QED  BY <1>1, <1>2, <1>3, <1>4, <1>5, Zenon DEF Init, TypeOK, CircuitState

LEMMA HalfOpenType ==
    ASSUME TypeOK, NEW p \in Tasks, NEW from, NEW to \in Label,
           Goto(p, from, to), TransitionToHalfOpen,
           UNCHANGED <<stamp, config, seen>>
    PROVE  TypeOK'
<1>1. pc' \in [Tasks \cup Admins -> Label]  BY GotoType
<1>2. CASE state # "open"
  BY <1>1, <1>2 DEF TransitionToHalfOpen, TypeOK, counts, permits
<1>3. CASE state = "open"
  <2>1. overlap' \in BOOLEAN  BY <1>3, Zenon DEF TransitionToHalfOpen
  <2>2. QED  BY <1>1, <1>3, <2>1, WordPositive
             DEF TransitionToHalfOpen, TypeOK, CircuitState
<1>4. QED  BY <1>2, <1>3

LEMMA TypeStep == TypeOK /\ [Next]_vars => TypeOK'
<1> SUFFICES ASSUME TypeOK, [Next]_vars PROVE TypeOK'  OBVIOUS
<1>1. ASSUME NEW t \in Tasks, IsAvailable(t)  PROVE TypeOK'
  <2>1. CASE SelectRead(t)      BY <2>1, MoveType DEF SelectRead, Label
  <2>2. CASE SelectElapsed(t)   BY <2>2, MoveType DEF SelectElapsed, Label
  <2>3. CASE SelectHalfOpen(t)  BY <2>3, HalfOpenType DEF SelectHalfOpen, Label
  <2>4. QED  BY <1>1, <2>1, <2>2, <2>3 DEF IsAvailable
<1>2. ASSUME NEW t \in Tasks, NotNeeded(t) \/ Bypass(t)  PROVE TypeOK'
  BY <1>2, MoveType DEF NotNeeded, Bypass, Label
<1>3. ASSUME NEW t \in Tasks, AllowRequest(t)  PROVE TypeOK'
  <2>1. CASE AllowRead(t)
    BY <2>1, MoveType DEF AllowRead, Label, TypeOK, CircuitState
  <2>2. CASE AllowElapsed(t)   BY <2>2, MoveType DEF AllowElapsed, Label
  <2>3. CASE AllowHalfOpen(t)  BY <2>3, HalfOpenType DEF AllowHalfOpen, Label
  <2>4. CASE AllowReread(t)
    BY <2>4, MoveType DEF AllowReread, Label, TypeOK, CircuitState
  <2>5. CASE ProbeAdd(t)
    <3>1. pc' \in [Tasks \cup Admins -> Label]
      BY <2>5, GotoType DEF ProbeAdd, Label
    <3>2. QED  BY <2>5, <3>1, CounterTypes DEF ProbeAdd, TypeOK, counts
  <2>6. CASE ProbeSub(t)
    <3>1. pc' \in [Tasks \cup Admins -> Label]
      BY <2>6, GotoType DEF ProbeSub, Label
    <3>2. QED  BY <2>6, <3>1, CounterTypes DEF ProbeSub, TypeOK, counts
  <2>7. QED  BY <1>3, <2>1, <2>2, <2>3, <2>4, <2>5, <2>6 DEF AllowRequest
<1>4. ASSUME NEW t \in Tasks, RecordSuccess(t)  PROVE TypeOK'
  <2>1. CASE SuccessRead(t)
    <3>1. pc' \in [Tasks \cup Admins -> Label]
      BY <2>1, GotoType DEF SuccessRead, Label
    <3>2. QED  BY <2>1, <3>1 DEF SuccessRead, TypeOK, counts, permits
  <2>2. CASE SuccessRelease(t)
    <3>1. pc' \in [Tasks \cup Admins -> Label]
      BY <2>2, GotoType DEF SuccessRelease, Label
    <3>2. QED  BY <2>2, <3>1, CounterTypes
               DEF SuccessRelease, ReleasePermit, TypeOK, counts
  <2>3. CASE SuccessCount(t)
    <3>1. pc' \in [Tasks \cup Admins -> Label]
      BY <2>3, GotoType DEF SuccessCount, Label
    <3>2. seen' \in [Tasks -> CircuitState]
      BY <2>3 DEF SuccessCount, TypeOK, CircuitState
    <3>3. QED  BY <2>3, <3>1, <3>2, CounterTypes, WordPositive
               DEF SuccessCount, TypeOK, permits
  <2>4. CASE CloseState(t)
    <3>1. pc' \in [Tasks \cup Admins -> Label]
      BY <2>4, GotoType DEF CloseState, Label
    <3>2. QED  BY <2>4, <3>1
               DEF CloseState, TypeOK, counts, permits, CircuitState
  <2>5. QED  BY <1>4, <2>1, <2>2, <2>3, <2>4 DEF RecordSuccess
<1>5. ASSUME NEW t \in Tasks, RecordFailure(t)  PROVE TypeOK'
  <2>1. CASE FailureRead(t)
    <3>1. pc' \in [Tasks \cup Admins -> Label]
      BY <2>1, GotoType DEF FailureRead, Label
    <3>2. QED  BY <2>1, <3>1 DEF FailureRead, TypeOK, counts, permits
  <2>2. CASE FailureRelease(t)
    <3>1. pc' \in [Tasks \cup Admins -> Label]
      BY <2>2, GotoType DEF FailureRelease, Label
    <3>2. QED  BY <2>2, <3>1, CounterTypes
               DEF FailureRelease, ReleasePermit, TypeOK, counts, permits
  <2>3. CASE FailureCount(t)
    <3>1. pc' \in [Tasks \cup Admins -> Label]
      BY <2>3, GotoType DEF FailureCount, Label
    <3>2. seen' \in [Tasks -> CircuitState]
      BY <2>3 DEF FailureCount, TypeOK, CircuitState
    <3>3. QED  BY <2>3, <3>1, <3>2, CounterTypes, WordPositive
               DEF FailureCount, TypeOK, permits
  <2>4. CASE OpenState(t)
    <3>1. pc' \in [Tasks \cup Admins -> Label]
      BY <2>4, GotoType DEF OpenState, Label
    <3>2. QED  BY <2>4, <3>1
               DEF OpenState, TypeOK, counts, permits, CircuitState
  <2>5. CASE OpenStamp(t)
    <3>1. pc' \in [Tasks \cup Admins -> Label]
      BY <2>5, GotoType DEF OpenStamp, Label
    <3>2. QED  BY <2>5, <3>1 DEF OpenStamp, TypeOK, counts, permits
  <2>6. CASE OpenCounts(t)
    <3>1. pc' \in [Tasks \cup Admins -> Label]
      BY <2>6, GotoType DEF OpenCounts, Label
    <3>2. QED  BY <2>6, <3>1, WordPositive DEF OpenCounts, TypeOK, permits
  <2>7. QED  BY <1>5, <2>1, <2>2, <2>3, <2>4, <2>5, <2>6 DEF RecordFailure
<1>6. ASSUME NEW t \in Tasks, Neutral(t)  PROVE TypeOK'
  <2>1. pc' \in [Tasks \cup Admins -> Label]
    BY <1>6, GotoType DEF Neutral, Label
  <2>2. QED  BY <1>6, <2>1, CounterTypes
             DEF Neutral, ReleasePermit, TypeOK, counts, permits
<1>7. ASSUME NEW t \in Tasks, Cancel(t)  PROVE TypeOK'
  <2>1. pc' \in [Tasks \cup Admins -> Label]
    BY <1>7, GotoType DEF Cancel, Label
  <2>2. leaked' \in Nat
    <3>1. leaked' = leaked \/ leaked' = leaked + 1  BY <1>7, Zenon DEF Cancel
    <3>2. QED  BY <3>1 DEF TypeOK
  <2>3. permit' \in [Tasks -> BOOLEAN]  BY <1>7, Zenon DEF Cancel, TypeOK
  <2>4. unstamped' \in BOOLEAN  BY <1>7, Zenon DEF Cancel, TypeOK
  <2>5. seen' \in [Tasks -> CircuitState]
    BY <1>7 DEF Cancel, TypeOK, CircuitState
  <2>6. QED  BY <1>7, <2>1, <2>2, <2>3, <2>4, <2>5 DEF Cancel, TypeOK, counts
<1>8. ASSUME NEW p \in Tasks \cup Admins, CloseCounts(p)  PROVE TypeOK'
  <2>1. pc' \in [Tasks \cup Admins -> Label]
    BY <1>8, GotoType DEF CloseCounts, Label
  <2>2. QED  BY <1>8, <2>1, WordPositive DEF CloseCounts, TypeOK, permits
<1>9. ASSUME NEW c \in Configs, UpdateConfig(c)  PROVE TypeOK'
  BY <1>9 DEF UpdateConfig, TypeOK, counts, permits
<1>10. ASSUME NEW a \in Admins, Reset(a)  PROVE TypeOK'
  <2>1. pc' \in [Tasks \cup Admins -> Label]
    BY <1>10, GotoType DEF Reset, Label
  <2>2. QED  BY <1>10, <2>1 DEF Reset, TypeOK, counts, permits, CircuitState
<1>11. ASSUME TimeoutElapses  PROVE TypeOK'
  BY <1>11 DEF TimeoutElapses, TypeOK, counts, permits
<1>12. CASE UNCHANGED vars
  BY <1>12 DEF vars, TypeOK, counts, permits
<1>13. QED  BY <1>1, <1>2, <1>3, <1>4, <1>5, <1>6, <1>7, <1>8, <1>9, <1>10,
            <1>11, <1>12 DEF Next

\* Whatever the interleaving of the requests, every counter of the breaker stays
\* an AtomicU32 and every task at a point of its code.
THEOREM TypeInvariant == Spec => []TypeOK
BY TypeInit, TypeStep, PTL DEF Spec

-----------------------------------------------------------------------------
(* The permit counter *)

HoldLabels == {"inflight", "success_release", "failure_release"}
ReleaseLabels == {"success_release"}

\* A permit is held from its admission to its release and nowhere else, and
\* record_success releases one for its holder only.
PermitHeld ==
    \A t \in Tasks : /\ permit[t] => pc[t] \in HoldLabels
                     /\ pc[t] \in ReleaseLabels => permit[t]

Accounting == PermitsCounted /\ OneProbePerHalfOpen

AccountingInv == TypeOK /\ PermitHeld /\ Accounting

\* The two sets that are counted are finite, and no larger than Tasks.
LEMMA FiniteCounts ==
    /\ IsFiniteSet(Holders) /\ IsFiniteSet(Subtracting)
    /\ Cardinality(Holders) \in Nat /\ Cardinality(Subtracting) \in Nat
    /\ Cardinality(Tasks) \in Nat
<1>1. Holders \in SUBSET Tasks /\ Subtracting \in SUBSET Tasks
  BY DEF Holders, Subtracting
<1>2. QED  BY <1>1, TasksAssumption, FS_Subset, FS_CardinalityType

\* A step from and to other labels leaves the set of refused requests alone.
LEMMA SameSubtracting ==
    ASSUME TypeOK, NEW p \in Tasks \cup Admins,
           NEW from, NEW to, Goto(p, from, to),
           from # "probe_sub", to # "probe_sub"
    PROVE  Subtracting' = Subtracting
BY DEF Goto, TypeOK, Subtracting

\* A step that touches neither set nor the counter keeps the accounts.
LEMMA QuietStep ==
    ASSUME Accounting, UNCHANGED permits, Subtracting' = Subtracting
    PROVE  Accounting'
<1>1. Holders' = Holders  BY DEF permits, Holders
<1>2. QED  BY <1>1 DEF permits, Accounting, PermitsCounted, OneProbePerHalfOpen

\* A task that was not in its upstream call holds no permit, and keeps none.
LEMMA HeldStep ==
    ASSUME TypeOK, PermitHeld, NEW p \in Tasks \cup Admins,
           NEW from, NEW to, Goto(p, from, to), UNCHANGED permit,
           from \notin HoldLabels, to \notin ReleaseLabels
    PROVE  PermitHeld'
<1>1. SUFFICES ASSUME NEW t \in Tasks
               PROVE  /\ permit'[t] => pc'[t] \in HoldLabels
                      /\ pc'[t] \in ReleaseLabels => permit'[t]
  BY DEF PermitHeld
<1>2. CASE t = p
  <2>1. pc[t] = from /\ pc'[t] = to  BY <1>2 DEF Goto, TypeOK
  <2>2. ~permit[t]  BY <2>1 DEF PermitHeld
  <2>3. QED  BY <2>1, <2>2
<1>3. CASE t # p
  <2>1. pc'[t] = pc[t]  BY <1>3 DEF Goto, TypeOK
  <2>2. QED  BY <2>1 DEF PermitHeld
<1>4. QED  BY <1>2, <1>3

\* A step of the code around the upstream call that leaves the permits alone.
LEMMA ControlStep ==
    ASSUME AccountingInv, NEW p \in Tasks \cup Admins,
           NEW from, NEW to, Goto(p, from, to), UNCHANGED permits,
           from \notin HoldLabels \cup {"probe_sub"},
           to \notin ReleaseLabels \cup {"probe_sub"}
    PROVE  PermitHeld' /\ Accounting'
<1>1. PermitHeld'  BY HeldStep DEF AccountingInv, permits
<1>2. Accounting'
  BY SameSubtracting, QuietStep DEF AccountingInv
<1>3. QED  BY <1>1, <1>2

\* The half-open transition zeroes the counter: the accounts are right if
\* nobody is counted, and overlap says so otherwise.
LEMMA HalfOpenStep ==
    ASSUME AccountingInv, NEW p \in Tasks, NEW from, NEW to,
           Goto(p, from, to), TransitionToHalfOpen,
           from \notin HoldLabels \cup {"probe_sub"},
           to \notin ReleaseLabels \cup {"probe_sub"}
    PROVE  PermitHeld' /\ Accounting'
<1>1. CASE state # "open"
  BY <1>1, ControlStep DEF TransitionToHalfOpen
<1>2. CASE state = "open"
  <2>1. UNCHANGED permit /\ half_open_requests' = 0 /\ leaked' = 0
    BY <1>2 DEF TransitionToHalfOpen
  <2>2. overlap' = (Holders \cup Subtracting # {})
    BY <1>2, Zenon DEF TransitionToHalfOpen
  <2>3. PermitHeld'  BY <2>1, HeldStep DEF AccountingInv
  <2>4. Holders' = Holders  BY <2>1 DEF Holders
  <2>5. Subtracting' = Subtracting  BY SameSubtracting DEF AccountingInv
  <2>6. ASSUME ~overlap'
        PROVE  Cardinality(Holders') = 0 /\ Cardinality(Subtracting') = 0
    <3>1. Holders = {} /\ Subtracting = {}  BY <2>2, <2>6
    <3>2. QED  BY <3>1, <2>4, <2>5, FS_EmptySet
  <2>7. Accounting'
    BY <2>1, <2>6 DEF Accounting, PermitsCounted, OneProbePerHalfOpen
  <2>8. QED  BY <2>3, <2>7
<1>3. QED  BY <1>1, <1>2

\* fetch_add and fetch_sub do not wrap while the accounts are right.
LEMMA ProbeAddStep ==
    ASSUME AccountingInv, NEW t \in Tasks, ProbeAdd(t)
    PROVE  PermitHeld' /\ Accounting'
<1> DEFINE H == Cardinality(Holders)  S == Cardinality(Subtracting)
<1>1. pc[t] = "probe_add" /\ ~permit[t] /\ t \notin Holders /\ t \notin Subtracting
  BY Zenon DEF ProbeAdd, Goto, AccountingInv, PermitHeld, HoldLabels,
               Holders, Subtracting
<1>2. half_open_requests' = (half_open_requests + 1) % Word
      /\ UNCHANGED <<leaked, overlap>>
  BY DEF ProbeAdd, Incr
<1>3. half_open_requests \in Nat /\ leaked \in Nat /\ H \in Nat /\ S \in Nat
  BY FiniteCounts, WordPositive DEF AccountingInv, TypeOK
<1>4. CASE half_open_requests < 1
  <2>1. Goto(t, "probe_add", "inflight") /\ permit' = [permit EXCEPT ![t] = TRUE]
    BY <1>4 DEF ProbeAdd
  <2>2. PermitHeld'
    BY <1>1, <2>1, Zenon DEF Goto, AccountingInv, TypeOK, PermitHeld,
                             HoldLabels, ReleaseLabels
  <2>3. Subtracting' = Subtracting
    BY <2>1, SameSubtracting DEF AccountingInv
  <2>4. Holders' = Holders \cup {t}
    BY <2>1, Zenon DEF Holders, AccountingInv, TypeOK
  <2>5. Cardinality(Holders') = H + 1  BY <1>1, <2>4, FS_AddElement, FiniteCounts
  <2>6. half_open_requests' = 1  BY <1>2, <1>3, <1>4, WordPositive
  <2>7. ~overlap => H = 0 /\ leaked = 0 /\ S = 0
    BY <1>3, <1>4 DEF AccountingInv, Accounting, PermitsCounted
  <2>8. Accounting'
    BY <1>2, <2>3, <2>5, <2>6, <2>7
    DEF Accounting, PermitsCounted, OneProbePerHalfOpen
  <2>9. QED  BY <2>2, <2>8
<1>5. CASE ~(half_open_requests < 1)
  <2>1. Goto(t, "probe_add", "probe_sub") /\ UNCHANGED permit
    BY <1>5 DEF ProbeAdd
  <2>2. PermitHeld'
    BY <2>1, HeldStep DEF AccountingInv, HoldLabels, ReleaseLabels
  <2>3. Holders' = Holders  BY <2>1 DEF Holders
  <2>4. Subtracting' = Subtracting \cup {t}
    BY <2>1 DEF Subtracting, Goto, AccountingInv, TypeOK
  <2>5. Cardinality(Subtracting') = S + 1
    BY <1>1, <2>4, FS_AddElement, FiniteCounts
  <2>6. S + 1 <= Cardinality(Tasks)
    <3>1. Subtracting' \in SUBSET Tasks  BY <2>4 DEF Subtracting
    <3>2. QED  BY <3>1, <2>5, TasksAssumption, FS_Subset
  <2>7. ~overlap => half_open_requests' = half_open_requests + 1
    <3>1. ~overlap => half_open_requests + 1 <= Cardinality(Tasks) + 1
      BY <1>3, <2>6, FiniteCounts
      DEF AccountingInv, Accounting, PermitsCounted, OneProbePerHalfOpen
    <3>2. QED  BY <1>2, <1>3, <3>1, WordAssumption, FiniteCounts
  <2>8. Accounting'
    BY <1>2, <1>3, <2>3, <2>5, <2>7
    DEF AccountingInv, Accounting, PermitsCounted, OneProbePerHalfOpen
  <2>9. QED  BY <2>2, <2>8
<1>6. QED  BY <1>4, <1>5

LEMMA ProbeSubStep ==
    ASSUME AccountingInv, NEW t \in Tasks, ProbeSub(t)
    PROVE  PermitHeld' /\ Accounting'
<1> DEFINE H == Cardinality(Holders)  S == Cardinality(Subtracting)
<1>1. Goto(t, "probe_sub", "idle") /\ UNCHANGED <<permit, leaked, overlap>>
      /\ half_open_requests' = (half_open_requests - 1) % Word
  BY DEF ProbeSub, Decr
<1>2. half_open_requests \in 0 .. Word - 1 /\ leaked \in Nat /\ H \in Nat /\ S \in Nat
  BY FiniteCounts DEF AccountingInv, TypeOK
<1>3. PermitHeld'  BY <1>1, HeldStep DEF AccountingInv, HoldLabels, ReleaseLabels
<1>4. Holders' = Holders  BY <1>1 DEF Holders
<1>5. t \in Subtracting /\ Subtracting' = Subtracting \ {t}
  BY <1>1 DEF Subtracting, Goto, AccountingInv, TypeOK
<1>6. S > 0 /\ Cardinality(Subtracting') = S - 1
  <2>1. S # 0  BY <1>5, FiniteCounts, FS_EmptySet
  <2>2. Cardinality(Subtracting') = S - 1
    BY <1>5, FiniteCounts, FS_RemoveElement
  <2>3. QED  BY <2>1, <2>2, <1>2
<1>7. ~overlap => half_open_requests' = half_open_requests - 1
  <2>1. ~overlap => half_open_requests > 0
    BY <1>2, <1>6 DEF AccountingInv, Accounting, PermitsCounted
  <2>2. QED  BY <1>1, <1>2, <2>1, WordPositive
<1>8. Accounting'
  BY <1>1, <1>2, <1>4, <1>6, <1>7
  DEF AccountingInv, Accounting, PermitsCounted, OneProbePerHalfOpen
<1>9. QED  BY <1>3, <1>8

\* Releasing a held permit lowers the counter and the number of holders by one.
LEMMA ReleaseStep ==
    ASSUME AccountingInv, NEW t \in Tasks, NEW from, NEW to,
           Goto(t, from, to), ReleasePermit(t), permit[t],
           from # "probe_sub", to \notin ReleaseLabels \cup {"probe_sub"}
    PROVE  PermitHeld' /\ Accounting'
<1> DEFINE H == Cardinality(Holders)  S == Cardinality(Subtracting)
<1>1. permit' = [permit EXCEPT ![t] = FALSE] /\ UNCHANGED <<leaked, overlap>>
      /\ half_open_requests' = Released(half_open_requests)
  BY DEF ReleasePermit
<1>2. half_open_requests \in Nat /\ leaked \in Nat /\ H \in Nat /\ S \in Nat
  BY FiniteCounts, WordPositive DEF AccountingInv, TypeOK
<1>3. PermitHeld'
  BY <1>1, Zenon DEF Goto, AccountingInv, TypeOK, PermitHeld
<1>4. t \in Holders /\ Holders' = Holders \ {t}
  BY <1>1, Zenon DEF Holders, AccountingInv, TypeOK
<1>5. Subtracting' = Subtracting
  BY SameSubtracting DEF AccountingInv
<1>6. H > 0 /\ Cardinality(Holders') = H - 1
  <2>1. H # 0  BY <1>4, FiniteCounts, FS_EmptySet
  <2>2. Cardinality(Holders') = H - 1
    BY <1>4, FiniteCounts, FS_RemoveElement
  <2>3. QED  BY <2>1, <2>2, <1>2
<1>7. ~overlap => half_open_requests' = half_open_requests - 1
  BY <1>1, <1>2, <1>6 DEF Released, AccountingInv, Accounting, PermitsCounted
<1>8. Accounting'
  BY <1>1, <1>2, <1>5, <1>6, <1>7
  DEF AccountingInv, Accounting, PermitsCounted, OneProbePerHalfOpen
<1>9. QED  BY <1>3, <1>8

\* A dropped future moves its permit from the holders to the leaked ones.
LEMMA CancelStep ==
    ASSUME AccountingInv, NEW t \in Tasks, Cancel(t)
    PROVE  PermitHeld' /\ Accounting'
<1> DEFINE H == Cardinality(Holders)
<1>1. Goto(t, pc[t], "idle") /\ permit' = [permit EXCEPT ![t] = FALSE]
      /\ pc[t] # "probe_sub" /\ UNCHANGED <<half_open_requests, overlap>>
  BY DEF Cancel, Awaiting
<1>2. half_open_requests \in Nat /\ leaked \in Nat /\ H \in Nat
      /\ Cardinality(Subtracting) \in Nat
  BY FiniteCounts, WordPositive DEF AccountingInv, TypeOK
<1>3. PermitHeld'
  BY <1>1, Zenon DEF Goto, AccountingInv, TypeOK, PermitHeld, ReleaseLabels
<1>4. Subtracting' = Subtracting  BY <1>1, SameSubtracting DEF AccountingInv
<1>5. Holders' = Holders \ {t}
  BY <1>1, Zenon DEF Holders, AccountingInv, TypeOK
<1>6. Cardinality(Holders') + leaked' = H + leaked
  <2>1. CASE permit[t]
    <3>1. leaked' = leaked + 1 /\ t \in Holders  BY <2>1 DEF Cancel, Holders
    <3>2. Cardinality(Holders') = H - 1
      BY <1>5, <3>1, FiniteCounts, FS_RemoveElement
    <3>3. QED  BY <1>2, <3>1, <3>2
  <2>2. CASE ~permit[t]
    <3>1. leaked' = leaked /\ t \notin Holders  BY <2>2 DEF Cancel, Holders
    <3>2. Holders' = Holders  BY <1>5, <3>1
    <3>3. QED  BY <3>1, <3>2
  <2>3. QED  BY <2>1, <2>2
<1>7. Cardinality(Holders') \in Nat /\ leaked' \in Nat
  <2>1. IsFiniteSet(Holders')  BY <1>5, FiniteCounts, FS_RemoveElement
  <2>2. leaked' = leaked \/ leaked' = leaked + 1  BY Zenon DEF Cancel
  <2>3. QED  BY <1>2, <2>1, <2>2, FS_CardinalityType
<1>8. Accounting'
  BY <1>1, <1>2, <1>4, <1>6, <1>7
  DEF AccountingInv, Accounting, PermitsCounted, OneProbePerHalfOpen
<1>9. QED  BY <1>3, <1>8

\* The outcome of the upstream call is read with the permit still held.
LEMMA OutcomeStep ==
    ASSUME AccountingInv, NEW t \in Tasks, NEW release \in HoldLabels,
           NEW count \in {"success_count", "failure_release"},
           Goto(t, "inflight", IF permit[t] THEN release ELSE count),
           UNCHANGED permits
    PROVE  PermitHeld' /\ Accounting'
<1>1. PermitHeld'
  <2>1. CASE permit[t]
    BY <2>1, Zenon DEF Goto, AccountingInv, TypeOK, PermitHeld, HoldLabels,
                       ReleaseLabels, permits
  <2>2. CASE ~permit[t]
    BY <2>2, Zenon DEF Goto, AccountingInv, TypeOK, PermitHeld, HoldLabels,
                       ReleaseLabels, permits
  <2>3. QED  BY <2>1, <2>2
<1>2. Accounting'
  <2>1. (IF permit[t] THEN release ELSE count) # "probe_sub"
    BY DEF HoldLabels
  <2>2. Subtracting' = Subtracting
    BY <2>1, SameSubtracting DEF AccountingInv
  <2>3. QED  BY <2>2, QuietStep DEF AccountingInv
<1>3. QED  BY <1>1, <1>2

\* A task without a permit releases none.
LEMMA NoPermitStep ==
    ASSUME AccountingInv, NEW t \in Tasks, NEW from, NEW to,
           Goto(t, from, to), ~permit[t], UNCHANGED permits,
           from # "probe_sub", to \notin ReleaseLabels \cup {"probe_sub"}
    PROVE  PermitHeld' /\ Accounting'
<1>1. PermitHeld'
  BY Zenon DEF Goto, AccountingInv, TypeOK, PermitHeld, permits
<1>2. Accounting'  BY SameSubtracting, QuietStep DEF AccountingInv
<1>3. QED  BY <1>1, <1>2

LEMMA AccountingInit == Init => AccountingInv
<1> SUFFICES ASSUME Init PROVE AccountingInv  OBVIOUS
<1>1. Holders = {} /\ Subtracting = {}
  BY Zenon DEF Init, Holders, Subtracting
<1>2. Accounting
  BY <1>1, FS_EmptySet
  DEF Init, Accounting, PermitsCounted, OneProbePerHalfOpen
<1>3. PermitHeld  BY Zenon DEF Init, PermitHeld, ReleaseLabels
<1>4. QED  BY <1>2, <1>3, TypeInit DEF AccountingInv

LEMMA AccountingStep == AccountingInv /\ [Next]_vars => AccountingInv'
<1> SUFFICES ASSUME AccountingInv, [Next]_vars
             PROVE  PermitHeld' /\ Accounting'
  BY TypeStep DEF AccountingInv
<1> USE DEF HoldLabels, ReleaseLabels
<1>1. ASSUME NEW t \in Tasks, IsAvailable(t)  PROVE PermitHeld' /\ Accounting'
  <2>1. CASE SelectRead(t)      BY <2>1, ControlStep DEF SelectRead, Move
  <2>2. CASE SelectElapsed(t)   BY <2>2, ControlStep DEF SelectElapsed, Move
  <2>3. CASE SelectHalfOpen(t)  BY <2>3, HalfOpenStep DEF SelectHalfOpen
  <2>4. QED  BY <1>1, <2>1, <2>2, <2>3 DEF IsAvailable
<1>2. ASSUME NEW t \in Tasks, NotNeeded(t) \/ Bypass(t)
      PROVE  PermitHeld' /\ Accounting'
  BY <1>2, ControlStep DEF NotNeeded, Bypass, Move
<1>3. ASSUME NEW t \in Tasks, AllowRequest(t)  PROVE PermitHeld' /\ Accounting'
  <2>1. CASE AllowRead(t)
    BY <2>1, ControlStep DEF AllowRead, Move, AccountingInv, TypeOK, CircuitState
  <2>2. CASE AllowElapsed(t)   BY <2>2, ControlStep DEF AllowElapsed, Move
  <2>3. CASE AllowHalfOpen(t)  BY <2>3, HalfOpenStep DEF AllowHalfOpen
  <2>4. CASE AllowReread(t)
    BY <2>4, ControlStep DEF AllowReread, Move, AccountingInv, TypeOK, CircuitState
  <2>5. CASE ProbeAdd(t)  BY <2>5, ProbeAddStep
  <2>6. CASE ProbeSub(t)  BY <2>6, ProbeSubStep
  <2>7. QED  BY <1>3, <2>1, <2>2, <2>3, <2>4, <2>5, <2>6 DEF AllowRequest
<1>4. ASSUME NEW t \in Tasks, RecordSuccess(t)  PROVE PermitHeld' /\ Accounting'
  <2>1. CASE SuccessRead(t)  BY <2>1, OutcomeStep DEF SuccessRead
  <2>2. CASE SuccessRelease(t)
    <3>1. permit[t]  BY <2>2 DEF SuccessRelease, Goto, AccountingInv, PermitHeld
    <3>2. QED  BY <2>2, <3>1, ReleaseStep DEF SuccessRelease
  <2>3. CASE SuccessCount(t)  BY <2>3, ControlStep DEF SuccessCount
  <2>4. CASE CloseState(t)    BY <2>4, ControlStep DEF CloseState
  <2>5. QED  BY <1>4, <2>1, <2>2, <2>3, <2>4 DEF RecordSuccess
<1>5. ASSUME NEW t \in Tasks, RecordFailure(t)  PROVE PermitHeld' /\ Accounting'
  <2>1. CASE FailureRead(t)  BY <2>1, OutcomeStep DEF FailureRead
  <2>2. CASE FailureRelease(t)
    <3>1. CASE permit[t]   BY <2>2, <3>1, ReleaseStep DEF FailureRelease
    <3>2. CASE ~permit[t]
      BY <2>2, <3>2, NoPermitStep DEF FailureRelease
    <3>3. QED  BY <3>1, <3>2
  <2>3. CASE FailureCount(t)  BY <2>3, ControlStep DEF FailureCount
  <2>4. CASE OpenState(t)     BY <2>4, ControlStep DEF OpenState
  <2>5. CASE OpenStamp(t)     BY <2>5, ControlStep DEF OpenStamp
  <2>6. CASE OpenCounts(t)    BY <2>6, ControlStep DEF OpenCounts
  <2>7. QED  BY <1>5, <2>1, <2>2, <2>3, <2>4, <2>5, <2>6 DEF RecordFailure
<1>6. ASSUME NEW t \in Tasks, Neutral(t)  PROVE PermitHeld' /\ Accounting'
  <2>1. CASE permit[t]   BY <1>6, <2>1, ReleaseStep DEF Neutral
  <2>2. CASE ~permit[t]
    BY <1>6, <2>2, NoPermitStep DEF Neutral
  <2>3. QED  BY <2>1, <2>2
<1>7. ASSUME NEW t \in Tasks, Cancel(t)  PROVE PermitHeld' /\ Accounting'
  BY <1>7, CancelStep
<1>8. ASSUME NEW p \in Tasks \cup Admins, CloseCounts(p)
      PROVE  PermitHeld' /\ Accounting'
  BY <1>8, ControlStep DEF CloseCounts
<1>9. ASSUME NEW a \in Admins, Reset(a)  PROVE PermitHeld' /\ Accounting'
  BY <1>9, ControlStep DEF Reset
<1>10. ASSUME UNCHANGED <<permits, pc>>  PROVE PermitHeld' /\ Accounting'
  <2>1. Subtracting' = Subtracting  BY <1>10 DEF Subtracting
  <2>2. PermitHeld'  BY <1>10 DEF permits, AccountingInv, PermitHeld
  <2>3. QED  BY <1>10, <2>1, <2>2, QuietStep DEF AccountingInv
<1>11. ASSUME NEW c \in Configs, UpdateConfig(c)  PROVE PermitHeld' /\ Accounting'
  BY <1>10, <1>11 DEF UpdateConfig
<1>12. CASE TimeoutElapses  BY <1>10, <1>12 DEF TimeoutElapses
<1>13. CASE UNCHANGED vars  BY <1>10, <1>13 DEF vars
<1>14. QED  BY <1>1, <1>2, <1>3, <1>4, <1>5, <1>6, <1>7, <1>8, <1>9, <1>11,
            <1>12, <1>13 DEF Next

\* Any number of requests: as long as the half-open state was not entered under
\* a request that was still counted, half_open_requests is exactly the permits
\* that are out (held, lost, or being handed back).
THEOREM PermitAccounting == Spec => []PermitsCounted
<1>1. AccountingInv => PermitsCounted  BY DEF AccountingInv, Accounting
<1>2. QED  BY <1>1, AccountingInit, AccountingStep, PTL DEF Spec

\* Under the same proviso the half-open state admits one probe at a time, for
\* any number of concurrent requests.
THEOREM SingleProbe == Spec => []OneProbePerHalfOpen
<1>1. AccountingInv => OneProbePerHalfOpen  BY DEF AccountingInv, Accounting
<1>2. QED  BY <1>1, AccountingInit, AccountingStep, PTL DEF Spec

-----------------------------------------------------------------------------
(* The state and the stamp of its last opening *)

\* No step, however stale the read it acts on, takes the breaker from closed to
\* half-open.
THEOREM NoReturnToHalfOpen == Spec => ClosedNeverHalfOpens
<1>1. ASSUME state = "closed", [Next]_vars  PROVE state' # "half_open"
  <2>1. ASSUME TransitionToHalfOpen  PROVE state' = "closed"
    BY <1>1, <2>1 DEF TransitionToHalfOpen
  <2>2. ASSUME NEW t \in Tasks,
               IsAvailable(t) \/ NotNeeded(t) \/ Bypass(t) \/ AllowRequest(t)
        PROVE  state' # "half_open"
    BY <1>1, <2>1, <2>2
    DEF IsAvailable, SelectRead, SelectElapsed, SelectHalfOpen, NotNeeded, Bypass,
        AllowRequest, AllowRead, AllowElapsed, AllowHalfOpen, AllowReread,
        ProbeAdd, ProbeSub, Move
  <2>3. ASSUME NEW t \in Tasks,
               RecordSuccess(t) \/ RecordFailure(t) \/ Neutral(t) \/ Cancel(t)
        PROVE  state' # "half_open"
    BY <1>1, <2>3
    DEF RecordSuccess, SuccessRead, SuccessRelease, SuccessCount, CloseState,
        RecordFailure, FailureRead, FailureRelease, FailureCount, OpenState,
        OpenStamp, OpenCounts, Neutral, Cancel
  <2>4. QED  BY <1>1, <2>2, <2>3
             DEF Next, CloseCounts, UpdateConfig, Reset, TimeoutElapses, vars
<1>2. QED  BY <1>1, PTL DEF Spec, ClosedNeverHalfOpens

\* Whoever goes on to the half-open transition has read a stamp.
ClockChecked ==
    \A t \in Tasks : pc[t] \in {"select_half_open", "allow_half_open"}
                        => last_opened_at # "none"

StampInv == TypeOK /\ ClockChecked /\ EveryOpeningStamped

\* A step from other labels to labels other than the transitions.
LEMMA ClockStep ==
    ASSUME TypeOK, ClockChecked, NEW p \in Tasks \cup Admins, NEW from, NEW to,
           Goto(p, from, to), last_opened_at # "none" => last_opened_at' # "none",
           to \in {"select_half_open", "allow_half_open"}
               => last_opened_at' # "none"
    PROVE  ClockChecked'
<1>1. \A t \in Tasks : pc'[t] = pc[t] \/ pc'[t] = to  BY DEF Goto, TypeOK
<1>2. QED  BY <1>1 DEF ClockChecked

\* A step that neither opens the breaker nor stamps an opening.
LEMMA UnstampedStep ==
    ASSUME TypeOK, EveryOpeningStamped, NEW p \in Tasks \cup Admins,
           NEW from, NEW to, Goto(p, from, to), from # "open_stamp",
           UNCHANGED <<last_opened_at, unstamped>>,
           state' \in {state, "closed"}
    PROVE  EveryOpeningStamped'
<1>1. \A t \in Tasks : pc[t] = "open_stamp" => pc'[t] = "open_stamp"
  BY DEF Goto, TypeOK
<1>2. QED  BY <1>1 DEF EveryOpeningStamped

\* The request that is dropped was about to stamp the first opening, and that is
\* what unstamped says, or another one still is.
LEMMA CancelledOpening ==
    ASSUME StampInv, NEW t \in Tasks, Cancel(t)
    PROVE  EveryOpeningStamped'
<1>1. Goto(t, pc[t], "idle") /\ UNCHANGED <<last_opened_at, state>>
      /\ unstamped' = (unstamped \/ (pc[t] = "open_stamp"
                                     /\ last_opened_at = "none"))
  BY DEF Cancel
<1>2. SUFFICES ASSUME last_opened_at = "none", state = "open", ~unstamped'
               PROVE  \E u \in Tasks : pc'[u] = "open_stamp"
  BY <1>1, Zenon DEF EveryOpeningStamped, StampInv
<1>3. ~unstamped /\ pc[t] # "open_stamp"  BY <1>1, <1>2, Zenon
<1>4. PICK u \in Tasks : pc[u] = "open_stamp"
  BY <1>2, <1>3, Zenon DEF StampInv, EveryOpeningStamped
<1>5. pc'[u] = "open_stamp"
  BY <1>1, <1>3, <1>4 DEF Goto, StampInv, TypeOK
<1>6. QED  BY <1>5

LEMMA PlainStep ==
    ASSUME StampInv, NEW p \in Tasks \cup Admins, NEW from, NEW to,
           Goto(p, from, to), from # "open_stamp",
           to \in {"select_half_open", "allow_half_open"}
               => last_opened_at # "none",
           UNCHANGED <<last_opened_at, unstamped>>,
           state' \in {state, "closed"}
    PROVE  ClockChecked' /\ EveryOpeningStamped'
BY ClockStep, UnstampedStep DEF StampInv

LEMMA StampInit == Init => StampInv
<1> SUFFICES ASSUME Init PROVE StampInv  OBVIOUS
<1>1. ClockChecked  BY Zenon DEF Init, ClockChecked
<1>2. EveryOpeningStamped  BY DEF Init, EveryOpeningStamped
<1>3. QED  BY <1>1, <1>2, TypeInit DEF StampInv

LEMMA StampStep == StampInv /\ [Next]_vars => StampInv'
<1> SUFFICES ASSUME StampInv, [Next]_vars
             PROVE  ClockChecked' /\ EveryOpeningStamped'
  BY TypeStep DEF StampInv
<1>1. ASSUME NEW t \in Tasks, NEW from \in {"select_half_open", "allow_half_open"},
             NEW to \in {"admit", "allow_reread"}, Goto(t, from, to),
             TransitionToHalfOpen, UNCHANGED <<last_opened_at, unstamped>>
      PROVE  ClockChecked' /\ EveryOpeningStamped'
  <2>1. last_opened_at # "none"
    BY <1>1 DEF StampInv, ClockChecked, Goto
  <2>2. ClockChecked'  BY <1>1, ClockStep DEF StampInv
  <2>3. QED  BY <1>1, <2>1, <2>2 DEF EveryOpeningStamped
<1>2. ASSUME NEW t \in Tasks, IsAvailable(t)
      PROVE  ClockChecked' /\ EveryOpeningStamped'
  <2>1. CASE SelectRead(t)     BY <2>1, PlainStep DEF SelectRead, Move
  <2>2. CASE SelectElapsed(t)  BY <2>2, PlainStep DEF SelectElapsed, Move
  <2>3. CASE SelectHalfOpen(t)  BY <2>3, <1>1 DEF SelectHalfOpen
  <2>4. QED  BY <1>2, <2>1, <2>2, <2>3 DEF IsAvailable
<1>3. ASSUME NEW t \in Tasks, NotNeeded(t) \/ Bypass(t)
      PROVE  ClockChecked' /\ EveryOpeningStamped'
  BY <1>3, PlainStep DEF NotNeeded, Bypass, Move
<1>4. ASSUME NEW t \in Tasks, AllowRequest(t)
      PROVE  ClockChecked' /\ EveryOpeningStamped'
  <2>1. CASE AllowRead(t)
    BY <2>1, PlainStep DEF AllowRead, Move, StampInv, TypeOK, CircuitState
  <2>2. CASE AllowElapsed(t)  BY <2>2, PlainStep DEF AllowElapsed, Move
  <2>3. CASE AllowHalfOpen(t)  BY <2>3, <1>1 DEF AllowHalfOpen
  <2>4. CASE AllowReread(t)
    BY <2>4, PlainStep DEF AllowReread, Move, StampInv, TypeOK, CircuitState
  <2>5. CASE ProbeAdd(t)
    <3>1. \/ Goto(t, "probe_add", "inflight") \/ Goto(t, "probe_add", "probe_sub")
      BY <2>5 DEF ProbeAdd
    <3>2. QED  BY <2>5, <3>1, PlainStep DEF ProbeAdd
  <2>6. CASE ProbeSub(t)  BY <2>6, PlainStep DEF ProbeSub
  <2>7. QED  BY <1>4, <2>1, <2>2, <2>3, <2>4, <2>5, <2>6 DEF AllowRequest
<1>5. ASSUME NEW t \in Tasks, RecordSuccess(t)
      PROVE  ClockChecked' /\ EveryOpeningStamped'
  BY <1>5, PlainStep
  DEF RecordSuccess, SuccessRead, SuccessRelease, SuccessCount, CloseState
<1>6. ASSUME NEW t \in Tasks, RecordFailure(t)
      PROVE  ClockChecked' /\ EveryOpeningStamped'
  <2>1. CASE FailureRead(t)     BY <2>1, PlainStep DEF FailureRead
  <2>2. CASE FailureRelease(t)  BY <2>2, PlainStep DEF FailureRelease
  <2>3. CASE FailureCount(t)    BY <2>3, PlainStep DEF FailureCount
  <2>4. CASE OpenState(t)
    <3>1. Goto(t, "open_state", "open_stamp") /\ state' = "open"
          /\ UNCHANGED last_opened_at
      BY <2>4 DEF OpenState
    <3>2. ClockChecked'  BY <3>1, ClockStep DEF StampInv
    <3>3. pc'[t] = "open_stamp"  BY <3>1 DEF Goto, StampInv, TypeOK
    <3>4. QED  BY <3>1, <3>2, <3>3 DEF EveryOpeningStamped
  <2>5. CASE OpenStamp(t)
    <3>1. Goto(t, "open_stamp", "open_counts") /\ last_opened_at' = "recent"
      BY <2>5 DEF OpenStamp
    <3>2. ClockChecked'  BY <3>1, ClockStep DEF StampInv
    <3>3. QED  BY <3>1, <3>2 DEF EveryOpeningStamped
  <2>6. CASE OpenCounts(t)  BY <2>6, PlainStep DEF OpenCounts
  <2>7. QED  BY <1>6, <2>1, <2>2, <2>3, <2>4, <2>5, <2>6 DEF RecordFailure
<1>7. ASSUME NEW t \in Tasks, Neutral(t) \/ Cancel(t)
      PROVE  ClockChecked' /\ EveryOpeningStamped'
  <2>1. CASE Neutral(t)  BY <2>1, PlainStep DEF Neutral
  <2>2. CASE Cancel(t)
    <3>1. Goto(t, pc[t], "idle") /\ UNCHANGED <<last_opened_at, state>>
      BY <2>2 DEF Cancel
    <3>2. ClockChecked'  BY <3>1, ClockStep DEF StampInv
    <3>3. EveryOpeningStamped'  BY <2>2, <3>1, CancelledOpening
    <3>4. QED  BY <3>2, <3>3
  <2>3. QED  BY <1>7, <2>1, <2>2
<1>8. ASSUME NEW p \in Tasks \cup Admins, CloseCounts(p)
      PROVE  ClockChecked' /\ EveryOpeningStamped'
  BY <1>8, PlainStep DEF CloseCounts
<1>9. ASSUME NEW a \in Admins, Reset(a)
      PROVE  ClockChecked' /\ EveryOpeningStamped'
  BY <1>9, PlainStep DEF Reset
<1>10. ASSUME UNCHANGED <<state, pc>>,
              unstamped' = unstamped,
              last_opened_at = "none" <=> last_opened_at' = "none"
       PROVE  ClockChecked' /\ EveryOpeningStamped'
  BY <1>10 DEF StampInv, ClockChecked, EveryOpeningStamped
<1>11. ASSUME NEW c \in Configs, UpdateConfig(c)
       PROVE  ClockChecked' /\ EveryOpeningStamped'
  BY <1>10, <1>11 DEF UpdateConfig
<1>12. CASE TimeoutElapses  BY <1>10, <1>12 DEF TimeoutElapses
<1>13. CASE UNCHANGED vars  BY <1>10, <1>13 DEF vars
<1>14. QED  BY <1>2, <1>3, <1>4, <1>5, <1>6, <1>7, <1>8, <1>9, <1>11, <1>12,
            <1>13 DEF Next

\* An open breaker is stamped, or about to be, unless its request was dropped
\* between the two writes of transition_to_open: no order of them with the steps
\* of the other requests, wherever these are dropped, leaves it open for ever.
THEOREM OpeningStamped == Spec => []EveryOpeningStamped
<1>1. StampInv => EveryOpeningStamped  BY DEF StampInv
<1>2. QED  BY <1>1, StampInit, StampStep, PTL DEF Spec
=============================================================================
