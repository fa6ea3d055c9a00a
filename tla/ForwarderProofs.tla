---------------------------- MODULE ForwarderProofs ----------------------------
(* Proofs about Forwarder, for every set of requests and providers, every     *)
(* queue and every set of errors.                                             *)
EXTENDS Forwarder, FiniteSetTheorems, SequenceTheorems, TLAPS

-----------------------------------------------------------------------------
(* Types *)

Job == [timed : BOOLEAN, max_attempts : Nat, current : Providers \cup {"none"},
        providers : Seq(Providers), index : Nat \ {0}, attempted : Nat]

SettingsType == failover \in BOOLEAN /\ current \in Providers

TasksType ==
    /\ spawned \subseteq Background /\ IsFiniteSet(spawned)
    /\ \A b \in spawned : b.task \in {"switch"} \cup Switching
                            => b.provider \in Providers
    /\ pending \subseteq Providers

\* A request that tries a provider has one, and one that has not begun has
\* tried none.
JobsType ==
    /\ pc \in [Requests -> Label]
    /\ job \in [Requests -> Job]
    /\ \A r \in Requests :
         /\ job[r].attempted <= job[r].max_attempts
         /\ pc[r] = "idle" => job[r].attempted = 0
         /\ pc[r] \in Trying \cup {"stats"} => job[r].index <= Len(job[r].providers)

LedgerType ==
    /\ permits \subseteq Requests \X Providers
    /\ verdict \in [Requests -> Kind \cup {"none"}]
    /\ doubt \in [Requests -> BOOLEAN]
    /\ owed \in [Requests -> Int]
    /\ gone \subseteq Requests

TypeInv == SettingsType /\ TasksType /\ JobsType /\ LedgerType /\ active \in Int

\* What the breakers leave of the queue is a list of providers, and not empty.
LEMMA SelectionType ==
    ASSUME NEW list \in Selections
    PROVE  list \in Seq(Providers) /\ Len(list) > 0
<1>1. ToSet(Queue) \subseteq Providers  BY QueueAssumption DEF ToSet
<1>2. PICK n \in 1 .. Len(Queue) : list \in [1 .. n -> ToSet(Queue)]
  BY DEF Selections
<1>3. Len(Queue) \in Nat  BY QueueAssumption
<1>4. list \in Seq(Providers)  BY <1>1, <1>2, <1>3, SeqDef
<1>5. QED  BY <1>2, <1>3, <1>4

\* The provider a request has got to.
LEMMA ProviderType ==
    ASSUME JobsType, NEW r \in Requests, MorePlaces(r)
    PROVE  Provider(r) \in Providers
<1>1. job[r].providers \in Seq(Providers) /\ job[r].index \in 1 .. Len(job[r].providers)
  BY DEF JobsType, Job, MorePlaces
<1>2. QED  BY <1>1 DEF Provider

\* What happens to the job of one request leaves the others alone.
LEMMA JobStep ==
    ASSUME JobsType, NEW r \in Requests, NEW to \in Label,
           pc' = [pc EXCEPT ![r] = to],
           job' \in [Requests -> Job],
           \A q \in Requests \ {r} : job'[q] = job[q],
           job'[r].attempted <= job'[r].max_attempts,
           to = "idle" => job'[r].attempted = 0,
           to \in Trying \cup {"stats"} => job'[r].index <= Len(job'[r].providers)
    PROVE  JobsType'
<1>1. pc' \in [Requests -> Label]  BY DEF JobsType
<1>2. ASSUME NEW q \in Requests
      PROVE  /\ job'[q].attempted <= job'[q].max_attempts
             /\ pc'[q] = "idle" => job'[q].attempted = 0
             /\ pc'[q] \in Trying \cup {"stats"}
                  => job'[q].index <= Len(job'[q].providers)
  BY <1>2 DEF JobsType
<1>3. QED  BY <1>1, <1>2 DEF JobsType

\* A move that does not touch the job.
LEMMA MoveStep ==
    ASSUME JobsType, NEW r \in Requests, NEW from, NEW to \in Label \ {"idle"},
           Goto(r, from, to), UNCHANGED job,
           to \in Trying \cup {"stats"} => from \in Trying
    PROVE  JobsType'
BY JobStep DEF Goto, JobsType

\* The end of a request's future.
LEMMA FinishType ==
    ASSUME TypeInv, NEW r \in Requests, Finish(r)
    PROVE  JobsType' /\ TasksType' /\ SettingsType' /\ active' \in Int
           /\ UNCHANGED <<permits, owed>>
           /\ verdict' \in [Requests -> Kind \cup {"none"}]
           /\ doubt' \in [Requests -> BOOLEAN]
<1>1. NoJob \in Job
  <2>1. <<>> \in Seq(Providers)  OBVIOUS
  <2>2. QED  BY <2>1 DEF NoJob, Job
<1>2. JobsType'
  <2>1. job' = [job EXCEPT ![r] = NoJob]  BY DEF Finish
  <2>2. job' \in [Requests -> Job]  BY <1>1, <2>1 DEF TypeInv, JobsType
  <2>3. job'[r] = NoJob /\ \A q \in Requests \ {r} : job'[q] = job[q]
    BY <2>1 DEF TypeInv, JobsType
  <2>4. pc' = [pc EXCEPT ![r] = "over"]  BY DEF Finish
  <2>5. NoJob.attempted = 0 /\ NoJob.max_attempts = 0  BY DEF NoJob
  <2>6. "over" \in Label /\ "over" \notin Trying \cup {"stats"}  BY DEF Label, Trying
  <2>7. job'[r].attempted <= job'[r].max_attempts /\ "over" # "idle"
    BY <2>3, <2>5
  <2>8. JobsType  BY DEF TypeInv
  <2>9. QED  BY <2>2, <2>3, <2>4, <2>6, <2>7, <2>8, JobStep
<1>3. TasksType'
  <2>1. spawned' = spawned \/ spawned' = spawned \cup {Task("drop", r, "none")}
    BY DEF Finish
  <2>2. Task("drop", r, "none") \in Background  BY DEF Task, Background
  <2>3. Task("drop", r, "none").task \notin {"switch"} \cup Switching
    BY DEF Task, Switching
  <2>4. IsFiniteSet(spawned')
    BY <2>1, FS_AddElement DEF TypeInv, TasksType
  <2>5. QED  BY <2>1, <2>2, <2>3, <2>4 DEF TypeInv, TasksType, Finish
<1>4. SettingsType' /\ active' \in Int /\ UNCHANGED <<permits, owed>>
  BY DEF Finish, settings, TypeInv, SettingsType
<1>5. verdict' \in [Requests -> Kind \cup {"none"}]
  BY DEF Finish, TypeInv, LedgerType
<1>6. doubt' \in [Requests -> BOOLEAN]
  BY Zenon DEF Finish, TypeInv, LedgerType
<1>7. QED  BY <1>2, <1>3, <1>4, <1>5, <1>6

LEMMA TypeInit == Init => TypeInv
<1> SUFFICES ASSUME Init PROVE TypeInv  OBVIOUS
<1>1. SettingsType  BY DEF Init, SettingsType
<1>2. TasksType  BY FS_EmptySet DEF Init, TasksType
<1>3. JobsType
  <2>1. <<>> \in Seq(Providers)  OBVIOUS
  <2>2. NoJob \in Job /\ NoJob.attempted = 0 /\ NoJob.max_attempts = 0
    BY <2>1 DEF NoJob, Job
  <2>3. \A r \in Requests : pc[r] = "idle" /\ job[r] = NoJob  BY DEF Init
  <2>4. pc \in [Requests -> Label] /\ job \in [Requests -> Job]
    BY <2>2 DEF Init, Label
  <2>5. QED  BY <2>2, <2>3, <2>4 DEF JobsType, Trying
<1>4. LedgerType
  <2>1. doubt \in [Requests -> BOOLEAN]  BY Zenon DEF Init
  <2>2. QED  BY <2>1 DEF Init, LedgerType
<1>5. active \in Int  BY DEF Init
<1>6. QED  BY <1>1, <1>2, <1>3, <1>4, <1>5 DEF TypeInv

\* One step of each kind keeps the types.
LEMMA ContextType ==
    ASSUME TypeInv, NEW r \in Requests, Context(r)
    PROVE  TypeInv'
<1>1. CASE ReadConfig(r)
  <2>1. job' \in [Requests -> Job]
    <3>1. MaxRetries + 1 \in Nat /\ 1 \in Nat  BY MaxRetriesAssumption
    <3>2. job' = [job EXCEPT ![r] = [@ EXCEPT !.timed = failover,
                     !.max_attempts = IF failover THEN MaxRetries + 1 ELSE 1]]
      BY <1>1 DEF ReadConfig, TypeInv, JobsType, Job
    <3>3. QED  BY <3>1, <3>2 DEF TypeInv, SettingsType, JobsType, Job
  <2>2. job'[r].attempted = 0 /\ job'[r].max_attempts \in Nat
    BY <1>1, MaxRetriesAssumption
    DEF ReadConfig, Goto, TypeInv, JobsType, Job
  <2>3. \A q \in Requests \ {r} : job'[q] = job[q]
    BY <1>1 DEF ReadConfig, TypeInv, JobsType
  <2>4. job'[r].attempted <= job'[r].max_attempts  BY <2>2
  <2>5. pc' = [pc EXCEPT ![r] = "current"]  BY <1>1 DEF ReadConfig, Goto
  <2>6. "current" \in Label \ ({"idle", "stats"} \cup Trying)  BY DEF Label, Trying
  <2>7. JobsType'  BY <2>1, <2>3, <2>4, <2>5, <2>6, JobStep DEF TypeInv
  <2>8. QED  BY <1>1, <2>7
    DEF ReadConfig, settings, background, ledger, TypeInv, SettingsType, TasksType,
        LedgerType
<1>2. CASE ReadCurrent(r)
  <2>1. job' \in [Requests -> Job] /\ \A q \in Requests \ {r} : job'[q] = job[q]
    BY <1>2 DEF ReadCurrent, Set, TypeInv, SettingsType, JobsType, Job
  <2>2. job'[r].attempted = job[r].attempted
        /\ job'[r].max_attempts = job[r].max_attempts
    BY <1>2 DEF ReadCurrent, Set, TypeInv, JobsType, Job
  <2>3. JobsType'
    BY <1>2, <2>1, <2>2, JobStep DEF ReadCurrent, Goto, TypeInv, JobsType, Label, Trying
  <2>4. QED  BY <1>2, <2>3
    DEF ReadCurrent, settings, background, ledger, TypeInv, SettingsType, TasksType,
        LedgerType
<1>3. CASE SelectMode(r)
  <2>1. JobsType'
    BY <1>3, MoveStep DEF SelectMode, TypeInv, Label, Trying
  <2>2. QED  BY <1>3, <2>1
    DEF SelectMode, settings, background, ledger, TypeInv, SettingsType, TasksType,
        LedgerType
<1>4. ASSUME NEW list \in Seq(Providers), Set(r, "providers", list),
             NEW from \in {"queue", "single"}, Goto(r, from, "guard"),
             UNCHANGED <<settings, background, ledger>>
      PROVE  TypeInv'
  <2>1. job' \in [Requests -> Job] /\ \A q \in Requests \ {r} : job'[q] = job[q]
    BY <1>4 DEF Set, TypeInv, JobsType, Job
  <2>2. job'[r].attempted = job[r].attempted
        /\ job'[r].max_attempts = job[r].max_attempts
    BY <1>4 DEF Set, TypeInv, JobsType, Job
  <2>3. JobsType'
    BY <1>4, <2>1, <2>2, JobStep DEF Goto, TypeInv, JobsType, Label, Trying
  <2>4. QED  BY <1>4, <2>3
    DEF settings, background, ledger, TypeInv, SettingsType, TasksType, LedgerType
<1>5. CASE SelectQueue(r)  BY <1>4, <1>5, SelectionType DEF SelectQueue
<1>6. CASE SelectCurrent(r)
  <2>1. <<current>> \in Seq(Providers)  BY DEF TypeInv, SettingsType
  <2>2. QED  BY <1>4, <1>6, <2>1 DEF SelectCurrent
<1>7. CASE SelectNone(r)
  <2>1. Finish(r) /\ UNCHANGED gone  BY <1>7 DEF SelectNone
  <2>2. QED  BY <2>1, FinishType DEF TypeInv, LedgerType
<1>8. QED  BY <1>1, <1>2, <1>3, <1>5, <1>6, <1>7 DEF Context

\* On to the next place.
LEMMA AdvanceType ==
    ASSUME TypeInv, NEW r \in Requests, pc' = [pc EXCEPT ![r] = "next"], Advance(r)
    PROVE  /\ JobsType'
           /\ verdict' \in [Requests -> Kind \cup {"none"}]
           /\ doubt' \in [Requests -> BOOLEAN]
<1>1. Set(r, "index", job[r].index + 1)
      /\ verdict' = [verdict EXCEPT ![r] = "none"]
      /\ doubt' = [doubt EXCEPT ![r] = FALSE]
  BY DEF Advance
<1>2. job' \in [Requests -> Job] /\ \A q \in Requests \ {r} : job'[q] = job[q]
  <2>1. job[r].index + 1 \in Nat \ {0}  BY DEF TypeInv, JobsType, Job
  <2>2. job' \in [Requests -> Job]  BY <1>1, <2>1 DEF Set, TypeInv, JobsType, Job
  <2>3. QED  BY <1>1, <2>2 DEF Set, TypeInv, JobsType
<1>3. job'[r].attempted = job[r].attempted
      /\ job'[r].max_attempts = job[r].max_attempts
  BY <1>1 DEF Set, TypeInv, JobsType, Job
<1>4. "next" \in Label \ ({"idle", "stats"} \cup Trying)  BY DEF Label, Trying
<1>5. job'[r].attempted <= job'[r].max_attempts  BY <1>3 DEF TypeInv, JobsType
<1>6. JobsType'  BY <1>2, <1>4, <1>5, JobStep DEF TypeInv
<1>7. verdict' \in [Requests -> Kind \cup {"none"}]
  BY <1>1 DEF TypeInv, LedgerType
<1>8. doubt' \in [Requests -> BOOLEAN]
  BY <1>1, Zenon DEF TypeInv, LedgerType
<1>9. QED  BY <1>6, <1>7, <1>8

LEMMA OwedType ==
    ASSUME TypeInv, NEW r \in Requests, Settled(r)
    PROVE  owed' \in [Requests -> Int]
BY DEF Settled, TypeInv, LedgerType

\* A task is added to those that have not ended.
LEMMA SpawnType ==
    ASSUME TasksType, NEW b \in Background, UNCHANGED pending,
           spawned' \in {spawned, spawned \cup {b}},
           b.task \in {"switch"} \cup Switching => b.provider \in Providers
    PROVE  TasksType'
<1>1. IsFiniteSet(spawned')  BY FS_AddElement DEF TasksType
<1>2. QED  BY <1>1 DEF TasksType

LEMMA ProxyType ==
    ASSUME TypeInv, NEW r \in Requests, Proxy(r)
    PROVE  TypeInv'
<1>1. CASE AcquireGuard(r)
  <2>1. JobsType'  BY <1>1, MoveStep DEF AcquireGuard, TypeInv, Label, Trying
  <2>2. QED  BY <1>1, <2>1
    DEF AcquireGuard, settings, ledger, TypeInv, SettingsType, TasksType, LedgerType
<1>2. CASE StopTrying(r)
  <2>1. JobsType'  BY <1>2, MoveStep DEF StopTrying, TypeInv, Label, Trying
  <2>2. QED  BY <1>2, <2>1
    DEF StopTrying, settings, background, ledger, TypeInv, SettingsType, TasksType,
        LedgerType
<1>3. CASE Refuse(r)
  <2>1. pc' = [pc EXCEPT ![r] = "next"] /\ Advance(r)
    BY <1>3 DEF Refuse, TypeInv, JobsType
  <2>2. /\ JobsType'
        /\ verdict' \in [Requests -> Kind \cup {"none"}]
        /\ doubt' \in [Requests -> BOOLEAN]
    BY <2>1, AdvanceType
  <2>3. QED  BY <1>3, <2>2
    DEF Refuse, settings, background, TypeInv, SettingsType, TasksType, LedgerType
<1>4. CASE Admit(r)
  <2>1. Set(r, "attempted", job[r].attempted + 1) /\ Goto(r, "next", "call")
        /\ MorePlaces(r) /\ job[r].attempted < job[r].max_attempts
    BY <1>4 DEF Admit, AttemptsLeft
  <2>2. job' \in [Requests -> Job] /\ \A q \in Requests \ {r} : job'[q] = job[q]
    <3>1. job[r].attempted + 1 \in Nat  BY DEF TypeInv, JobsType, Job
    <3>2. job' \in [Requests -> Job]  BY <2>1, <3>1 DEF Set, TypeInv, JobsType, Job
    <3>3. QED  BY <2>1, <3>2 DEF Set, TypeInv, JobsType
  <2>3. job'[r].attempted <= job'[r].max_attempts
    BY <2>1 DEF Set, TypeInv, JobsType, Job
  <2>4. job'[r].index <= Len(job'[r].providers)
    BY <2>1 DEF Set, TypeInv, JobsType, Job, MorePlaces
  <2>5. "call" \in Label \ {"idle"}  BY DEF Label
  <2>6. JobsType'  BY <2>1, <2>2, <2>3, <2>4, <2>5, JobStep DEF TypeInv, Goto
  <2>7. <<r, Provider(r)>> \in Requests \X Providers
    BY <2>1, ProviderType DEF TypeInv
  <2>8. permits' \subseteq Requests \X Providers
    BY <1>4, <2>7 DEF Admit, TypeInv, LedgerType
  <2>9. owed' \in [Requests -> Int]  BY <1>4 DEF Admit, TypeInv, LedgerType
  <2>10. QED  BY <1>4, <2>6, <2>8, <2>9
    DEF Admit, settings, background, TypeInv, SettingsType, TasksType, LedgerType
<1>5. CASE RecordSuccess(r)
  <2>1. Goto(r, "credit", "stats") /\ UNCHANGED job  BY <1>5 DEF RecordSuccess
  <2>2. JobsType'  BY <2>1, MoveStep DEF TypeInv, Label, Trying
  <2>3. MorePlaces(r)  BY <2>1 DEF Goto, MorePlaces, Trying, TypeInv, JobsType
  <2>4. Task("success", r, Provider(r)) \in Background
        /\ Task("success", r, Provider(r)).task = "success"
    BY <2>3, ProviderType DEF Task, Background, TypeInv
  <2>5. spawned' \in {spawned, spawned \cup {Task("success", r, Provider(r))}}
    BY <1>5 DEF RecordSuccess
  <2>6. TasksType'
    BY <1>5, <2>4, <2>5, SpawnType DEF RecordSuccess, TypeInv, Switching
  <2>7. permits' \subseteq Requests \X Providers
    BY <1>5 DEF RecordSuccess, GiveBack, TypeInv, LedgerType
  <2>8. owed' \in [Requests -> Int]
    BY <1>5, OwedType DEF RecordSuccess, TypeInv, LedgerType
  <2>9. QED  BY <1>5, <2>2, <2>6, <2>7, <2>8
    DEF RecordSuccess, settings, TypeInv, SettingsType, LedgerType
<1>6. CASE CountSuccess(r)
  <2>1. Goto(r, "stats", "streaming") /\ UNCHANGED job  BY <1>6 DEF CountSuccess
  <2>2. JobsType'  BY <2>1, MoveStep DEF TypeInv, Label, Trying
  <2>3. MorePlaces(r)  BY <2>1 DEF Goto, MorePlaces, TypeInv, JobsType
  <2>4. Task("switch", r, Provider(r)) \in Background
        /\ Task("switch", r, Provider(r)).provider \in Providers
    BY <2>3, ProviderType DEF Task, Background, TypeInv
  <2>5. spawned' \in {spawned, spawned \cup {Task("switch", r, Provider(r))}}
    BY <1>6 DEF CountSuccess
  <2>6. TasksType'  BY <1>6, <2>4, <2>5, SpawnType DEF CountSuccess, TypeInv
  <2>7. QED  BY <1>6, <2>2, <2>6
    DEF CountSuccess, settings, ledger, TypeInv, SettingsType, LedgerType
<1>7. CASE RecordFailure(r)
  <2>1. /\ JobsType'
        /\ verdict' \in [Requests -> Kind \cup {"none"}]
        /\ doubt' \in [Requests -> BOOLEAN]
    BY <1>7, AdvanceType DEF RecordFailure, Goto
  <2>2. permits' \subseteq Requests \X Providers /\ owed' \in [Requests -> Int]
    BY <1>7, OwedType DEF RecordFailure, GiveBack, TypeInv, LedgerType
  <2>3. QED  BY <1>7, <2>1, <2>2
    DEF RecordFailure, settings, background, TypeInv, SettingsType, TasksType,
        LedgerType
<1>8. CASE ReleaseNeutral(r)
  <2>1. JobsType'  BY <1>8, MoveStep DEF ReleaseNeutral, TypeInv, Label, Trying
  <2>2. permits' \subseteq Requests \X Providers /\ owed' \in [Requests -> Int]
    BY <1>8, OwedType DEF ReleaseNeutral, GiveBack, TypeInv, LedgerType
  <2>3. QED  BY <1>8, <2>1, <2>2
    DEF ReleaseNeutral, settings, background, TypeInv, SettingsType, TasksType,
        LedgerType
<1>9. CASE CountFailure(r)
  <2>1. Finish(r) /\ UNCHANGED gone  BY <1>9 DEF CountFailure
  <2>2. QED  BY <2>1, FinishType DEF TypeInv, LedgerType
<1>10. QED  BY <1>1, <1>2, <1>3, <1>4, <1>5, <1>6, <1>7, <1>8, <1>9 DEF Proxy

LEMMA UpstreamType ==
    ASSUME TypeInv, NEW r \in Requests, Upstream(r)
    PROVE  TypeInv'
<1>1. CASE Answer(r)
  <2>1. JobsType'  BY <1>1, MoveStep DEF Answer, TypeInv, Label, Trying
  <2>2. QED  BY <1>1, <2>1
    DEF Answer, settings, background, ledger, TypeInv, SettingsType, TasksType,
        LedgerType
<1>2. CASE FirstError(r)
  <2>1. PICK e \in Errors : /\ verdict' = [verdict EXCEPT ![r] = e.kind]
                            /\ doubt' = [doubt EXCEPT ![r] = CallsForRepair(Provider(r), e)]
    BY <1>2 DEF FirstError
  <2>2. e \in Error  BY ErrorsAssumption
  <2>3. verdict' \in [Requests -> Kind \cup {"none"}]
    BY <2>1, <2>2 DEF TypeInv, LedgerType, Error
  <2>4. CallsForRepair(Provider(r), e) \in BOOLEAN
    BY <2>2 DEF CallsForRepair, Error
  <2>5. doubt' \in [Requests -> BOOLEAN]
    BY <2>1, <2>4, Zenon DEF TypeInv, LedgerType
  <2>6. \E to \in {"retry", "neutral", "blame"} : Goto(r, "call", to)
    BY <1>2, Zenon DEF FirstError
  <2>7. JobsType'
    BY <1>2, <2>6, MoveStep DEF FirstError, TypeInv, Label, Trying
  <2>8. QED  BY <1>2, <2>3, <2>5, <2>7
    DEF FirstError, settings, background, TypeInv, SettingsType, TasksType, LedgerType
<1>3. CASE RepairedError(r)
  <2>1. PICK e \in Errors : /\ verdict' = [verdict EXCEPT ![r] = e.kind]
                            /\ Goto(r, "retry", IF ProviderAtFault(e.kind)
                                                THEN "blame" ELSE "neutral")
    BY <1>3 DEF RepairedError
  <2>2. e \in Error  BY ErrorsAssumption
  <2>3. verdict' \in [Requests -> Kind \cup {"none"}]
    BY <2>1, <2>2 DEF TypeInv, LedgerType, Error
  <2>4. JobsType'
    BY <1>3, <2>1, MoveStep DEF RepairedError, TypeInv, Label, Trying
  <2>5. QED  BY <1>3, <2>3, <2>4
    DEF RepairedError, settings, background, TypeInv, SettingsType, TasksType,
        LedgerType
<1>4. QED  BY <1>1, <1>2, <1>3 DEF Upstream

LEMMA EndType ==
    ASSUME TypeInv, NEW r \in Requests, StreamEnd(r) \/ Disconnect(r)
    PROVE  TypeInv'
<1>1. Finish(r) /\ gone' \subseteq Requests
  BY DEF StreamEnd, Disconnect, TypeInv, LedgerType
<1>2. QED  BY <1>1, FinishType DEF TypeInv, LedgerType

LEMMA RunType ==
    ASSUME TypeInv, NEW b \in spawned, Run(b)
    PROVE  TypeInv'
<1>1. b \in Background /\ UNCHANGED <<pc, job>>
  BY DEF TypeInv, TasksType, Run, Disconnected, RecordLater, TrySwitch, CheckEnabled,
         ApplySwitch, ClearPending
<1>2. JobsType'  BY <1>1 DEF TypeInv, JobsType
<1>3. ASSUME Ends(b)
      PROVE  /\ spawned' \subseteq Background /\ IsFiniteSet(spawned')
             /\ \A c \in spawned' : c.task \in {"switch"} \cup Switching
                                      => c.provider \in Providers
  BY <1>3, FS_RemoveElement DEF Ends, TypeInv, TasksType
<1>4. ASSUME NEW kind \in Switching, Becomes(b, kind),
             b.task \in {"switch"} \cup Switching
      PROVE  /\ spawned' \subseteq Background /\ IsFiniteSet(spawned')
             /\ \A c \in spawned' : c.task \in {"switch"} \cup Switching
                                      => c.provider \in Providers
             /\ b.provider \in Providers
  <2>1. [b EXCEPT !.task = kind] \in Background
        /\ [b EXCEPT !.task = kind].provider = b.provider
    BY <1>1, <1>4 DEF Background
  <2>2. b.provider \in Providers  BY <1>4 DEF TypeInv, TasksType
  <2>3. IsFiniteSet(spawned')
    BY <1>4, FS_RemoveElement, FS_AddElement DEF Becomes, TypeInv, TasksType
  <2>4. QED  BY <1>4, <2>1, <2>2, <2>3 DEF Becomes, TypeInv, TasksType
<1>5. CASE Disconnected(b)
  BY <1>2, <1>3, <1>5
  DEF Disconnected, settings, ledger, TypeInv, SettingsType, TasksType, LedgerType
<1>6. CASE RecordLater(b)
  <2>1. owed' \in [Requests -> Int]
    BY <1>1, <1>6, OwedType DEF RecordLater, Background
  <2>2. QED  BY <1>2, <1>3, <1>6, <2>1
    DEF RecordLater, settings, TypeInv, SettingsType, TasksType, LedgerType
<1>7. CASE TrySwitch(b)
  <2>1. CASE Ends(b) /\ UNCHANGED pending
    BY <1>2, <1>3, <1>7, <2>1
    DEF TrySwitch, settings, ledger, TypeInv, SettingsType, TasksType, LedgerType
  <2>2. CASE Becomes(b, "check") /\ pending' = pending \cup {b.provider}
    BY <1>2, <1>4, <1>7, <2>2
    DEF TrySwitch, settings, ledger, TypeInv, SettingsType, TasksType, LedgerType,
        Switching
  <2>3. QED  BY <1>7, <2>1, <2>2 DEF TrySwitch
<1>8. CASE CheckEnabled(b)
  BY <1>2, <1>4, <1>8
  DEF CheckEnabled, settings, ledger, TypeInv, SettingsType, TasksType, LedgerType,
      Switching
<1>9. CASE ApplySwitch(b)
  BY <1>2, <1>4, <1>9
  DEF ApplySwitch, ledger, TypeInv, SettingsType, TasksType, LedgerType, Switching
<1>10. CASE ClearPending(b)
  BY <1>2, <1>3, <1>10
  DEF ClearPending, settings, ledger, TypeInv, SettingsType, TasksType, LedgerType
<1>11. QED  BY <1>5, <1>6, <1>7, <1>8, <1>9, <1>10 DEF Run

LEMMA TypeStep == TypeInv /\ [Next]_vars => TypeInv'
<1> SUFFICES ASSUME TypeInv, [Next]_vars PROVE TypeInv'  OBVIOUS
<1>1. CASE User
  BY <1>1
  DEF User, Choose, ToggleFailover, background, ledger, TypeInv, SettingsType,
      TasksType, JobsType, LedgerType
<1>2. CASE UNCHANGED vars
  BY <1>2
  DEF vars, settings, background, ledger, TypeInv, SettingsType, TasksType, JobsType,
      LedgerType
<1>3. QED  BY <1>1, <1>2, ContextType, ProxyType, UpstreamType, EndType, RunType
           DEF Next

-----------------------------------------------------------------------------
(* Permits *)

\* Where a request keeps to its place, its permits need only be given back when
\* it stops trying.
LEMMA KeptPermits ==
    ASSUME TypeInv, PermitsReturned, NEW r \in Requests,
           \A q \in Requests \ {r} : pc'[q] = pc[q] /\ job'[q] = job[q],
           permits' \subseteq permits, gone \subseteq gone',
           \A p \in Providers : <<r, p>> \in permits' =>
               r \in gone' \/ (pc'[r] \in Trying /\ p = Provider(r)')
    PROVE  PermitsReturned'
<1> SUFFICES ASSUME NEW q \in Requests, NEW p \in Providers, <<q, p>> \in permits'
             PROVE  q \in gone' \/ (pc'[q] \in Trying /\ p = Provider(q)')
  BY DEF PermitsReturned
<1>1. CASE q = r  BY <1>1
<1>2. CASE q # r
  <2>1. q \in gone \/ (pc[q] \in Trying /\ p = Provider(q))
    BY DEF PermitsReturned
  <2>2. QED  BY <1>2, <2>1 DEF Provider
<1>3. QED  BY <1>1, <1>2

\* A move to a label where its provider is still being tried, or from one where
\* none was.
LEMMA MovePermits ==
    ASSUME TypeInv, PermitsReturned, NEW r \in Requests, NEW from, NEW to,
           Goto(r, from, to), UNCHANGED <<permits, gone>>,
           from \notin Trying \/ (to \in Trying /\ UNCHANGED job),
           \A q \in Requests \ {r} : job'[q] = job[q]
    PROVE  PermitsReturned'
<1>1. \A q \in Requests \ {r} : pc'[q] = pc[q]  BY DEF Goto, TypeInv, JobsType
<1>2. pc[r] = from /\ pc'[r] = to  BY DEF Goto, TypeInv, JobsType
<1>3. ASSUME NEW p \in Providers, <<r, p>> \in permits'
      PROVE  r \in gone' \/ (pc'[r] \in Trying /\ p = Provider(r)')
  BY <1>2, <1>3 DEF PermitsReturned, Provider
<1>4. QED  BY <1>1, <1>3, KeptPermits

LEMMA PermitsStep == TypeInv /\ PermitsReturned /\ [Next]_vars => PermitsReturned'
<1> SUFFICES ASSUME TypeInv, PermitsReturned, [Next]_vars PROVE PermitsReturned'
  OBVIOUS
<1>1. ASSUME NEW r \in Requests, Finish(r), gone \subseteq gone',
             r \in gone' \/ pc[r] \notin Trying
      PROVE  PermitsReturned'
  <2>1. UNCHANGED permits /\ \A q \in Requests \ {r} : pc'[q] = pc[q] /\ job'[q] = job[q]
    BY <1>1 DEF Finish, TypeInv, JobsType
  <2>2. \A p \in Providers : <<r, p>> \in permits' => r \in gone'
    BY <1>1, <2>1 DEF PermitsReturned
  <2>3. QED  BY <1>1, <2>1, <2>2, KeptPermits
<1>2. ASSUME NEW r \in Requests, Context(r)  PROVE PermitsReturned'
  <2>1. CASE ReadConfig(r)
    BY <1>2, <2>1, MovePermits
    DEF ReadConfig, ledger, Trying, TypeInv, JobsType
  <2>2. CASE ReadCurrent(r) \/ SelectMode(r) \/ SelectQueue(r) \/ SelectCurrent(r)
    <3>1. UNCHANGED <<permits, gone>>
          /\ \A q \in Requests \ {r} : job'[q] = job[q]
      BY <2>2 DEF ReadCurrent, SelectMode, SelectQueue, SelectCurrent, Set, ledger,
                  TypeInv, JobsType
    <3>2. \E from \in {"current", "mode", "queue", "single"} :
             \E to \in Label : Goto(r, from, to)
      BY <2>2 DEF ReadCurrent, SelectMode, SelectQueue, SelectCurrent, Label
    <3>3. QED  BY <3>1, <3>2, MovePermits DEF Trying
  <2>3. CASE SelectNone(r)  BY <2>3, <1>1 DEF SelectNone, Trying
  <2>4. QED  BY <1>2, <2>1, <2>2, <2>3 DEF Context
<1>3. ASSUME NEW r \in Requests, GiveBack(r), UNCHANGED gone,
             NEW from \in Trying, NEW to, Goto(r, from, to),
             \A q \in Requests \ {r} : job'[q] = job[q]
      PROVE  PermitsReturned'
  <2>1. \A q \in Requests \ {r} : pc'[q] = pc[q]
    BY <1>3 DEF Goto, TypeInv, JobsType
  <2>2. permits' \subseteq permits /\ <<r, Provider(r)>> \notin permits'
    BY <1>3 DEF GiveBack
  <2>3. \A p \in Providers : <<r, p>> \in permits' => r \in gone'
    BY <1>3, <2>2 DEF PermitsReturned
  <2>4. QED  BY <1>3, <2>1, <2>2, <2>3, KeptPermits
<1>4. ASSUME NEW r \in Requests, Advance(r)
      PROVE  \A q \in Requests \ {r} : job'[q] = job[q]
  BY <1>4 DEF Advance, Set, TypeInv, JobsType
<1>5. ASSUME NEW r \in Requests, Proxy(r)  PROVE PermitsReturned'
  <2>1. CASE AcquireGuard(r) \/ StopTrying(r)
    BY <2>1, MovePermits DEF AcquireGuard, StopTrying, ledger, Trying
  <2>2. CASE Refuse(r)
    <3>1. Goto(r, "next", "next") /\ UNCHANGED <<permits, gone>>
      BY <2>2 DEF Refuse, Goto, TypeInv, JobsType
    <3>2. QED  BY <1>4, <2>2, <3>1, MovePermits DEF Refuse, Trying
  <2>3. CASE Admit(r)
    <3>1. Goto(r, "next", "call") /\ Set(r, "attempted", job[r].attempted + 1)
          /\ UNCHANGED gone
          /\ permits' \subseteq permits \cup {<<r, Provider(r)>>}
      BY <2>3 DEF Admit
    <3>2. \A q \in Requests \ {r} : pc'[q] = pc[q] /\ job'[q] = job[q]
      BY <3>1 DEF Goto, Set, TypeInv, JobsType
    <3>3. pc[r] = "next" /\ pc'[r] = "call" /\ Provider(r)' = Provider(r)
      BY <3>1 DEF Goto, Set, TypeInv, JobsType, Job, Provider
    <3>4. SUFFICES ASSUME NEW q \in Requests, NEW p \in Providers, <<q, p>> \in permits'
                   PROVE  q \in gone' \/ (pc'[q] \in Trying /\ p = Provider(q)')
      BY DEF PermitsReturned
    <3>5. CASE q = r
      <4>1. <<q, p>> \in permits => q \in gone
        BY <3>3, <3>5 DEF PermitsReturned, Trying
      <4>2. QED  BY <3>1, <3>3, <3>4, <3>5, <4>1 DEF Trying
    <3>6. CASE q # r
      <4>1. <<q, p>> \in permits  BY <3>1, <3>4, <3>6
      <4>2. q \in gone \/ (pc[q] \in Trying /\ p = Provider(q))
        BY <4>1 DEF PermitsReturned
      <4>3. QED  BY <3>1, <3>2, <3>6, <4>2 DEF Provider
    <3>7. QED  BY <3>5, <3>6
  <2>4. CASE RecordSuccess(r)
    <3>1. GiveBack(r)  BY <2>4 DEF RecordSuccess, GiveBack
    <3>2. QED  BY <1>3, <2>4, <3>1 DEF RecordSuccess, Trying
  <2>5. CASE CountSuccess(r)
    BY <2>5, MovePermits DEF CountSuccess, ledger, Trying
  <2>6. CASE RecordFailure(r)
    BY <1>3, <1>4, <2>6 DEF RecordFailure, Trying
  <2>7. CASE ReleaseNeutral(r)
    BY <1>3, <2>7 DEF ReleaseNeutral, Trying
  <2>8. CASE CountFailure(r)  BY <1>1, <2>8 DEF CountFailure, Trying
  <2>9. QED  BY <1>5, <2>1, <2>2, <2>3, <2>4, <2>5, <2>6, <2>7, <2>8 DEF Proxy
<1>6. ASSUME NEW r \in Requests, Upstream(r)  PROVE PermitsReturned'
  <2>1. UNCHANGED <<permits, gone, job>>
    BY <1>6 DEF Upstream, Answer, FirstError, RepairedError, ledger
  <2>2. \E from, to \in Trying : Goto(r, from, to)
    BY <1>6 DEF Upstream, Answer, FirstError, RepairedError, Trying
  <2>3. QED  BY <2>1, <2>2, MovePermits
<1>7. ASSUME NEW r \in Requests, StreamEnd(r) \/ Disconnect(r)
      PROVE  PermitsReturned'
  <2>1. CASE StreamEnd(r)  BY <1>1, <2>1 DEF StreamEnd, Trying
  <2>2. CASE Disconnect(r)  BY <1>1, <2>2 DEF Disconnect
  <2>3. QED  BY <1>7, <2>1, <2>2
<1>8. ASSUME UNCHANGED <<permits, pc, job, gone>>  PROVE PermitsReturned'
  BY <1>8 DEF PermitsReturned, Provider
<1>9. ASSUME NEW b \in spawned, Run(b)  PROVE PermitsReturned'
  BY <1>8, <1>9
  DEF Run, Disconnected, RecordLater, TrySwitch, CheckEnabled, ApplySwitch,
      ClearPending, ledger
<1>10. CASE User \/ UNCHANGED vars
  BY <1>8, <1>10 DEF User, Choose, ToggleFailover, ledger, vars
<1>11. QED  BY <1>2, <1>5, <1>6, <1>7, <1>9, <1>10 DEF Next

\* No way out of an attempt keeps a half-open permit, for any number of requests
\* and providers and any mix of errors; only a client that disconnects takes one
\* along.
THEOREM PermitsComeBack == Spec => []PermitsReturned
<1>1. Init => PermitsReturned  BY DEF Init, PermitsReturned
<1>2. QED  BY <1>1, TypeInit, TypeStep, PermitsStep, PTL DEF Spec

-----------------------------------------------------------------------------
(* Whose fault an error is *)

\* What is known of the last error at each point where it decides something.
Judged(r) ==
    /\ pc[r] = "retry" => doubt[r]
    /\ pc[r] = "neutral" =>
         verdict[r] # "none" /\ (~ Retryable(verdict[r]) \/ doubt[r])
    /\ pc[r] = "blame" =>
         Retryable(verdict[r]) \/ (doubt[r] /\ verdict[r] = "not_implemented")
    /\ pc[r] = "fail" =>
         \/ ~ MorePlaces(r)
         \/ job[r].attempted = job[r].max_attempts
         \/ verdict[r] # "none" /\ (~ Retryable(verdict[r]) \/ doubt[r])

JudgedInv == \A r \in Requests : Judged(r)

\* A step of one request.
LEMMA JudgedAlone ==
    ASSUME TypeInv, JudgedInv, NEW r \in Requests, Judged(r)',
           \A q \in Requests \ {r} : /\ pc'[q] = pc[q] /\ job'[q] = job[q]
                                     /\ verdict'[q] = verdict[q]
                                     /\ doubt'[q] = doubt[q]
    PROVE  JudgedInv'
<1> SUFFICES ASSUME NEW q \in Requests PROVE Judged(q)'  BY DEF JudgedInv
<1>1. CASE q = r  BY <1>1
<1>2. CASE q # r
  <2>1. pc'[q] = pc[q] /\ job'[q] = job[q] /\ verdict'[q] = verdict[q]
        /\ doubt'[q] = doubt[q]
    BY <1>2
  <2>2. QED  BY <2>1 DEF JudgedInv, Judged, MorePlaces
<1>3. QED  BY <1>1, <1>2

\* At any other label nothing has been decided.
LEMMA JudgedElsewhere ==
    ASSUME TypeInv, JudgedInv, NEW r \in Requests,
           NEW to \in Label \ {"retry", "neutral", "blame", "fail"},
           pc' = [pc EXCEPT ![r] = to],
           \A q \in Requests \ {r} : /\ job'[q] = job[q]
                                     /\ verdict'[q] = verdict[q]
                                     /\ doubt'[q] = doubt[q]
    PROVE  JudgedInv'
<1>1. \A q \in Requests \ {r} : pc'[q] = pc[q]  BY DEF TypeInv, JobsType
<1>2. pc'[r] = to  BY DEF TypeInv, JobsType
<1>3. Judged(r)'  BY <1>2 DEF Judged
<1>4. QED  BY <1>1, <1>3, JudgedAlone

LEMMA JudgedStep == TypeInv /\ JudgedInv /\ [Next]_vars => JudgedInv'
<1> SUFFICES ASSUME TypeInv, JudgedInv, [Next]_vars PROVE JudgedInv'
  OBVIOUS
<1>1. ASSUME NEW r \in Requests, Finish(r)  PROVE JudgedInv'
  <2>1. pc' = [pc EXCEPT ![r] = "over"]
        /\ \A q \in Requests \ {r} : /\ job'[q] = job[q] /\ verdict'[q] = verdict[q]
                                     /\ doubt'[q] = doubt[q]
    BY <1>1 DEF Finish, TypeInv, JobsType, LedgerType
  <2>2. QED  BY <2>1, JudgedElsewhere DEF Label
<1>2. ASSUME NEW r \in Requests, NEW from,
             NEW to \in Label \ {"retry", "neutral", "blame", "fail"},
             Goto(r, from, to), UNCHANGED <<verdict, doubt>>,
             \A q \in Requests \ {r} : job'[q] = job[q]
      PROVE  JudgedInv'
  BY <1>2, JudgedElsewhere DEF Goto
<1>3. ASSUME NEW r \in Requests, Context(r)  PROVE JudgedInv'
  <2>1. CASE SelectNone(r)  BY <1>1, <2>1 DEF SelectNone
  <2>2. CASE ~ SelectNone(r)
    <3>1. UNCHANGED <<verdict, doubt>> /\ \A q \in Requests \ {r} : job'[q] = job[q]
      BY <1>3, <2>2
      DEF Context, ReadConfig, ReadCurrent, SelectMode, SelectQueue, SelectCurrent,
          Set, ledger, TypeInv, JobsType
    <3>2. \E from \in Label, to \in Label \ {"retry", "neutral", "blame", "fail"} :
             Goto(r, from, to)
      BY <1>3, <2>2
      DEF Context, ReadConfig, ReadCurrent, SelectMode, SelectQueue, SelectCurrent,
          Label
    <3>3. QED  BY <1>2, <3>1, <3>2
  <2>3. QED  BY <2>1, <2>2
<1>4. ASSUME NEW r \in Requests, pc' = [pc EXCEPT ![r] = "next"], Advance(r)
      PROVE  JudgedInv'
  <2>1. \A q \in Requests \ {r} : /\ job'[q] = job[q] /\ verdict'[q] = verdict[q]
                                  /\ doubt'[q] = doubt[q]
    BY <1>4 DEF Advance, Set, TypeInv, JobsType, LedgerType
  <2>2. QED  BY <1>4, <2>1, JudgedElsewhere DEF Label
<1>5. ASSUME NEW r \in Requests, NEW from \in {"next", "neutral"}, Goto(r, from, "fail"),
             UNCHANGED <<job, verdict, doubt>>,
             from = "next" => ~ (MorePlaces(r) /\ AttemptsLeft(r))
      PROVE  JudgedInv'
  <2>1. pc[r] = from /\ pc'[r] = "fail" /\ \A q \in Requests \ {r} : pc'[q] = pc[q]
    BY <1>5 DEF Goto, TypeInv, JobsType
  <2>2. CASE from = "next"
    <3>1. ~ AttemptsLeft(r) => job[r].attempted = job[r].max_attempts
      BY DEF TypeInv, JobsType, Job, AttemptsLeft
    <3>2. ~ MorePlaces(r)' \/ job'[r].attempted = job'[r].max_attempts
      BY <1>5, <2>2, <3>1 DEF MorePlaces
    <3>3. Judged(r)'  BY <2>1, <3>2 DEF Judged
    <3>4. QED  BY <1>5, <2>1, <3>3, JudgedAlone
  <2>3. CASE from = "neutral"
    <3>1. verdict[r] # "none" /\ (~ Retryable(verdict[r]) \/ doubt[r])
      BY <2>1, <2>3 DEF JudgedInv, Judged
    <3>2. Judged(r)'  BY <1>5, <2>1, <3>1 DEF Judged
    <3>3. QED  BY <1>5, <2>1, <3>2, JudgedAlone
  <2>4. QED  BY <2>2, <2>3
<1>6. ASSUME NEW r \in Requests, Proxy(r)  PROVE JudgedInv'
  <2>1. CASE AcquireGuard(r)
    BY <1>2, <2>1 DEF AcquireGuard, ledger, Label
  <2>2. CASE StopTrying(r)  BY <1>5, <2>2 DEF StopTrying, ledger
  <2>3. CASE Refuse(r)
    <3>1. pc' = [pc EXCEPT ![r] = "next"]  BY <2>3 DEF Refuse, TypeInv, JobsType
    <3>2. QED  BY <1>4, <2>3, <3>1 DEF Refuse
  <2>4. CASE Admit(r)
    BY <1>2, <2>4 DEF Admit, Set, Label, TypeInv, JobsType
  <2>5. CASE RecordSuccess(r) \/ CountSuccess(r)
    BY <1>2, <2>5 DEF RecordSuccess, CountSuccess, ledger, Label
  <2>6. CASE RecordFailure(r)
    BY <1>4, <2>6 DEF RecordFailure, Goto
  <2>7. CASE ReleaseNeutral(r)
    BY <1>5, <2>7 DEF ReleaseNeutral
  <2>8. CASE CountFailure(r)  BY <1>1, <2>8 DEF CountFailure
  <2>9. QED  BY <1>6, <2>1, <2>2, <2>3, <2>4, <2>5, <2>6, <2>7, <2>8 DEF Proxy
<1>7. CASE \E r \in Requests : Answer(r)
  BY <1>2, <1>7 DEF Answer, ledger, Label
<1>8. ASSUME NEW r \in Requests, FirstError(r)  PROVE JudgedInv'
  <2>1. PICK e \in Errors :
          /\ verdict' = [verdict EXCEPT ![r] = e.kind]
          /\ doubt' = [doubt EXCEPT ![r] = CallsForRepair(Provider(r), e)]
          /\ \/ Repairs(Provider(r), e) /\ Goto(r, "call", "retry")
             \/ TurnsAway(Provider(r), e) /\ Goto(r, "call", "neutral")
             \/ ByCategory(Provider(r), e) /\ Goto(r, "call", "blame")
    BY <1>8 DEF FirstError
  <2>2. e.kind \in Kind  BY ErrorsAssumption DEF Error
  <2>3. verdict'[r] = e.kind /\ doubt'[r] = CallsForRepair(Provider(r), e)
        /\ \A q \in Requests \ {r} : verdict'[q] = verdict[q] /\ doubt'[q] = doubt[q]
    BY <2>1, Zenon DEF TypeInv, LedgerType
  <2>4. UNCHANGED job /\ \A q \in Requests \ {r} : pc'[q] = pc[q]
    BY <1>8 DEF FirstError, Goto, TypeInv, JobsType
  <2>5. CASE Repairs(Provider(r), e) /\ Goto(r, "call", "retry")
    <3>1. pc'[r] = "retry"  BY <2>5 DEF Goto, TypeInv, JobsType
    <3>2. CallsForRepair(Provider(r), e)  BY <2>5 DEF Repairs, CallsForRepair
    <3>3. Judged(r)'  BY <2>3, <3>1, <3>2 DEF Judged
    <3>4. QED  BY <2>3, <2>4, <3>3, JudgedAlone
  <2>6. CASE TurnsAway(Provider(r), e) /\ Goto(r, "call", "neutral")
    <3>1. pc'[r] = "neutral"  BY <2>6 DEF Goto, TypeInv, JobsType
    <3>2. ~ Retryable(e.kind) \/ CallsForRepair(Provider(r), e)
      BY <2>6 DEF TurnsAway, CallsForRepair
    <3>3. e.kind # "none"  BY <2>2 DEF Kind
    <3>4. Judged(r)'  BY <2>3, <3>1, <3>2, <3>3 DEF Judged
    <3>5. QED  BY <2>3, <2>4, <3>4, JudgedAlone
  <2>7. CASE ByCategory(Provider(r), e) /\ Goto(r, "call", "blame")
    <3>1. pc'[r] = "blame"  BY <2>7 DEF Goto, TypeInv, JobsType
    <3>2. Retryable(e.kind)  BY <2>7 DEF ByCategory, TurnsAway
    <3>3. Judged(r)'  BY <2>3, <3>1, <3>2 DEF Judged
    <3>4. QED  BY <2>3, <2>4, <3>3, JudgedAlone
  <2>8. QED  BY <2>1, <2>5, <2>6, <2>7
<1>9. ASSUME NEW r \in Requests, RepairedError(r)  PROVE JudgedInv'
  <2>1. PICK e \in Errors :
          /\ verdict' = [verdict EXCEPT ![r] = e.kind]
          /\ Goto(r, "retry", IF ProviderAtFault(e.kind) THEN "blame" ELSE "neutral")
    BY <1>9 DEF RepairedError
  <2>2. e.kind \in Kind  BY ErrorsAssumption DEF Error
  <2>3. UNCHANGED <<job, doubt>>  BY <1>9 DEF RepairedError
  <2>4. verdict'[r] = e.kind /\ pc[r] = "retry"
        /\ \A q \in Requests \ {r} : verdict'[q] = verdict[q] /\ pc'[q] = pc[q]
    BY <2>1 DEF Goto, TypeInv, JobsType, LedgerType
  <2>5. doubt'[r]  BY <2>3, <2>4 DEF JudgedInv, Judged
  <2>6. CASE ProviderAtFault(e.kind)
    <3>1. pc'[r] = "blame"  BY <2>1, <2>6 DEF Goto, TypeInv, JobsType
    <3>2. Retryable(e.kind) \/ e.kind = "not_implemented"
      BY <2>6 DEF ProviderAtFault, Retryable
    <3>3. Judged(r)'  BY <2>4, <2>5, <3>1, <3>2 DEF Judged
    <3>4. QED  BY <2>3, <2>4, <3>3, JudgedAlone
  <2>7. CASE ~ ProviderAtFault(e.kind)
    <3>1. pc'[r] = "neutral"  BY <2>1, <2>7 DEF Goto, TypeInv, JobsType
    <3>2. e.kind # "none"  BY <2>2 DEF Kind
    <3>3. Judged(r)'  BY <2>4, <2>5, <3>1, <3>2 DEF Judged
    <3>4. QED  BY <2>3, <2>4, <3>3, JudgedAlone
  <2>8. QED  BY <2>6, <2>7
<1>10. ASSUME NEW r \in Requests, StreamEnd(r) \/ Disconnect(r)
       PROVE  JudgedInv'
  BY <1>1, <1>10 DEF StreamEnd, Disconnect
<1>11. ASSUME UNCHANGED <<pc, job, verdict, doubt>>  PROVE JudgedInv'
  BY <1>11 DEF JudgedInv, Judged, MorePlaces
<1>12. ASSUME NEW b \in spawned, Run(b)  PROVE JudgedInv'
  BY <1>11, <1>12
  DEF Run, Disconnected, RecordLater, TrySwitch, CheckEnabled, ApplySwitch,
      ClearPending, ledger
<1>13. CASE User \/ UNCHANGED vars
  BY <1>11, <1>13 DEF User, Choose, ToggleFailover, ledger, vars
<1>14. QED  BY <1>3, <1>6, <1>7, <1>8, <1>9, <1>10, <1>12, <1>13 DEF Next, Upstream

LEMMA JudgedInit == Init => JudgedInv
BY DEF Init, JudgedInv, Judged

\* Whatever errors the upstreams answer with, a request with a candidate and an
\* attempt left is failed only on the client's error or after one that called
\* for a repair.
THEOREM FailoverGoesOn == Spec => []OnlyClientErrorsStopFailover
<1>1. JudgedInv => OnlyClientErrorsStopFailover
  BY DEF JudgedInv, Judged, OnlyClientErrorsStopFailover
<1>2. QED  BY <1>1, TypeInit, TypeStep, JudgedInit, JudgedStep, PTL DEF Spec

\* And no breaker is told of a failure that was the client's.
THEOREM ClientErrorsSpared == Spec => []ClientErrorsSpareTheBreaker
<1>1. JudgedInv => ClientErrorsSpareTheBreaker
  BY DEF JudgedInv, Judged, ClientErrorsSpareTheBreaker
<1>2. QED  BY <1>1, TypeInit, TypeStep, JudgedInit, JudgedStep, PTL DEF Spec

-----------------------------------------------------------------------------
(* Switches *)

InFlight == {b \in spawned : b.task \in Switching}

\* A step that leaves the switches in progress alone.
LEMMA SameSwitches ==
    ASSUME SwitchesNotDoubled, UNCHANGED pending, InFlight' = InFlight
    PROVE  SwitchesNotDoubled'
<1>1. pending' = {b.provider : b \in InFlight'}
  BY DEF SwitchesNotDoubled, InFlight
<1>2. \A b, c \in InFlight' : b.provider = c.provider => b = c
  BY DEF SwitchesNotDoubled, InFlight
<1>3. QED  BY <1>1, <1>2 DEF SwitchesNotDoubled, InFlight

\* A new task that is not a switch in progress.
LEMMA SpawnSwitches ==
    ASSUME SwitchesNotDoubled, UNCHANGED pending, NEW b,
           b.task \notin Switching, spawned' \in {spawned, spawned \cup {b}}
    PROVE  SwitchesNotDoubled'
<1>1. InFlight' = InFlight  BY DEF InFlight
<1>2. QED  BY <1>1, SameSwitches

\* A task goes on to another step of its switch.
LEMMA GoOnSwitching ==
    ASSUME TypeInv, SwitchesNotDoubled, UNCHANGED pending,
           NEW b \in InFlight, NEW kind \in Switching, Becomes(b, kind)
    PROVE  SwitchesNotDoubled'
<1> DEFINE d == [b EXCEPT !.task = kind]
<1>1. d.provider = b.provider /\ d.task = kind
  BY DEF InFlight, TypeInv, TasksType, Background
<1>2. InFlight' = (InFlight \ {b}) \cup {d}
  BY <1>1 DEF InFlight, Becomes
<1>3. pending = {c.provider : c \in InFlight}
      /\ \A c, e \in InFlight : c.provider = e.provider => c = e
  BY DEF SwitchesNotDoubled, InFlight
<1>4. pending' = {c.provider : c \in InFlight'}  BY <1>1, <1>2, <1>3
<1>5. \A c, e \in InFlight' : c.provider = e.provider => c = e
  BY <1>1, <1>2, <1>3
<1>6. QED  BY <1>4, <1>5 DEF SwitchesNotDoubled, InFlight

LEMMA SwitchesStep == TypeInv /\ SwitchesNotDoubled /\ [Next]_vars => SwitchesNotDoubled'
<1> SUFFICES ASSUME TypeInv, SwitchesNotDoubled, [Next]_vars
             PROVE  SwitchesNotDoubled'
  OBVIOUS
<1>1. ASSUME UNCHANGED <<spawned, pending>>  PROVE SwitchesNotDoubled'
  BY <1>1, SameSwitches DEF InFlight
<1>2. ASSUME NEW r \in Requests, Finish(r)  PROVE SwitchesNotDoubled'
  <2>1. spawned' \in {spawned, spawned \cup {Task("drop", r, "none")}}
    BY <1>2 DEF Finish
  <2>2. Task("drop", r, "none").task \notin Switching  BY DEF Task, Switching
  <2>3. QED  BY <1>2, <2>1, <2>2, SpawnSwitches DEF Finish
<1>3. ASSUME NEW r \in Requests, Context(r)  PROVE SwitchesNotDoubled'
  BY <1>1, <1>2, <1>3
  DEF Context, ReadConfig, ReadCurrent, SelectMode, SelectQueue, SelectNone,
      SelectCurrent, background
<1>4. ASSUME NEW r \in Requests, Proxy(r)  PROVE SwitchesNotDoubled'
  <2>1. CASE RecordSuccess(r)
    <3>1. spawned' \in {spawned, spawned \cup {Task("success", r, Provider(r))}}
      BY <2>1 DEF RecordSuccess
    <3>2. Task("success", r, Provider(r)).task \notin Switching
      BY DEF Task, Switching
    <3>3. QED  BY <2>1, <3>1, <3>2, SpawnSwitches DEF RecordSuccess
  <2>2. CASE CountSuccess(r)
    <3>1. spawned' \in {spawned, spawned \cup {Task("switch", r, Provider(r))}}
      BY <2>2 DEF CountSuccess
    <3>2. Task("switch", r, Provider(r)).task \notin Switching
      BY DEF Task, Switching
    <3>3. QED  BY <2>2, <3>1, <3>2, SpawnSwitches DEF CountSuccess
  <2>3. CASE ~ (RecordSuccess(r) \/ CountSuccess(r))
    BY <1>1, <1>2, <1>4, <2>3
    DEF Proxy, AcquireGuard, StopTrying, Refuse, Admit, RecordFailure, ReleaseNeutral,
        CountFailure, background
  <2>4. QED  BY <2>1, <2>2, <2>3
<1>5. ASSUME NEW r \in Requests, Upstream(r) \/ StreamEnd(r) \/ Disconnect(r)
      PROVE  SwitchesNotDoubled'
  BY <1>1, <1>2, <1>5
  DEF Upstream, Answer, FirstError, RepairedError, StreamEnd, Disconnect, background
<1>6. ASSUME NEW b \in spawned, b.task \notin Switching, Ends(b), UNCHANGED pending
      PROVE  SwitchesNotDoubled'
  <2>1. InFlight' = InFlight  BY <1>6 DEF Ends, InFlight
  <2>2. QED  BY <1>6, <2>1, SameSwitches
<1>7. ASSUME NEW b \in spawned, Run(b)  PROVE SwitchesNotDoubled'
  <2>1. CASE Disconnected(b) \/ RecordLater(b)
    BY <1>6, <2>1 DEF Disconnected, RecordLater, Switching
  <2>2. CASE TrySwitch(b)
    <3>1. b.task = "switch" /\ "switch" \notin Switching
      BY <2>2 DEF TrySwitch, Switching
    <3>2. CASE Ends(b) /\ UNCHANGED pending  BY <1>6, <3>1, <3>2
    <3>3. CASE /\ b.provider \notin pending
               /\ Becomes(b, "check") /\ pending' = pending \cup {b.provider}
      <4> DEFINE d == [b EXCEPT !.task = "check"]
      <4>1. d.provider = b.provider /\ d.task \in Switching
        BY DEF TypeInv, TasksType, Background, Switching
      <4>2. InFlight' = InFlight \cup {d}
        BY <3>1, <3>3, <4>1 DEF InFlight, Becomes
      <4>3. pending = {c.provider : c \in InFlight}
            /\ \A c, e \in InFlight : c.provider = e.provider => c = e
        BY DEF SwitchesNotDoubled, InFlight
      <4>4. pending' = {c.provider : c \in InFlight'}
        BY <3>3, <4>1, <4>2, <4>3
      <4>5. \A c \in InFlight : c.provider # d.provider  BY <3>3, <4>1, <4>3
      <4>6. \A c, e \in InFlight' : c.provider = e.provider => c = e
        BY <4>2, <4>3, <4>5
      <4>7. QED  BY <4>4, <4>6 DEF SwitchesNotDoubled, InFlight
    <3>4. QED  BY <2>2, <3>2, <3>3 DEF TrySwitch
  <2>3. CASE CheckEnabled(b)
    BY <2>3, GoOnSwitching DEF CheckEnabled, InFlight, Switching
  <2>4. CASE ApplySwitch(b)
    BY <2>4, GoOnSwitching DEF ApplySwitch, InFlight, Switching
  <2>5. CASE ClearPending(b)
    <3>1. b \in InFlight /\ InFlight' = InFlight \ {b}
          /\ pending' = pending \ {b.provider}
      BY <2>5 DEF ClearPending, Ends, InFlight, Switching
    <3>2. pending = {c.provider : c \in InFlight}
          /\ \A c, e \in InFlight : c.provider = e.provider => c = e
      BY DEF SwitchesNotDoubled, InFlight
    <3>3. pending' = {c.provider : c \in InFlight'}  BY <3>1, <3>2
    <3>4. \A c, e \in InFlight' : c.provider = e.provider => c = e
      BY <3>1, <3>2
    <3>5. QED  BY <3>3, <3>4 DEF SwitchesNotDoubled, InFlight
  <2>6. QED  BY <1>7, <2>1, <2>2, <2>3, <2>4, <2>5 DEF Run
<1>8. CASE User \/ UNCHANGED vars
  BY <1>1, <1>8 DEF User, Choose, ToggleFailover, background, vars
<1>9. QED  BY <1>3, <1>4, <1>5, <1>7, <1>8 DEF Next

\* However many requests fail over at once, one switch to a provider is in
\* progress at a time and the marks of those that have ended are gone.
THEOREM OneSwitchAtATime == Spec => []SwitchesNotDoubled
<1>1. Init => SwitchesNotDoubled  BY DEF Init, SwitchesNotDoubled
<1>2. QED  BY <1>1, TypeInit, TypeStep, SwitchesStep, PTL DEF Spec

-----------------------------------------------------------------------------
(* Connections *)

Drops == {b \in spawned : b.task = "drop"}

\* A guard is dropped once: its decrement is that of a request that is over.
DropsOver == \A b \in Drops : b.provider = "none" /\ pc[b.req] = "over"

Connections == DropsOver /\ ConnectionsCounted

LEMMA FiniteConnections ==
    ASSUME TypeInv
    PROVE  /\ IsFiniteSet(Guarded) /\ IsFiniteSet(Drops)
           /\ Cardinality(Guarded) \in Nat /\ Cardinality(Drops) \in Nat
<1>1. Guarded \in SUBSET Requests /\ Drops \in SUBSET spawned
  BY DEF Guarded, Drops
<1>2. QED  BY <1>1, RequestsAssumption, FS_Subset, FS_CardinalityType
           DEF TypeInv, TasksType

\* A request that moves between two labels on the same side of the guard.
LEMMA SameConnections ==
    ASSUME TypeInv, Connections, UNCHANGED active, Drops' = Drops,
           NEW r \in Requests, NEW to,
           pc' = [pc EXCEPT ![r] = to], pc[r] # "over",
           pc[r] \in Connected <=> to \in Connected
    PROVE  Connections'
<1>1. Guarded' = Guarded  BY DEF Guarded, TypeInv, JobsType
<1>2. DropsOver'
  <2>1. \A b \in Drops : b.req \in Requests
    BY DEF Drops, TypeInv, TasksType, Background
  <2>2. \A b \in Drops : b.req # r  BY DEF Connections, DropsOver
  <2>3. QED  BY <2>1, <2>2 DEF Connections, DropsOver, TypeInv, JobsType
<1>3. QED  BY <1>1, <1>2 DEF Connections, ConnectionsCounted, Drops

LEMMA GuardStep ==
    ASSUME TypeInv, Connections, NEW r \in Requests, AcquireGuard(r)
    PROVE  Connections'
<1>1. pc[r] = "guard" /\ pc' = [pc EXCEPT ![r] = "next"] /\ active' = active + 1
      /\ UNCHANGED spawned
  BY DEF AcquireGuard, Goto
<1>2. r \notin Guarded /\ Guarded' = Guarded \cup {r}
  BY <1>1 DEF Guarded, Connected, Trying, TypeInv, JobsType
<1>3. Cardinality(Guarded') = Cardinality(Guarded) + 1
  BY <1>2, FiniteConnections, FS_AddElement
<1>4. Drops' = Drops  BY <1>1 DEF Drops
<1>5. DropsOver'
  <2>1. \A b \in Drops : b.req \in Requests
    BY DEF Drops, TypeInv, TasksType, Background
  <2>2. \A b \in Drops : b.req # r  BY <1>1 DEF Connections, DropsOver
  <2>3. QED  BY <1>1, <1>4, <2>1, <2>2 DEF Connections, DropsOver, TypeInv, JobsType
<1>6. ConnectionsCounted'
  BY <1>1, <1>3, <1>4, FiniteConnections
  DEF Connections, ConnectionsCounted, Drops
<1>7. QED  BY <1>5, <1>6 DEF Connections

LEMMA FinishStep ==
    ASSUME TypeInv, Connections, NEW r \in Requests, Finish(r), pc[r] # "over"
    PROVE  Connections'
<1> DEFINE d == Task("drop", r, "none")
<1>1. pc' = [pc EXCEPT ![r] = "over"] /\ UNCHANGED active  BY DEF Finish
<1>2. \A b \in Drops : b.req \in Requests /\ b.req # r
  BY DEF Drops, Connections, DropsOver, TypeInv, TasksType, Background
<1>3. d.task = "drop" /\ d.req = r /\ d.provider = "none"  BY DEF Task
<1>4. CASE r \in Guarded
  <2>1. spawned' = spawned \cup {d}  BY <1>4 DEF Finish
  <2>2. d \notin Drops /\ Drops' = Drops \cup {d}
    BY <1>2, <1>3, <2>1 DEF Drops
  <2>3. Guarded' = Guarded \ {r}
    BY <1>1 DEF Guarded, Connected, Trying, TypeInv, JobsType
  <2>4. Cardinality(Drops') = Cardinality(Drops) + 1
    BY <2>2, FiniteConnections, FS_AddElement
  <2>5. Cardinality(Guarded') = Cardinality(Guarded) - 1
    BY <1>4, <2>3, FiniteConnections, FS_RemoveElement
  <2>6. ConnectionsCounted'
    BY <1>1, <2>4, <2>5, FiniteConnections
    DEF Connections, ConnectionsCounted, Drops
  <2>7. DropsOver'
    BY <1>1, <1>2, <1>3, <2>2 DEF Connections, DropsOver, TypeInv, JobsType
  <2>8. QED  BY <2>6, <2>7 DEF Connections
<1>5. CASE r \notin Guarded
  <2>1. spawned' = spawned  BY <1>5 DEF Finish
  <2>2. pc[r] \notin Connected  BY <1>5 DEF Guarded
  <2>3. "over" \notin Connected  BY DEF Connected, Trying
  <2>4. Drops' = Drops  BY <2>1 DEF Drops
  <2>5. QED  BY <1>1, <2>2, <2>3, <2>4, SameConnections
<1>6. QED  BY <1>4, <1>5

LEMMA ConnectionsStep == TypeInv /\ Connections /\ [Next]_vars => Connections'
<1> SUFFICES ASSUME TypeInv, Connections, [Next]_vars PROVE Connections'
  OBVIOUS
<1>1. ASSUME NEW r \in Requests, NEW from \in Label \ {"over"}, NEW to,
             Goto(r, from, to), UNCHANGED active, Drops' = Drops,
             from \in Connected <=> to \in Connected
      PROVE  Connections'
  BY <1>1, SameConnections DEF Goto
<1>2. ASSUME NEW r \in Requests, Context(r)  PROVE Connections'
  <2>1. CASE SelectNone(r)  BY <2>1, FinishStep DEF SelectNone
  <2>2. CASE ~ SelectNone(r)
    <3>1. UNCHANGED <<active, spawned>>
      BY <1>2, <2>2
      DEF Context, ReadConfig, ReadCurrent, SelectMode, SelectQueue, SelectCurrent,
          background
    <3>2. \E from, to \in {"idle", "current", "mode", "queue", "single", "guard"} :
             Goto(r, from, to)
      BY <1>2, <2>2
      DEF Context, ReadConfig, ReadCurrent, SelectMode, SelectQueue, SelectCurrent
    <3>3. Drops' = Drops  BY <3>1 DEF Drops
    <3>4. QED  BY <1>1, <3>1, <3>2, <3>3 DEF Connected, Trying, Label
  <2>3. QED  BY <2>1, <2>2
<1>3. ASSUME NEW r \in Requests, Proxy(r)  PROVE Connections'
  <2>1. CASE AcquireGuard(r)  BY <2>1, GuardStep
  <2>2. CASE CountFailure(r)  BY <2>2, FinishStep DEF CountFailure
  <2>3. CASE StopTrying(r) \/ Admit(r) \/ RecordFailure(r) \/ ReleaseNeutral(r)
    <3>1. UNCHANGED <<active, spawned>>
      BY <2>3 DEF StopTrying, Admit, RecordFailure, ReleaseNeutral, background
    <3>2. \E from, to \in {"next", "fail", "call", "blame", "neutral"} :
             Goto(r, from, to)
      BY <2>3 DEF StopTrying, Admit, RecordFailure, ReleaseNeutral
    <3>3. Drops' = Drops  BY <3>1 DEF Drops
    <3>4. QED  BY <1>1, <3>1, <3>2, <3>3 DEF Connected, Trying, Label
  <2>4. CASE RecordSuccess(r) \/ CountSuccess(r)
    <3>1. UNCHANGED active  BY <2>4 DEF RecordSuccess, CountSuccess
    <3>2. \E from, to \in {"credit", "stats", "streaming"} : Goto(r, from, to)
      BY <2>4 DEF RecordSuccess, CountSuccess
    <3>3. \E b : b.task \in {"success", "switch"}
                   /\ spawned' \in {spawned, spawned \cup {b}}
      <4>1. Task("success", r, Provider(r)).task = "success"
            /\ Task("switch", r, Provider(r)).task = "switch"
        BY DEF Task
      <4>2. CASE RecordSuccess(r)
        <5>1. spawned' \in {spawned, spawned \cup {Task("success", r, Provider(r))}}
          BY <4>2 DEF RecordSuccess
        <5>2. QED  BY <4>1, <5>1
      <4>3. CASE CountSuccess(r)
        <5>1. spawned' \in {spawned, spawned \cup {Task("switch", r, Provider(r))}}
          BY <4>3 DEF CountSuccess
        <5>2. QED  BY <4>1, <5>1
      <4>4. QED  BY <2>4, <4>2, <4>3
    <3>4. Drops' = Drops  BY <3>3 DEF Drops
    <3>5. QED  BY <1>1, <3>1, <3>2, <3>4 DEF Connected, Trying, Label
  <2>5. CASE Refuse(r)
    <3>1. UNCHANGED <<active, spawned, pc>>  BY <2>5 DEF Refuse, background
    <3>2. QED  BY <3>1 DEF Connections, DropsOver, ConnectionsCounted, Drops, Guarded
  <2>6. QED  BY <1>3, <2>1, <2>2, <2>3, <2>4, <2>5 DEF Proxy
<1>4. ASSUME NEW r \in Requests, Upstream(r)  PROVE Connections'
  <2>1. UNCHANGED <<active, spawned>>
    BY <1>4 DEF Upstream, Answer, FirstError, RepairedError, background
  <2>2. \E from, to \in Trying : Goto(r, from, to)
    BY <1>4 DEF Upstream, Answer, FirstError, RepairedError, Trying
  <2>3. Drops' = Drops  BY <2>1 DEF Drops
  <2>4. QED  BY <1>1, <2>1, <2>2, <2>3 DEF Connected, Trying, Label
<1>5. ASSUME NEW r \in Requests, StreamEnd(r) \/ Disconnect(r)
      PROVE  Connections'
  BY <1>5, FinishStep DEF StreamEnd, Disconnect
<1>6. ASSUME UNCHANGED <<active, pc>>, Drops' = Drops  PROVE Connections'
  <2>1. Guarded' = Guarded  BY <1>6 DEF Guarded
  <2>2. QED  BY <1>6, <2>1 DEF Connections, DropsOver, ConnectionsCounted, Drops
<1>7. ASSUME NEW b \in spawned, Run(b)  PROVE Connections'
  <2>1. CASE Disconnected(b)
    <3>1. b \in Drops /\ Drops' = Drops \ {b} /\ active' = active - 1 /\ UNCHANGED pc
      BY <2>1 DEF Disconnected, Ends, Drops
    <3>2. Cardinality(Drops') = Cardinality(Drops) - 1
      BY <3>1, FiniteConnections, FS_RemoveElement
    <3>3. Guarded' = Guarded  BY <3>1 DEF Guarded
    <3>4. ConnectionsCounted'
      BY <3>1, <3>2, <3>3, FiniteConnections
      DEF Connections, ConnectionsCounted, Drops
    <3>5. DropsOver'  BY <3>1 DEF Connections, DropsOver
    <3>6. QED  BY <3>4, <3>5 DEF Connections
  <2>2. CASE ~ Disconnected(b)
    <3>1. UNCHANGED <<active, pc>> /\ b.task # "drop"
      BY <1>7, <2>2
      DEF Run, RecordLater, TrySwitch, CheckEnabled, ApplySwitch, ClearPending
    <3>2. Ends(b) \/ \E kind \in Switching : Becomes(b, kind)
      BY <1>7, <2>2
      DEF Run, RecordLater, TrySwitch, CheckEnabled, ApplySwitch, ClearPending,
          Switching
    <3>3. \A kind \in Switching : [b EXCEPT !.task = kind].task # "drop"
      BY DEF Switching, TypeInv, TasksType, Background
    <3>4. Drops' = Drops  BY <3>1, <3>2, <3>3 DEF Drops, Ends, Becomes
    <3>5. QED  BY <1>6, <3>1, <3>4
  <2>3. QED  BY <2>1, <2>2
<1>8. CASE User \/ UNCHANGED vars
  BY <1>6, <1>8 DEF User, Choose, ToggleFailover, background, vars, Drops
<1>9. QED  BY <1>2, <1>3, <1>4, <1>5, <1>7, <1>8 DEF Next

LEMMA ConnectionsInit == Init => Connections
<1> SUFFICES ASSUME Init PROVE Connections  OBVIOUS
<1>1. Drops = {}  BY DEF Init, Drops
<1>2. Guarded = {}  BY DEF Init, Guarded, Connected, Trying
<1>3. QED  BY <1>1, <1>2, FS_EmptySet DEF Init, Connections, DropsOver,
                                          ConnectionsCounted, Drops

\* The connection count is that of the guards alive or about to be counted out,
\* wherever requests end or are dropped.
THEOREM ConnectionsExact == Spec => []ConnectionsCounted
<1>1. Connections => ConnectionsCounted  BY DEF Connections
<1>2. QED  BY <1>1, TypeInit, TypeStep, ConnectionsInit, ConnectionsStep, PTL
           DEF Spec

\* No more connections are counted than there are requests.
LEMMA ActiveBound ==
    ASSUME TypeInv, Connections
    PROVE  active \in 0 .. Cardinality(Requests)
<1> DEFINE f == [b \in Drops |-> b.req]
           Rest == Requests \ Guarded
<1>1. f \in Injection(Drops, Rest)
  <2>1. \A b \in Drops : b \in Background /\ b.task = "drop" /\ b.provider = "none"
                          /\ b.req \in Rest
    BY DEF Drops, Connections, DropsOver, Guarded, Connected, Trying, TypeInv,
           TasksType, Background
  <2>2. f \in [Drops -> Rest]  BY <2>1
  <2>3. \A b, c \in Drops : b.req = c.req => b = c
    BY <2>1 DEF Background
  <2>4. QED  BY <2>2, <2>3 DEF Injection, IsInjective
<1>2. IsFiniteSet(Rest) /\ Cardinality(Rest) = Cardinality(Requests) - Cardinality(Guarded)
  <2>1. Requests \cap Guarded = Guarded  BY DEF Guarded
  <2>2. QED  BY <2>1, RequestsAssumption, FiniteConnections, FS_Difference
<1>3. Cardinality(Drops) <= Cardinality(Rest)  BY <1>1, <1>2, FS_Injection
<1>4. Cardinality(Requests) \in Nat  BY RequestsAssumption, FS_CardinalityType
<1>5. QED  BY <1>2, <1>3, <1>4, FiniteConnections
           DEF Connections, ConnectionsCounted, Drops

\* Whatever happens to the requests, the counters and tables of the proxy keep
\* their types, and no request makes more attempts than it may.
THEOREM TypeInvariant == Spec => []TypeOK
<1>1. ASSUME TypeInv, Connections  PROVE TypeOK
  <2>1. \A r \in Requests : job[r].attempted \in 0 .. job[r].max_attempts
    BY <1>1 DEF TypeInv, JobsType, Job
  <2>2. active \in 0 .. Cardinality(Requests)  BY <1>1, ActiveBound
  <2>3. doubt \in [Requests -> BOOLEAN] /\ failover \in BOOLEAN
    BY <1>1, Zenon DEF TypeInv, LedgerType, SettingsType
  <2>4. QED  BY <1>1, <2>1, <2>2, <2>3
             DEF TypeOK, TypeInv, SettingsType, TasksType, JobsType, LedgerType
<1>2. QED  BY <1>1, TypeInit, TypeStep, ConnectionsInit, ConnectionsStep, PTL
           DEF Spec

-----------------------------------------------------------------------------
(* Attempts *)

\* The successes still to be recorded for a request.
Later(r) == {b \in spawned : b.task = "success" /\ b.req = r}

\* One result is owed while a provider is being tried, and one for each task
\* that will record a success; there is such a task only after a success.
Balanced(r) ==
    /\ pc[r] \notin {"stats", "streaming", "over"} => Later(r) = {}
    /\ r \notin gone => owed[r] = Cardinality(Later(r))
                                    + (IF pc[r] \in Trying THEN 1 ELSE 0)

BalancedInv == \A r \in Requests : Balanced(r)

LEMMA FiniteLater ==
    ASSUME TypeInv, NEW r \in Requests
    PROVE  /\ IsFiniteSet(Later(r)) /\ Cardinality(Later(r)) \in Nat
           /\ owed[r] \in Int
<1>1. Later(r) \in SUBSET spawned  BY DEF Later
<1>2. QED  BY <1>1, FS_Subset, FS_CardinalityType DEF TypeInv, TasksType, LedgerType

\* A step of one request.
LEMMA BalancedAlone ==
    ASSUME TypeInv, BalancedInv, NEW r \in Requests, Balanced(r)',
           gone \subseteq gone',
           \A q \in Requests \ {r} : /\ pc'[q] = pc[q] /\ owed'[q] = owed[q]
                                     /\ Later(q)' = Later(q)
    PROVE  BalancedInv'
<1> SUFFICES ASSUME NEW q \in Requests PROVE Balanced(q)'  BY DEF BalancedInv
<1>1. CASE q = r  BY <1>1
<1>2. CASE q # r
  <2>1. pc'[q] = pc[q] /\ owed'[q] = owed[q] /\ Later(q)' = Later(q)
    BY <1>2
  <2>2. Balanced(q)  BY DEF BalancedInv
  <2>3. QED  BY <2>1, <2>2 DEF Balanced
<1>3. QED  BY <1>1, <1>2

\* A move that owes nothing new: on the same side of an attempt, and towards its
\* success only from there.
LEMMA BalancedMove ==
    ASSUME TypeInv, BalancedInv, NEW r \in Requests, NEW from, NEW to,
           Goto(r, from, to), UNCHANGED owed, gone \subseteq gone',
           \A q \in Requests : Later(q)' = Later(q),
           r \in gone' \/ (from \in Trying <=> to \in Trying),
           from \in {"stats", "streaming", "over"} => to \in {"stats", "streaming", "over"}
    PROVE  BalancedInv'
<1>1. pc[r] = from /\ pc'[r] = to /\ \A q \in Requests \ {r} : pc'[q] = pc[q]
  BY DEF Goto, TypeInv, JobsType
<1>2. Balanced(r)  BY DEF BalancedInv
<1>3. Balanced(r)'  BY <1>1, <1>2 DEF Balanced
<1>4. QED  BY <1>1, <1>3, BalancedAlone

\* An attempt without a success is settled.
LEMMA SettledStep ==
    ASSUME TypeInv, BalancedInv, NEW r \in Requests, Settled(r),
           NEW from \in Trying, NEW to \in Label \ Trying, Goto(r, from, to),
           UNCHANGED <<spawned, gone>>
    PROVE  BalancedInv'
<1>1. pc[r] = from /\ pc'[r] = to /\ \A q \in Requests \ {r} : pc'[q] = pc[q]
  BY DEF Goto, TypeInv, JobsType
<1>2. owed'[r] = owed[r] - 1 /\ \A q \in Requests \ {r} : owed'[q] = owed[q]
  BY DEF Settled, TypeInv, LedgerType
<1>3. \A q \in Requests : Later(q)' = Later(q)  BY DEF Later
<1>4. Balanced(r)  BY DEF BalancedInv
<1>5. Later(r) = {}  BY <1>1, <1>4 DEF Balanced, Trying
<1>6. Balanced(r)'
  BY <1>1, <1>2, <1>3, <1>4, <1>5, FiniteLater DEF Balanced
<1>7. QED  BY <1>1, <1>2, <1>3, <1>6, BalancedAlone

LEMMA AdmitStep ==
    ASSUME TypeInv, BalancedInv, NEW r \in Requests, Admit(r)
    PROVE  BalancedInv'
<1>1. Goto(r, "next", "call") /\ owed' = [owed EXCEPT ![r] = @ + 1]
      /\ UNCHANGED <<spawned, gone>>
  BY DEF Admit, background
<1>2. pc[r] = "next" /\ pc'[r] = "call" /\ \A q \in Requests \ {r} : pc'[q] = pc[q]
  BY <1>1 DEF Goto, TypeInv, JobsType
<1>3. owed'[r] = owed[r] + 1 /\ \A q \in Requests \ {r} : owed'[q] = owed[q]
  BY <1>1 DEF TypeInv, LedgerType
<1>4. \A q \in Requests : Later(q)' = Later(q)  BY <1>1 DEF Later
<1>5. Balanced(r)  BY DEF BalancedInv
<1>6. Balanced(r)'
  BY <1>1, <1>2, <1>3, <1>4, <1>5, FiniteLater DEF Balanced, Trying
<1>7. QED  BY <1>1, <1>2, <1>3, <1>4, <1>6, BalancedAlone

LEMMA SuccessStep ==
    ASSUME TypeInv, BalancedInv, NEW r \in Requests, RecordSuccess(r)
    PROVE  BalancedInv'
<1>1. Goto(r, "credit", "stats") /\ UNCHANGED gone  BY DEF RecordSuccess
<1>2. pc[r] = "credit" /\ pc'[r] = "stats" /\ \A q \in Requests \ {r} : pc'[q] = pc[q]
  BY <1>1 DEF Goto, TypeInv, JobsType
<1>3. CASE <<r, Provider(r)>> \in permits
  BY <1>1, <1>3, SettledStep DEF RecordSuccess, Trying, Label
<1>4. CASE <<r, Provider(r)>> \notin permits
  <2> DEFINE d == Task("success", r, Provider(r))
  <2>1. spawned' = spawned \cup {d} /\ UNCHANGED owed  BY <1>4 DEF RecordSuccess
  <2>2. d.task = "success" /\ d.req = r  BY DEF Task
  <2>3. Balanced(r)  BY DEF BalancedInv
  <2>4. Later(r) = {}  BY <1>2, <2>3 DEF Balanced
  <2>5. Later(r)' = {d}  BY <2>1, <2>2, <2>4 DEF Later
  <2>6. Cardinality(Later(r)') = 1 /\ Cardinality(Later(r)) = 0
    BY <2>4, <2>5, FS_Singleton, FS_EmptySet
  <2>7. \A q \in Requests \ {r} : Later(q)' = Later(q)
    BY <2>1, <2>2 DEF Later
  <2>8. Balanced(r)'
    BY <1>1, <1>2, <2>1, <2>3, <2>6 DEF Balanced, Trying
  <2>9. QED  BY <1>1, <1>2, <2>1, <2>7, <2>8, BalancedAlone
<1>5. QED  BY <1>3, <1>4

\* The task records the success.
LEMMA RecordLaterStep ==
    ASSUME TypeInv, BalancedInv, NEW b \in spawned, RecordLater(b)
    PROVE  BalancedInv'
<1> DEFINE r == b.req
<1>1. b \in Background /\ r \in Requests
  BY DEF TypeInv, TasksType, Background
<1>2. spawned' = spawned \ {b} /\ b.task = "success" /\ Settled(r)
      /\ UNCHANGED <<pc, gone>>
  BY DEF RecordLater, Ends
<1>3. owed'[r] = owed[r] - 1 /\ \A q \in Requests \ {r} : owed'[q] = owed[q]
  BY <1>1, <1>2 DEF Settled, TypeInv, LedgerType
<1>4. b \in Later(r) /\ Later(r)' = Later(r) \ {b}  BY <1>2 DEF Later
<1>5. Cardinality(Later(r)') = Cardinality(Later(r)) - 1
  BY <1>1, <1>4, FiniteLater, FS_RemoveElement
<1>6. \A q \in Requests \ {r} : Later(q)' = Later(q)  BY <1>2 DEF Later
<1>7. Balanced(r)  BY <1>1 DEF BalancedInv
<1>8. Balanced(r)'
  BY <1>1, <1>2, <1>3, <1>4, <1>5, <1>7, FiniteLater DEF Balanced
<1>9. QED  BY <1>1, <1>2, <1>3, <1>6, <1>8, BalancedAlone

LEMMA BalancedStep == TypeInv /\ BalancedInv /\ [Next]_vars => BalancedInv'
<1> SUFFICES ASSUME TypeInv, BalancedInv, [Next]_vars PROVE BalancedInv'
  OBVIOUS
<1>1. ASSUME NEW r \in Requests, Finish(r), gone \subseteq gone',
             r \in gone' \/ pc[r] \notin Trying
      PROVE  BalancedInv'
  <2>1. Goto(r, pc[r], "over") /\ UNCHANGED owed  BY <1>1 DEF Finish, Goto
  <2>2. spawned' \in {spawned, spawned \cup {Task("drop", r, "none")}}
    BY <1>1 DEF Finish
  <2>3. Task("drop", r, "none").task = "drop"  BY DEF Task
  <2>4. \A q \in Requests : Later(q)' = Later(q)  BY <2>2, <2>3 DEF Later
  <2>5. QED  BY <1>1, <2>1, <2>4, BalancedMove DEF Trying
<1>2. ASSUME NEW r \in Requests, UNCHANGED <<spawned, owed, gone>>,
             NEW from \in Label \ {"stats", "streaming", "over"}, NEW to \in Label,
             Goto(r, from, to), from \in Trying <=> to \in Trying
      PROVE  BalancedInv'
  <2>1. \A q \in Requests : Later(q)' = Later(q)  BY <1>2 DEF Later
  <2>2. QED  BY <1>2, <2>1, BalancedMove
<1>3. ASSUME NEW r \in Requests, Context(r)  PROVE BalancedInv'
  <2>1. CASE SelectNone(r)  BY <1>1, <2>1 DEF SelectNone, Trying
  <2>2. CASE ~ SelectNone(r)
    <3>1. UNCHANGED <<spawned, owed, gone>>
      BY <1>3, <2>2
      DEF Context, ReadConfig, ReadCurrent, SelectMode, SelectQueue, SelectCurrent,
          background, ledger
    <3>2. \E from, to \in {"idle", "current", "mode", "queue", "single", "guard"} :
             Goto(r, from, to)
      BY <1>3, <2>2
      DEF Context, ReadConfig, ReadCurrent, SelectMode, SelectQueue, SelectCurrent
    <3>3. QED  BY <1>2, <3>1, <3>2 DEF Trying, Label
  <2>3. QED  BY <2>1, <2>2
<1>4. ASSUME NEW r \in Requests, Proxy(r)  PROVE BalancedInv'
  <2>1. CASE AcquireGuard(r) \/ StopTrying(r)
    BY <1>2, <2>1 DEF AcquireGuard, StopTrying, background, ledger, Trying, Label
  <2>2. CASE Refuse(r)
    <3>1. Goto(r, "next", "next") /\ UNCHANGED <<spawned, owed, gone>>
      BY <2>2 DEF Refuse, Goto, TypeInv, JobsType, background
    <3>2. QED  BY <1>2, <3>1 DEF Label
  <2>3. CASE Admit(r)  BY <2>3, AdmitStep
  <2>4. CASE RecordSuccess(r)  BY <2>4, SuccessStep
  <2>5. CASE CountSuccess(r)
    <3>1. spawned' \in {spawned, spawned \cup {Task("switch", r, Provider(r))}}
      BY <2>5 DEF CountSuccess
    <3>2. Task("switch", r, Provider(r)).task = "switch"  BY DEF Task
    <3>3. \A q \in Requests : Later(q)' = Later(q)  BY <3>1, <3>2 DEF Later
    <3>4. QED  BY <2>5, <3>3, BalancedMove DEF CountSuccess, ledger, Trying
  <2>6. CASE RecordFailure(r)
    BY <2>6, SettledStep DEF RecordFailure, background, Trying, Label
  <2>7. CASE ReleaseNeutral(r)
    BY <2>7, SettledStep DEF ReleaseNeutral, background, Trying, Label
  <2>8. CASE CountFailure(r)  BY <1>1, <2>8 DEF CountFailure, Trying
  <2>9. QED  BY <1>4, <2>1, <2>2, <2>3, <2>4, <2>5, <2>6, <2>7, <2>8 DEF Proxy
<1>5. ASSUME NEW r \in Requests, Upstream(r)  PROVE BalancedInv'
  <2>1. UNCHANGED <<spawned, owed, gone>>
    BY <1>5 DEF Upstream, Answer, FirstError, RepairedError, background, ledger
  <2>2. \E from, to \in Trying : Goto(r, from, to)
    BY <1>5 DEF Upstream, Answer, FirstError, RepairedError, Trying
  <2>3. QED  BY <1>2, <2>1, <2>2 DEF Trying, Label
<1>6. ASSUME NEW r \in Requests, StreamEnd(r) \/ Disconnect(r)
      PROVE  BalancedInv'
  <2>1. CASE StreamEnd(r)  BY <1>1, <2>1 DEF StreamEnd, Trying
  <2>2. CASE Disconnect(r)  BY <1>1, <2>2 DEF Disconnect
  <2>3. QED  BY <1>6, <2>1, <2>2
<1>7. ASSUME UNCHANGED <<pc, owed, gone>>, \A q \in Requests : Later(q)' = Later(q)
      PROVE  BalancedInv'
  <2>1. SUFFICES ASSUME NEW q \in Requests PROVE Balanced(q)'  BY DEF BalancedInv
  <2>2. Balanced(q) /\ Later(q)' = Later(q)  BY <1>7 DEF BalancedInv
  <2>3. QED  BY <1>7, <2>2 DEF Balanced
<1>8. ASSUME NEW b \in spawned, Run(b)  PROVE BalancedInv'
  <2>1. CASE RecordLater(b)  BY <2>1, RecordLaterStep
  <2>2. CASE ~ RecordLater(b)
    <3>1. UNCHANGED <<pc, owed, gone>> /\ b.task # "success"
      BY <1>8, <2>2
      DEF Run, Disconnected, TrySwitch, CheckEnabled, ApplySwitch, ClearPending, ledger
    <3>2. Ends(b) \/ \E kind \in Switching : Becomes(b, kind)
      BY <1>8, <2>2
      DEF Run, Disconnected, TrySwitch, CheckEnabled, ApplySwitch, ClearPending,
          Switching
    <3>3. \A kind \in Switching : [b EXCEPT !.task = kind].task # "success"
      BY DEF Switching, TypeInv, TasksType, Background
    <3>4. \A q \in Requests : Later(q)' = Later(q)
      BY <3>1, <3>2, <3>3 DEF Later, Ends, Becomes
    <3>5. QED  BY <1>7, <3>1, <3>4
  <2>3. QED  BY <2>1, <2>2
<1>9. CASE User \/ UNCHANGED vars
  <2>1. UNCHANGED <<pc, owed, gone, spawned>>
    BY <1>9 DEF User, Choose, ToggleFailover, background, ledger, vars
  <2>2. \A q \in Requests : Later(q)' = Later(q)  BY <2>1 DEF Later
  <2>3. QED  BY <1>7, <2>1, <2>2
<1>10. QED  BY <1>3, <1>4, <1>5, <1>6, <1>8, <1>9 DEF Next

LEMMA BalancedInit == Init => BalancedInv
<1> SUFFICES ASSUME Init, NEW r \in Requests PROVE Balanced(r)  BY DEF BalancedInv
<1>1. Later(r) = {}  BY DEF Init, Later
<1>2. QED  BY <1>1, FS_EmptySet DEF Init, Balanced, Trying

\* Through every failover, repair and disconnect, each attempt of a request has
\* one result recorded or waived, and no attempt has two.
THEOREM SettledOnce == Spec => []AttemptsSettledOnce
<1>1. ASSUME TypeInv, BalancedInv  PROVE AttemptsSettledOnce
  <2>1. SUFFICES ASSUME NEW r \in Requests, pc[r] \notin Trying /\ r \notin gone
                 PROVE  owed[r] = Cardinality(Later(r))
    BY DEF AttemptsSettledOnce, Later
  <2>2. Balanced(r)  BY <1>1 DEF BalancedInv
  <2>3. QED  BY <1>1, <2>1, <2>2, FiniteLater DEF Balanced
<1>2. QED  BY <1>1, TypeInit, TypeStep, BalancedInit, BalancedStep, PTL DEF Spec
=============================================================================
