----------------------------- MODULE Forwarder -----------------------------
(***************************************************************************)
(* The failover of the cc-switch local proxy: what happens to a client's   *)
(* request from the moment its context is read until its answer, and every *)
(* task it leaves behind, have ended                                       *)
(* (cc-switch/src-tauri/src/proxy/{handler_context,forwarder,              *)
(* provider_router,failover_switch}.rs).                                   *)
(*                                                                         *)
(* A step is the code between two awaits.  The breaker of a provider is    *)
(* seen from outside: it may refuse a request, let it through, or let it   *)
(* through with a half-open permit that must be given back (the module     *)
(* CircuitBreaker says when it does which).  An upstream's answer is a     *)
(* success or an error, and an error is what the forwarder looks at: its   *)
(* kind, and whether each of the three repairs (replacing images, removing *)
(* thinking signatures, raising the thinking budget) applies to it.        *)
(*                                                                         *)
(* The user changes the settings, and a client disconnects, at any time;   *)
(* a disconnect drops the handler's future where it stands.                *)
(***************************************************************************)
EXTENDS Integers, Sequences, FiniteSets, SequencesExt

CONSTANTS
    Requests,   \* the requests that arrive
    Providers,
    Queue,      \* the failover queue, first choice first
    Anthropic,  \* the providers whose requests may have their thinking repaired
    MaxRetries, \* app_config.max_retries
    Errors      \* what an upstream may answer

Kind == {"timeout",         \* Timeout, ForwardFailed
         "setup",           \* ConfigError, TransformError, AuthError
         "server",          \* a 5xx status but 501
         "not_implemented", \* 501
         "denied",          \* 401, 403, 404, 408, 409, 429, 451...
         "rejected",        \* 400, 405, 406, 413, 414, 415, 422
         "internal"}        \* the proxy's own errors
\* A repair is not called for, changes the body, or finds nothing to change.
Repair == {"none", "works", "useless"}
Error == [kind : Kind, image : BOOLEAN, signature : Repair, budget : Repair]

ASSUME RequestsAssumption == IsFiniteSet(Requests) /\ IsFiniteSet(Providers)
ASSUME QueueAssumption == Queue \in Seq(Providers) /\ IsInjective(Queue)
ASSUME AnthropicAssumption == Anthropic \subseteq Providers
ASSUME MaxRetriesAssumption == MaxRetries \in Nat
\* Only some client errors are recognised as a refusal of images.
ASSUME ErrorsAssumption ==
    Errors \subseteq {e \in Error : e.image => e.kind \in {"rejected", "not_implemented"}}

Label == {"idle", "current", "mode", "queue", "single", "guard", "next",
          "call", "retry", "credit", "stats", "blame", "neutral", "fail",
          "streaming", "over"}
\* Where a provider is being tried.
Trying == {"call", "retry", "credit", "blame", "neutral"}
\* Where the connection guard is held.
Connected == Trying \cup {"next", "stats", "fail", "streaming"}
Switching == {"check", "apply", "clear"}
Background == [task : {"drop", "success", "switch"} \cup Switching,
               req : Requests, provider : Providers \cup {"none"}]

VARIABLES
    failover,   \* app_config.auto_failover_enabled, in the database
    current,    \* the current provider, in the settings
    active,     \* status.active_connections
    pending,    \* FailoverSwitchManager.pending_switches
    spawned,    \* the background tasks that have not ended
    pc,         \* where each request is
    job,        \* the local variables of each request
    permits,    \* <<r, p>>: a half-open permit of p is out for r
    verdict,    \* (history) the kind of the last error of the provider being
                \* tried, or "none"
    doubt,      \* (history) that error called for a repair, useful or not
    owed,       \* (history) attempts whose result is neither recorded nor waived
    gone        \* (history) requests whose client disconnected

settings == <<failover, current>>
background == <<active, pending, spawned>>
ledger == <<permits, verdict, doubt, owed, gone>>
vars == <<settings, background, pc, job, ledger>>

NoJob == [timed |-> FALSE, max_attempts |-> 0, current |-> "none",
          providers |-> <<>>, index |-> 1, attempted |-> 0]

Init ==
    /\ failover \in BOOLEAN
    /\ current \in Providers
    /\ active = 0
    /\ pending = {}
    /\ spawned = {}
    /\ pc = [r \in Requests |-> "idle"]
    /\ job = [r \in Requests |-> NoJob]
    /\ permits = {}
    /\ verdict = [r \in Requests |-> "none"]
    /\ doubt = [r \in Requests |-> FALSE]
    /\ owed = [r \in Requests |-> 0]
    /\ gone = {}

-----------------------------------------------------------------------------
(* Helpers *)

Goto(r, from, to) == pc[r] = from /\ pc' = [pc EXCEPT ![r] = to]
Set(r, field, value) == job' = [job EXCEPT ![r][field] = value]

Provider(r) == job[r].providers[job[r].index]
MorePlaces(r) == job[r].index <= Len(job[r].providers)

\* p comes before q in the failover queue.
Before(p, q) == \E i, j \in DOMAIN Queue : i < j /\ Queue[i] = p /\ Queue[j] = q

\* What is left of the queue when the breakers have been asked.
Selections ==
    {list \in UNION {[1 .. n -> ToSet(Queue)] : n \in 1 .. Len(Queue)} :
        \A i, j \in DOMAIN list : i < j => Before(list[i], list[j])}

\* categorize_proxy_error
Retryable(kind) == kind \in {"timeout", "setup", "server", "denied"}

\* handle_rectifier_retry_failure: whose fault the error of a repaired
\* request is.
ProviderAtFault(kind) == kind \in {"timeout", "server", "not_implemented"}

\* The error starts one of the three repairs: it is sent again, repaired.
Repairs(p, e) ==
    \/ e.image
    \/ p \in Anthropic /\ (e.signature = "works" \/ e.budget = "works")

CallsForRepair(p, e) ==
    \/ e.image
    \/ p \in Anthropic /\ (e.signature # "none" \/ e.budget # "none")

\* MUTANT of TurnsAway: every 4xx status is the client's error.
TurnsAwayAnyStatus(p, e) == ~ Repairs(p, e) /\ ~ (e.kind \in {"timeout", "setup", "server"})

\* The error is the client's: no other provider is asked.
TurnsAway(p, e) ==
    /\ ~ Repairs(p, e)
    /\ \/ p \in Anthropic /\ (e.signature = "useless" \/ e.budget = "useless")
       \/ ~ Retryable(e.kind)

Task(kind, r, p) == [task |-> kind, req |-> r, provider |-> p]
Becomes(b, kind) == spawned' = (spawned \ {b}) \cup {[b EXCEPT !.task = kind]}
Ends(b) == spawned' = spawned \ {b}

ByCategory(p, e) == ~ Repairs(p, e) /\ ~ TurnsAway(p, e)

\* The requests that hold a connection guard.
Guarded == {r \in Requests : pc[r] \in Connected}

\* MUTANT of Finish: the guard did not go along with the streamed body.
FinishUnguarded(r) ==
    /\ pc' = [pc EXCEPT ![r] = "over"]
    /\ job' = [job EXCEPT ![r] = NoJob]
    /\ verdict' = [verdict EXCEPT ![r] = "none"]
    /\ doubt' = [doubt EXCEPT ![r] = FALSE]
    /\ spawned' = IF pc[r] = "streaming" THEN spawned
                  ELSE spawned \cup {Task("drop", x, "none") : x \in {r} \cap Guarded}
    /\ UNCHANGED <<settings, active, pending, permits, owed>>

\* The future and its locals are gone.  Dropping the guard only schedules the
\* decrement.
Finish(r) ==
    /\ pc' = [pc EXCEPT ![r] = "over"]
    /\ job' = [job EXCEPT ![r] = NoJob]
    /\ verdict' = [verdict EXCEPT ![r] = "none"]
    /\ doubt' = [doubt EXCEPT ![r] = FALSE]
    /\ spawned' = spawned \cup {Task("drop", x, "none") : x \in {r} \cap Guarded}
    /\ UNCHANGED <<settings, active, pending, permits, owed>>

-----------------------------------------------------------------------------
(* RequestContext::new and select_providers *)

\* create_forwarder: with failover off there is no time limit and no retry.
ReadConfig(r) ==
    /\ Goto(r, "idle", "current")
    /\ job' = [job EXCEPT
               ![r].timed = failover,
               ![r].max_attempts = IF failover THEN MaxRetries + 1 ELSE 1]
    /\ UNCHANGED <<settings, background, ledger>>

ReadCurrent(r) ==
    /\ Goto(r, "current", "mode")
    /\ Set(r, "current", current)
    /\ UNCHANGED <<settings, background, ledger>>

\* select_providers reads the configuration again.
SelectMode(r) ==
    /\ Goto(r, "mode", IF failover THEN "queue" ELSE "single")
    /\ UNCHANGED <<settings, background, job, ledger>>

\* The providers of the queue whose breakers say is_available, in order.
SelectQueue(r) ==
    /\ \E list \in Selections : Set(r, "providers", list)
    /\ Goto(r, "queue", "guard")
    /\ UNCHANGED <<settings, background, ledger>>

\* All breakers are open, or the queue is empty: no forwarder is created.
SelectNone(r) == pc[r] = "queue" /\ Finish(r) /\ UNCHANGED gone

SelectCurrent(r) ==
    /\ Goto(r, "single", "guard")
    /\ Set(r, "providers", <<current>>)
    /\ UNCHANGED <<settings, background, ledger>>

-----------------------------------------------------------------------------
(* forward_with_retry *)

AcquireGuard(r) ==
    /\ Goto(r, "guard", "next")
    /\ active' = active + 1
    /\ UNCHANGED <<settings, pending, spawned, job, ledger>>

\* MUTANT of AttemptsLeft: one attempt too many.
AttemptsLeftOneMore(r) == job[r].attempted <= job[r].max_attempts

AttemptsLeft(r) == job[r].attempted < job[r].max_attempts

\* MUTANT of StopTrying: only the limit on attempts ends the loop.
StopTryingAtLimit(r) ==
    /\ ~ AttemptsLeft(r)
    /\ Goto(r, "next", "fail")
    /\ UNCHANGED <<settings, background, job, ledger>>

\* No provider is left, or no attempt.
StopTrying(r) ==
    /\ ~ (MorePlaces(r) /\ AttemptsLeft(r))
    /\ Goto(r, "next", "fail")
    /\ UNCHANGED <<settings, background, job, ledger>>

\* On to the next place: the flags of the repairs are the provider's own.
Advance(r) ==
    /\ Set(r, "index", job[r].index + 1)
    /\ verdict' = [verdict EXCEPT ![r] = "none"]
    /\ doubt' = [doubt EXCEPT ![r] = FALSE]

\* A sole provider is not asked for a permit.
Bypass(r) == Len(job[r].providers) = 1

Refuse(r) ==
    /\ pc[r] = "next" /\ MorePlaces(r) /\ AttemptsLeft(r) /\ ~ Bypass(r)
    /\ Advance(r)
    /\ UNCHANGED <<settings, background, pc, permits, owed, gone>>

Admit(r) ==
    /\ MorePlaces(r) /\ AttemptsLeft(r)
    /\ Goto(r, "next", "call")
    /\ Set(r, "attempted", job[r].attempted + 1)
    /\ \/ UNCHANGED permits
       \/ ~ Bypass(r) /\ permits' = permits \cup {<<r, Provider(r)>>}
    /\ owed' = [owed EXCEPT ![r] = @ + 1]
    /\ UNCHANGED <<settings, background, verdict, doubt, gone>>

\* The first call, or the call with a repaired body, succeeds.
Answer(r) ==
    /\ \E from \in {"call", "retry"} : Goto(r, from, "credit")
    /\ UNCHANGED <<settings, background, job, ledger>>

FirstError(r) ==
    /\ pc[r] = "call"
    /\ \E e \in Errors :
         /\ verdict' = [verdict EXCEPT ![r] = e.kind]
         /\ doubt' = [doubt EXCEPT ![r] = CallsForRepair(Provider(r), e)]
         /\ \/ Repairs(Provider(r), e) /\ Goto(r, "call", "retry")
            \/ TurnsAway(Provider(r), e) /\ Goto(r, "call", "neutral")
            \/ ByCategory(Provider(r), e) /\ Goto(r, "call", "blame")
    /\ UNCHANGED <<settings, background, job, permits, owed, gone>>

RepairedError(r) ==
    /\ pc[r] = "retry"
    /\ \E e \in Errors :
         /\ verdict' = [verdict EXCEPT ![r] = e.kind]
         /\ Goto(r, "retry", IF ProviderAtFault(e.kind) THEN "blame" ELSE "neutral")
    /\ UNCHANGED <<settings, background, job, permits, doubt, owed, gone>>

GiveBack(r) == permits' = permits \ {<<r, Provider(r)>>}
Settled(r) == owed' = [owed EXCEPT ![r] = @ - 1]

\* MUTANT of RecordSuccess: the task records the success a second time.
RecordSuccessTwice(r) ==
    /\ Goto(r, "credit", "stats")
    /\ spawned' = spawned \cup {Task("success", r, Provider(r))}
    /\ \/ <<r, Provider(r)>> \in permits /\ GiveBack(r) /\ Settled(r)
       \/ <<r, Provider(r)>> \notin permits /\ UNCHANGED <<permits, owed>>
    /\ UNCHANGED <<settings, active, pending, job, verdict, doubt, gone>>

\* record_success_result: with a permit the result is recorded before the
\* answer goes on, without one by a task of its own.
RecordSuccess(r) ==
    /\ Goto(r, "credit", "stats")
    /\ \/ /\ <<r, Provider(r)>> \in permits
          /\ GiveBack(r) /\ Settled(r)
          /\ UNCHANGED spawned
       \/ /\ <<r, Provider(r)>> \notin permits
          /\ spawned' = spawned \cup {Task("success", r, Provider(r))}
          /\ UNCHANGED <<permits, owed>>
    /\ UNCHANGED <<settings, active, pending, job, verdict, doubt, gone>>

\* The switch is left to a task when the provider that answered is not the
\* one that was current when the request came in.
CountSuccess(r) ==
    /\ Goto(r, "stats", "streaming")
    /\ spawned' = spawned \cup {Task("switch", r, p) : p \in {Provider(r)} \ {job[r].current}}
    /\ UNCHANGED <<settings, active, pending, job, ledger>>

\* The body has been sent: the connection guard moved into it is dropped.
StreamEnd(r) == pc[r] = "streaming" /\ Finish(r) /\ UNCHANGED gone

\* The breaker learns of the failure; the next provider is tried.
RecordFailure(r) ==
    /\ Goto(r, "blame", "next")
    /\ GiveBack(r) /\ Settled(r) /\ Advance(r)
    /\ UNCHANGED <<settings, background, gone>>

\* MUTANT of ReleaseNeutral: the permit is not given back.
ReleaseNeutralForgets(r) ==
    /\ Goto(r, "neutral", "fail")
    /\ Settled(r)
    /\ UNCHANGED <<settings, background, job, permits, verdict, doubt, gone>>

\* release_permit_neutral: the breaker learns nothing.
ReleaseNeutral(r) ==
    /\ Goto(r, "neutral", "fail")
    /\ GiveBack(r) /\ Settled(r)
    /\ UNCHANGED <<settings, background, job, verdict, doubt, gone>>

CountFailure(r) == pc[r] = "fail" /\ Finish(r) /\ UNCHANGED gone

\* The client goes away and the future is dropped where it stands: nothing
\* gives the permit back, only the guard knows what to do.
Disconnect(r) ==
    /\ pc[r] \notin {"idle", "over"}
    /\ Finish(r)
    /\ gone' = gone \cup {r}

-----------------------------------------------------------------------------
(* The background tasks *)

\* The decrement scheduled by the guard.
Disconnected(b) ==
    /\ b.task = "drop" /\ Ends(b)
    /\ active' = active - 1
    /\ UNCHANGED <<settings, pending, pc, job, ledger>>

RecordLater(b) ==
    /\ b.task = "success" /\ Ends(b)
    /\ Settled(b.req)
    /\ UNCHANGED <<settings, active, pending, pc, job, permits, verdict,
                   doubt, gone>>

\* MUTANT of TrySwitch: the switches in progress are not looked at.
TrySwitchAgain(b) ==
    /\ b.task = "switch"
    /\ Becomes(b, "check")
    /\ pending' = pending \cup {b.provider}
    /\ UNCHANGED <<settings, active, pc, job, ledger>>

\* try_switch: the same switch is not started twice.
TrySwitch(b) ==
    /\ b.task = "switch"
    /\ IF b.provider \in pending
       THEN Ends(b) /\ UNCHANGED pending
       ELSE Becomes(b, "check") /\ pending' = pending \cup {b.provider}
    /\ UNCHANGED <<settings, active, pc, job, ledger>>

\* do_switch: only an app that is taken over, which the user may change at any
\* time, is switched.
CheckEnabled(b) ==
    /\ b.task = "check"
    /\ \E next \in {"apply", "clear"} : Becomes(b, next)
    /\ UNCHANGED <<settings, active, pending, pc, job, ledger>>

\* hot_switch_provider, whose own steps are in the module Takeover.
ApplySwitch(b) ==
    /\ b.task = "apply" /\ Becomes(b, "clear")
    /\ current' \in {current, b.provider}  \* it may fail
    /\ UNCHANGED <<failover, active, pending, pc, job, ledger>>

ClearPending(b) ==
    /\ b.task = "clear" /\ Ends(b)
    /\ pending' = pending \ {b.provider}
    /\ UNCHANGED <<settings, active, pc, job, ledger>>

-----------------------------------------------------------------------------
(* The user *)

Choose(p) ==
    /\ current' = p
    /\ UNCHANGED <<failover, background, pc, job, ledger>>

ToggleFailover ==
    /\ failover' = ~ failover
    /\ UNCHANGED <<current, background, pc, job, ledger>>

-----------------------------------------------------------------------------
(* Specification *)

Context(r) == ReadConfig(r) \/ ReadCurrent(r) \/ SelectMode(r) \/ SelectQueue(r)
                \/ SelectNone(r) \/ SelectCurrent(r)
Upstream(r) == Answer(r) \/ FirstError(r) \/ RepairedError(r)
Proxy(r) == AcquireGuard(r) \/ StopTrying(r) \/ Refuse(r) \/ Admit(r)
              \/ RecordSuccess(r) \/ CountSuccess(r)
              \/ RecordFailure(r) \/ ReleaseNeutral(r) \/ CountFailure(r)
Run(b) == Disconnected(b) \/ RecordLater(b) \/ TrySwitch(b) \/ CheckEnabled(b)
            \/ ApplySwitch(b) \/ ClearPending(b)
User == (\E p \in Providers : Choose(p)) \/ ToggleFailover

Next ==
    \/ \E r \in Requests : Context(r) \/ Proxy(r) \/ Upstream(r)
                            \/ StreamEnd(r) \/ Disconnect(r)
    \/ \E b \in spawned : Run(b)
    \/ User

Spec == Init /\ [][Next]_vars

\* The executor runs what can run.  An upstream's answer and the end of its
\* body are waited for without limit, unless failover was on when the
\* configuration was read: then a time limit ends every silence (and no body
\* goes on for ever).
Timed(r) == job[r].timed /\ (Upstream(r) \/ StreamEnd(r))
Fairness ==
    /\ \A r \in Requests : WF_vars((pc[r] # "idle" /\ Context(r)) \/ Proxy(r))
                             /\ WF_vars(Timed(r))
    /\ \A b \in Background : WF_vars(b \in spawned /\ Run(b))
FairSpec == Spec /\ Fairness

-----------------------------------------------------------------------------
(* Properties *)

TypeOK ==
    /\ failover \in BOOLEAN
    /\ current \in Providers
    /\ active \in 0..Cardinality(Requests)
    /\ pending \subseteq Providers
    /\ spawned \subseteq Background
    /\ pc \in [Requests -> Label]
    /\ \A r \in Requests : job[r].attempted \in 0..job[r].max_attempts
    /\ permits \subseteq Requests \X Providers
    /\ verdict \in [Requests -> Kind \cup {"none"}]
    /\ doubt \in [Requests -> BOOLEAN]
    /\ gone \subseteq Requests

\* A half-open permit is out only while its provider is being tried, so every
\* way out of an attempt has given it back, or the client disconnected
\* (provider_router.rs:124-131 demands it of every caller; a disconnect is the
\* exception, and keeps its provider's breaker half-open).
PermitsReturned ==
    \A r \in Requests, p \in Providers : <<r, p>> \in permits =>
        r \in gone \/ (pc[r] \in Trying /\ p = Provider(r))

\* Between two attempts, and after the last, every attempt made has had exactly
\* one result recorded for it or waived, or its success is about to be recorded
\* by the task spawned for it (forwarder.rs:224-320).
AttemptsSettledOnce ==
    \A r \in Requests : pc[r] \notin Trying /\ r \notin gone =>
        owed[r] = Cardinality({b \in spawned : b.task = "success" /\ b.req = r})

\* A request fails with a candidate and an attempt left only because the last
\* error was the client's, or had called for a repair; never on an error that
\* another provider might not give (categorize_proxy_error).
OnlyClientErrorsStopFailover ==
    \A r \in Requests : pc[r] = "fail" =>
        \/ ~ MorePlaces(r)
        \/ job[r].attempted = job[r].max_attempts
        \/ verdict[r] # "none" /\ (~ Retryable(verdict[r]) \/ doubt[r])

\* A provider's breaker is told of a failure only for an error of the
\* retryable category, except that a 501 to a repaired request also counts.
ClientErrorsSpareTheBreaker ==
    \A r \in Requests : pc[r] = "blame" =>
        Retryable(verdict[r]) \/ (doubt[r] /\ verdict[r] = "not_implemented")

\* The connections shown are the guards that exist and those whose decrement is
\* still to run, whatever path a request took out of the forwarder and wherever
\* its client left it (ActiveConnectionGuard).
ConnectionsCounted ==
    active = Cardinality(Guarded) + Cardinality({b \in spawned : b.task = "drop"})

\* pending_switches holds exactly the providers being switched to, and no
\* provider is being switched to twice at a time (failover_switch.rs:45-72).
SwitchesNotDoubled ==
    /\ pending = {b.provider : b \in {c \in spawned : c.task \in Switching}}
    /\ \A b, c \in spawned :
         b.task \in Switching /\ c.task \in Switching /\ b.provider = c.provider => b = c

\* A request that came in while failover was on is answered or given up, and
\* its connection is no longer counted.
FailoverRequestsSettle ==
    \A r \in Requests : pc[r] = "guard" /\ job[r].timed ~>
        pc[r] = "over" /\ Task("drop", r, "none") \notin spawned
=============================================================================
