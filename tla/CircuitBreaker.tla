--------------------------- MODULE CircuitBreaker ---------------------------
(***************************************************************************)
(* The circuit breaker of one provider of the cc-switch local proxy        *)
(* (cc-switch/src-tauri/src/proxy/circuit_breaker.rs), driven by the       *)
(* requests of the forwarder through the provider router.                  *)
(*                                                                         *)
(* The proxy runs on a multi-threaded executor: every await of a lock and  *)
(* every operation on an atomic is a point where another request may run.  *)
(* An action below is one such section of the code.  The counters one      *)
(* record_success or record_failure updates back to back are updated       *)
(* together; the half-open permit counter, the state and the time stamp of *)
(* the last opening are each read and written in steps of their own.       *)
(*                                                                         *)
(* A request follows the code's order of calls: is_available while the     *)
(* candidate list is built, then allow_request when its turn comes, the    *)
(* upstream call, and one of record_success, record_failure and            *)
(* release_half_open_permit.  All of it runs in the future of the request, *)
(* which is dropped at whatever await it has reached when the client goes  *)
(* away; only the success of a request without a permit is recorded by a   *)
(* task of its own, which nobody drops.                                    *)
(*                                                                         *)
(* Time is what the code compares: last_opened_at is "none", "recent" or   *)
(* "elapsed", the last one once timeout_seconds have gone by.              *)
(***************************************************************************)
EXTENDS Integers, FiniteSets

CONSTANTS
    Tasks,      \* requests in progress at the same time
    Bypassing,  \* those that may be sent without asking the breaker
    Disconnecting, \* those whose client may go away
    Admins,     \* callers of the manual reset command
    Configs,    \* the configurations the user may set
    Word        \* the modulus of an AtomicU32 (2^32 in the program)

Config == [failure_threshold : Nat, success_threshold : Nat, timeout : Nat,
           rate_num : Nat, rate_den : Nat, min_requests : Nat]

ASSUME TasksAssumption == IsFiniteSet(Tasks) /\ Admins \cap Tasks = {}
ASSUME BypassingAssumption == Bypassing \subseteq Tasks
ASSUME DisconnectingAssumption == Disconnecting \subseteq Tasks
ASSUME ConfigsAssumption == Configs \subseteq Config /\ Configs # {}
\* Fewer requests than an AtomicU32 can count.
ASSUME WordAssumption == Word \in Nat /\ Cardinality(Tasks) + 1 < Word

CircuitState == {"closed", "open", "half_open"}
Label == {"idle", "select_elapsed", "select_half_open", "admit",
          "allow_elapsed", "allow_half_open", "allow_reread", "probe_add",
          "probe_sub", "inflight", "success_release", "success_count",
          "probe_count", "probe_close", "close_state", "close_counts",
          "failure_release", "failure_count", "open_state", "open_stamp",
          "open_counts"}

\* The labels at which the future of the request awaits a lock, the database or
\* the upstream.  From any other label the code runs on to the next of these
\* without giving up the thread, or runs in a task that is not the request's.
Awaiting == {"select_elapsed", "select_half_open", "admit", "allow_elapsed",
             "allow_half_open", "allow_reread", "inflight", "success_release",
             "probe_close", "failure_release", "open_state", "open_stamp"}

VARIABLES
    state,                  \* RwLock<CircuitState>
    consecutive_failures,
    consecutive_successes,
    total_requests,
    failed_requests,
    last_opened_at,         \* RwLock<Option<Instant>>, as compared
    half_open_requests,     \* permits given out, as the code counts them
    config,                 \* RwLock<CircuitBreakerConfig>
    pc,                     \* where each task, and each reset command, is
    seen,                   \* the local copy of state in record_*, "closed"
                            \* while there is none
    permit,                 \* used_half_open_permit of each task
    unstamped,              \* (history) the request of an opening was dropped
                            \* before its stamp, and nothing was stamped yet
    leaked,                 \* (history) permits dropped with their future
                            \* since the counter was last zeroed
    overlap                 \* (history) the counter was last zeroed while
                            \* some task held, or was handing back, a permit

counts == <<consecutive_failures, consecutive_successes, total_requests,
            failed_requests>>
stamp == <<last_opened_at, unstamped>>
permits == <<half_open_requests, permit, leaked, overlap>>
vars == <<state, counts, stamp, permits, config, pc, seen>>

Holders == {t \in Tasks : permit[t]}
Subtracting == {t \in Tasks : pc[t] = "probe_sub"}

Init ==
    /\ state = "closed"
    /\ consecutive_failures = 0
    /\ consecutive_successes = 0
    /\ total_requests = 0
    /\ failed_requests = 0
    /\ last_opened_at = "none"
    /\ unstamped = FALSE
    /\ half_open_requests = 0
    /\ config \in Configs
    /\ pc = [p \in Tasks \cup Admins |-> "idle"]
    /\ seen = [t \in Tasks |-> "closed"]
    /\ permit = [t \in Tasks |-> FALSE]
    /\ leaked = 0
    /\ overlap = FALSE

-----------------------------------------------------------------------------
(* Helpers *)

Goto(p, from, to) == pc[p] = from /\ pc' = [pc EXCEPT ![p] = to]

\* A step that only decides where the task goes next.
Move(t, from, to) ==
    /\ Goto(t, from, to)
    /\ UNCHANGED <<state, counts, stamp, permits, config, seen>>

\* MUTANT of Decr: a counter that goes below zero.
DecrBelowZero(n) == n - 1

\* fetch_add(1) and fetch_sub(1) on an AtomicU32 wrap.
Incr(n) == (n + 1) % Word
Decr(n) == (n - 1) % Word

\* release_half_open_permit: a compare-exchange loop that stops at zero.
Released(n) == IF n = 0 THEN 0 ELSE n - 1

\* failed / total as floats: 0/0 is NaN and reaches nothing, n/0 is infinite.
ErrorRateReached(total, failed) ==
    /\ total >= config.min_requests
    /\ total # 0 \/ failed # 0
    /\ failed * config.rate_den >= config.rate_num * total

TripsBreaker(failures, total, failed) ==
    \/ failures >= config.failure_threshold
    \/ ErrorRateReached(total, failed)

\* MUTANT of TransitionToHalfOpen: the state is not checked again under the lock.
TransitionUnchecked ==
    /\ state' = "half_open"
    /\ consecutive_successes' = 0
    /\ half_open_requests' = 0
    /\ leaked' = 0
    /\ overlap' = (Holders \cup Subtracting # {})
    /\ UNCHANGED <<consecutive_failures, total_requests, failed_requests, permit>>

\* transition_to_half_open, all of it under the write lock of state: only an
\* open breaker becomes half-open, and the permit counter starts again at zero.
TransitionToHalfOpen ==
    IF state # "open"
    THEN UNCHANGED <<state, counts, permits>>
    ELSE /\ state' = "half_open"
         /\ consecutive_successes' = 0
         /\ half_open_requests' = 0
         /\ leaked' = 0
         /\ overlap' = (Holders \cup Subtracting # {})
         /\ UNCHANGED <<consecutive_failures, total_requests, failed_requests,
                        permit>>

-----------------------------------------------------------------------------
(* is_available: called for every provider of the queue by                  *)
(* ProviderRouter::select_providers.                                        *)

SelectRead(t) ==
    Move(t, "idle", IF state = "open" THEN "select_elapsed" ELSE "admit")

\* MUTANT of SelectElapsed: only allow_request looks at the clock.
SelectElapsedNever(t) ==
    Move(t, "select_elapsed", "idle")

\* An open breaker whose time is not up leaves the provider out of the list.
SelectElapsed(t) ==
    Move(t, "select_elapsed",
        IF last_opened_at = "elapsed" THEN "select_half_open" ELSE "idle")

SelectHalfOpen(t) ==
    /\ Goto(t, "select_half_open", "admit")
    /\ TransitionToHalfOpen
    /\ UNCHANGED <<stamp, config, seen>>

\* The forwarder was served by an earlier provider, or ran out of attempts.
NotNeeded(t) == Move(t, "admit", "idle")

\* The breaker is not asked when failover is off (the current provider is used,
\* whatever its state) nor when the list holds this provider alone; the result
\* is recorded all the same.
Bypass(t) ==
    /\ t \in Bypassing
    /\ Move(t, "idle", "inflight") \/ Move(t, "admit", "inflight")

-----------------------------------------------------------------------------
(* allow_request: called by the forwarder right before it sends.            *)

AllowRead(t) ==
    Move(t, "admit", CASE state = "closed" -> "inflight"
                      [] state = "half_open" -> "probe_add"
                      [] state = "open" -> "allow_elapsed")

AllowElapsed(t) ==
    Move(t, "allow_elapsed",
        IF last_opened_at = "elapsed" THEN "allow_half_open" ELSE "idle")

AllowHalfOpen(t) ==
    /\ Goto(t, "allow_half_open", "allow_reread")
    /\ TransitionToHalfOpen
    /\ UNCHANGED <<stamp, config, seen>>

AllowReread(t) ==
    Move(t, "allow_reread", CASE state = "closed" -> "inflight"
                             [] state = "half_open" -> "probe_add"
                             [] state = "open" -> "idle")

\* MUTANT of ProbeAdd: <= for <, one request too many.
ProbeAddOneMore(t) ==
    /\ half_open_requests' = Incr(half_open_requests)
    /\ IF half_open_requests <= 1
       THEN /\ Goto(t, "probe_add", "inflight")
            /\ permit' = [permit EXCEPT ![t] = TRUE]
       ELSE /\ Goto(t, "probe_add", "probe_sub")
            /\ UNCHANGED permit
    /\ UNCHANGED <<state, counts, stamp, leaked, overlap, config, seen>>

\* allow_half_open_probe, first half: count this request, admit it if it is the
\* first (max_half_open_requests = 1).
ProbeAdd(t) ==
    /\ half_open_requests' = Incr(half_open_requests)
    /\ IF half_open_requests < 1
       THEN /\ Goto(t, "probe_add", "inflight")
            /\ permit' = [permit EXCEPT ![t] = TRUE]
       ELSE /\ Goto(t, "probe_add", "probe_sub")
            /\ UNCHANGED permit
    /\ UNCHANGED <<state, counts, stamp, leaked, overlap, config, seen>>

\* Second half: a request over the limit takes its count back and is refused.
ProbeSub(t) ==
    /\ Goto(t, "probe_sub", "idle")
    /\ half_open_requests' = Decr(half_open_requests)
    /\ UNCHANGED <<state, counts, stamp, permit, leaked, overlap,
                   config, seen>>

-----------------------------------------------------------------------------
(* The end of the upstream call.                                            *)

ReleasePermit(t) ==
    /\ half_open_requests' = Released(half_open_requests)
    /\ permit' = [permit EXCEPT ![t] = FALSE]
    /\ UNCHANGED <<leaked, overlap>>

\* record_success reads the state before anything else, and awaits the
\* configuration.  The holder of a permit records in its own future, the others
\* in a task that is spawned for it.
SuccessRead(t) ==
    /\ Goto(t, "inflight",
            IF permit[t] THEN "success_release" ELSE "success_count")
    /\ seen' = [seen EXCEPT ![t] = state]
    /\ UNCHANGED <<state, counts, stamp, permits, config>>

SuccessRelease(t) ==
    /\ Goto(t, "success_release", "probe_count")
    /\ ReleasePermit(t)
    /\ UNCHANGED <<state, counts, stamp, config, seen>>

SuccessCount(t) ==
    LET successes == Incr(consecutive_successes)
        probing == seen[t] = "half_open"
        closes == probing /\ successes >= config.success_threshold
    IN  /\ \/ Goto(t, "success_count", IF closes THEN "close_state" ELSE "idle")
           \/ Goto(t, "probe_count", IF closes THEN "probe_close" ELSE "idle")
        /\ consecutive_failures' = 0
        /\ total_requests' = Incr(total_requests)
        /\ consecutive_successes' =
                IF probing THEN successes ELSE consecutive_successes
        /\ seen' = [seen EXCEPT ![t] = "closed"]
        /\ UNCHANGED <<state, failed_requests, stamp, permits, config>>

\* transition_to_closed: the state first, whatever it is by now ...
CloseState(t) ==
    /\ \/ Goto(t, "close_state", "close_counts")
       \/ Goto(t, "probe_close", "close_counts")
    /\ state' = "closed"
    /\ UNCHANGED <<counts, stamp, permits, config, seen>>

\* ... then the counters.
CloseCounts(p) ==
    /\ Goto(p, "close_counts", "idle")
    /\ consecutive_failures' = 0
    /\ consecutive_successes' = 0
    /\ total_requests' = 0
    /\ failed_requests' = 0
    /\ UNCHANGED <<state, stamp, permits, config, seen>>

\* record_failure reads the state before anything else, and awaits the
\* configuration.
FailureRead(t) ==
    /\ Goto(t, "inflight", "failure_release")
    /\ seen' = [seen EXCEPT ![t] = state]
    /\ UNCHANGED <<state, counts, stamp, permits, config>>

FailureRelease(t) ==
    /\ Goto(t, "failure_release", "failure_count")
    /\ IF permit[t] THEN ReleasePermit(t) ELSE UNCHANGED permits
    /\ UNCHANGED <<state, counts, stamp, config, seen>>

\* A failed probe opens the breaker at once; in the closed state it takes
\* failure_threshold failures in a row, or the error rate.
FailureCount(t) ==
    LET failures == Incr(consecutive_failures)
        total == Incr(total_requests)
        failed == Incr(failed_requests)
        opens == \/ seen[t] = "half_open"
                 \/ seen[t] = "closed" /\ TripsBreaker(failures, total, failed)
    IN  /\ Goto(t, "failure_count", IF opens THEN "open_state" ELSE "idle")
        /\ consecutive_failures' = failures
        /\ consecutive_successes' = 0
        /\ total_requests' = total
        /\ failed_requests' = failed
        /\ seen' = [seen EXCEPT ![t] = "closed"]
        /\ UNCHANGED <<state, stamp, permits, config>>

\* transition_to_open: the state, then the time stamp, then the counters.
OpenState(t) ==
    /\ Goto(t, "open_state", "open_stamp")
    /\ state' = "open"
    /\ UNCHANGED <<counts, stamp, permits, config, seen>>

\* MUTANT of OpenStamp: the opening is not stamped.
OpenStampMissing(t) ==
    /\ Goto(t, "open_stamp", "open_counts")
    /\ UNCHANGED <<state, counts, stamp, permits, config, seen>>

OpenStamp(t) ==
    /\ Goto(t, "open_stamp", "open_counts")
    /\ last_opened_at' = "recent"
    /\ unstamped' = FALSE
    /\ UNCHANGED <<state, counts, permits, config, seen>>

OpenCounts(t) ==
    /\ Goto(t, "open_counts", "idle")
    /\ consecutive_failures' = 0
    /\ consecutive_successes' = 0
    /\ UNCHANGED <<state, total_requests, failed_requests, stamp,
                   permits, config, seen>>

\* MUTANT of Neutral: used_half_open_permit is not looked at.
NeutralAlwaysReleases(t) ==
    /\ Goto(t, "inflight", "idle")
    /\ ReleasePermit(t)
    /\ UNCHANGED <<state, counts, stamp, config, seen>>

\* MUTANT of Neutral: nobody gives the permit back.
NeutralKeepsPermit(t) ==
    /\ Goto(t, "inflight", "idle")
    /\ permit' = [permit EXCEPT ![t] = FALSE]
    /\ UNCHANGED <<half_open_requests, leaked, overlap>>
    /\ UNCHANGED <<state, counts, stamp, config, seen>>

\* release_permit_neutral: a client error says nothing about the provider.
Neutral(t) ==
    /\ Goto(t, "inflight", "idle")
    /\ IF permit[t] THEN ReleasePermit(t) ELSE UNCHANGED permits
    /\ UNCHANGED <<state, counts, stamp, config, seen>>

\* The client disconnects: the handler's future is dropped at the await it has
\* reached.  No guard gives its permit back, and nobody else writes the stamp of
\* an opening it had published.
Cancel(t) ==
    /\ t \in Disconnecting /\ pc[t] \in Awaiting
    /\ Goto(t, pc[t], "idle")
    /\ permit' = [permit EXCEPT ![t] = FALSE]
    /\ leaked' = IF permit[t] THEN leaked + 1 ELSE leaked
    /\ unstamped' = (unstamped \/ (pc[t] = "open_stamp" /\ last_opened_at = "none"))
    /\ seen' = [seen EXCEPT ![t] = "closed"]
    /\ UNCHANGED <<state, counts, last_opened_at, half_open_requests, overlap,
                   config>>

-----------------------------------------------------------------------------
(* The user and the clock.                                                  *)

\* reset: transition_to_closed, begun by the user.
Reset(a) ==
    /\ Goto(a, "idle", "close_counts")
    /\ state' = "closed"
    /\ UNCHANGED <<counts, stamp, permits, config, seen>>

\* update_config keeps the state; a longer timeout may make an elapsed opening
\* recent again, a shorter one the reverse.
UpdateConfig(c) ==
    /\ c # config
    /\ config' = c
    /\ last_opened_at' \in {last_opened_at}
         \cup (IF last_opened_at = "elapsed" /\ c.timeout > config.timeout
               THEN {"recent"} ELSE {})
         \cup (IF last_opened_at = "recent" /\ c.timeout < config.timeout
               THEN {"elapsed"} ELSE {})
    /\ UNCHANGED <<unstamped, state, counts, permits, pc, seen>>

TimeoutElapses ==
    /\ last_opened_at = "recent"
    /\ last_opened_at' = "elapsed"
    /\ UNCHANGED <<unstamped, state, counts, permits, config, pc, seen>>

-----------------------------------------------------------------------------
IsAvailable(t) == SelectRead(t) \/ SelectElapsed(t) \/ SelectHalfOpen(t)

AllowRequest(t) ==
    \/ AllowRead(t) \/ AllowElapsed(t) \/ AllowHalfOpen(t) \/ AllowReread(t)
    \/ ProbeAdd(t) \/ ProbeSub(t)

RecordSuccess(t) ==
    SuccessRead(t) \/ SuccessRelease(t) \/ SuccessCount(t) \/ CloseState(t)

RecordFailure(t) ==
    \/ FailureRead(t) \/ FailureRelease(t) \/ FailureCount(t)
    \/ OpenState(t) \/ OpenStamp(t) \/ OpenCounts(t)

Next ==
    \/ \E t \in Tasks :
          \/ IsAvailable(t) \/ NotNeeded(t) \/ Bypass(t) \/ AllowRequest(t)
          \/ RecordSuccess(t) \/ RecordFailure(t) \/ Neutral(t) \/ Cancel(t)
    \/ \E p \in Tasks \cup Admins : CloseCounts(p)
    \/ \E c \in Configs : UpdateConfig(c)
    \/ \E a \in Admins : Reset(a)
    \/ TimeoutElapses

Spec == Init /\ [][Next]_vars

\* Requests keep arriving (with Bypassing = {}, all of them ask the breaker), the
\* queue keeps reaching this provider (earlier ones do not answer them all), an
\* upstream call ends (the forwarder and the HTTP client bound it with timeouts)
\* and time passes.  Some clients stay until they are answered (Disconnecting is
\* not all of Tasks); nobody is obliged to go away, to reset the breaker or to
\* change its configuration.
Fairness ==
    /\ \A t \in Tasks :
          /\ WF_vars(IsAvailable(t))
          /\ SF_vars(AllowRead(t))
          /\ WF_vars(AllowRequest(t))
          /\ WF_vars(RecordSuccess(t) \/ RecordFailure(t) \/ Neutral(t))
    /\ \A p \in Tasks \cup Admins : WF_vars(CloseCounts(p))
    /\ WF_vars(TimeoutElapses)

FairSpec == Spec /\ Fairness

-----------------------------------------------------------------------------
(* Properties *)

\* Every variable stays within its type; the counters are AtomicU32s.
TypeOK ==
    /\ state \in CircuitState
    /\ consecutive_failures \in 0 .. Word - 1
    /\ consecutive_successes \in 0 .. Word - 1
    /\ total_requests \in 0 .. Word - 1
    /\ failed_requests \in 0 .. Word - 1
    /\ last_opened_at \in {"none", "recent", "elapsed"}
    /\ unstamped \in BOOLEAN
    /\ half_open_requests \in 0 .. Word - 1
    /\ config \in Configs
    /\ pc \in [Tasks \cup Admins -> Label]
    /\ seen \in [Tasks -> CircuitState]
    /\ permit \in [Tasks -> BOOLEAN]
    /\ leaked \in Nat
    /\ overlap \in BOOLEAN

\* The permit counter is exact: it is the number of requests that hold the
\* probe permit, plus those on their way to hand back an extra count, plus the
\* permits lost with a dropped future -- provided the counter was not zeroed
\* (transition_to_half_open) under a request that was still counted.
PermitsCounted ==
    ~overlap => half_open_requests =
                    Cardinality(Holders) + leaked + Cardinality(Subtracting)

\* Under the same proviso one probe at most is in progress, as
\* max_half_open_requests = 1 demands, however requests interleave.
OneProbePerHalfOpen == ~overlap => Cardinality(Holders) + leaked <= 1

\* A request that read "open" long ago, and only now gets round to the half-open
\* transition, never drags a breaker that others closed back to half-open.
ClosedNeverHalfOpens == [][state = "closed" => state' # "half_open"]_vars

\* An open breaker can always find out when its time is up.  One that was never
\* stamped, for which a time-out never elapses, is one whose task is just about
\* to write the stamp -- or was dropped right there, between the two awaits of
\* transition_to_open: no other order of the steps leaves it so.
EveryOpeningStamped ==
    last_opened_at = "none" =>
        /\ state # "half_open"
        /\ state = "open" => \/ unstamped
                            \/ \E t \in Tasks : pc[t] = "open_stamp"

\* As long as requests come in that are not dropped, an open breaker is tried
\* again, whatever the others are dropped at; all but the one whose first opening
\* was cut off before its stamp, which stays open until it is reset by hand.
OpenEventuallyRetried == state = "open" ~> state # "open" \/ unstamped

\* A half-open breaker keeps letting probes through, unless a permit was lost
\* with a dropped future or zeroed under its holder, or refused requests keep
\* overlapping one another for ever (each raises the counter for the time of two
\* instructions, and is counted by the next: without this a livelock remains).
ProbeEventuallyAdmitted ==
    [](leaked = 0 /\ ~overlap) /\ []<>(Subtracting = {}) =>
        (state = "half_open" ~> Holders # {} \/ state # "half_open")
=============================================================================
