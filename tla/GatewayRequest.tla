--------------------------- MODULE GatewayRequest ---------------------------
(***************************************************************************)
(* A client's request in the gateway of claude-code-router: the limits of  *)
(* the API key, the choice of a model by the custom router, the rules and  *)
(* the router model, and the attempts upstream with their credentials      *)
(* (claude-code-router/src/server/gateway/{service,                        *)
(* claude-code-router-plugin,acrouter}.ts).                                *)
(*                                                                         *)
(* A step is the code between two awaits.  Requests share the counters of  *)
(* the API key, the counters and the cooldowns of the credentials.  All    *)
(* requests bear the same key, all candidate models belong to one provider,*)
(* no request names a provider in a header, and the configuration does not *)
(* change.  Requests are of four kinds:                                    *)
(*   message   POST /v1/messages, the only one that is routed              *)
(*   json      any other with a JSON body                                  *)
(*   raw       any other whose body is not a JSON object                   *)
(*   bare      GET or HEAD: no body is sent on                             *)
(* A status is represented by what the code tells apart:                   *)
(*   ok        2xx, 3xx              auth    401, 403                      *)
(*   rejected  the other 4xx         busy    429                           *)
(*   conflict  408, 409              server  5xx                           *)
(*   network   no status: the call failed                                  *)
(***************************************************************************)
EXTENDS Integers, Sequences, FiniteSets, SequencesExt, FiniteSetsExt

CONSTANTS
    Requests,
    Models,
    Candidates,    \* the models of the configured provider
    Credentials,   \* the credentials of the provider, in configured order
    Priority,      \* the priority of each
    Limit,         \* how many requests each may serve in a window
    Rules,         \* the limits of the API key
    KeyLimit,      \* how much of each is allowed in a window
    Costs,         \* what a request may take of each
    Outcomes,      \* bound: what an attempt may come to
    Kinds,         \* bound: the kinds of requests that come
    Fallbacks,     \* the configured ways to go on after a failure
    MaxRetryCount, \* ROUTER_FALLBACK_MAX_RETRY_COUNT (9999 in the program)
    CustomRouter,  \* CUSTOM_ROUTER_PATH is set
    RouterEnabled, \* ACRouter.enabled
    MaxWindow      \* bound: windows of the limits

Credential == ToSet(Credentials)
Outcome == {"ok", "rejected", "conflict", "auth", "busy", "server", "network"}
Kind == {"message", "json", "raw", "bare"}
NoModel == "none"
Target == Models \cup {NoModel}  \* what an attempt may be for

ASSUME RequestsAssumption == IsFiniteSet(Requests)
ASSUME CandidatesAssumption == Candidates \subseteq Models /\ NoModel \notin Models
ASSUME CredentialsAssumption ==
    /\ Credentials \in Seq(Credential) /\ IsInjective(Credentials)
    /\ Credential \cap {"core", "nobody"} = {}
    /\ Priority \in [Credential -> Nat] /\ Limit \in [Credential -> Nat \ {0}]
ASSUME LimitsAssumption ==
    IsFiniteSet(Rules) /\ KeyLimit \in [Rules -> Nat \ {0}] /\ Costs \subseteq [Rules -> Nat]
ASSUME OutcomesAssumption == Outcomes \subseteq Outcome
ASSUME FallbacksAssumption ==
    Fallbacks \subseteq [mode : {"off", "retry", "model-chain"}, retries : Nat, models : Seq(Models)]
ASSUME KindsAssumption == Kinds \subseteq Kind
ASSUME MaxRetryAssumption == MaxRetryCount \in Nat
ASSUME MaxWindowAssumption == MaxWindow \in Nat

VARIABLES
    window,   \* the current window of the limits
    keyUsed,  \* apiKeyLimitCounters of the key
    used,     \* apiKeyLimitCounters of the credentials
    cooling,  \* providerCredentialCooldowns
    req,      \* what is known of each request
    tried,    \* what each request's attempts came to, in order
    admitted  \* the window in which each request was let in, or -1

vars == <<window, keyUsed, used, cooling, req, tried, admitted>>

Init ==
    /\ window = 0
    /\ keyUsed = [rule \in Rules |-> 0]
    /\ used = [c \in Credential |-> 0]
    /\ cooling = {}
    /\ req = [r \in Requests |->
          [pc |-> "idle", kind |-> "message", cost |-> [rule \in Rules |-> 0],
           configured |-> NoModel, model |-> NoModel, target |-> NoModel, source |-> "rules",
           fallback |-> [mode |-> "off", retries |-> 0, models |-> <<>>],
           left |-> <<>>, chain |-> <<>>, saturated |-> FALSE]]
    /\ tried = [r \in Requests |-> <<>>]
    /\ admitted = [r \in Requests |-> -1]

-----------------------------------------------------------------------------
\* MUTANT of WithinLimits: the request itself is not counted.
WithinLimitsBefore(cost) == \A rule \in Rules : keyUsed[rule] <= KeyLimit[rule]
\* The first loop of reserveApiKeyLimits.
WithinLimits(cost) == \A rule \in Rules : keyUsed[rule] + cost[rule] <= KeyLimit[rule]

\* MUTANT of Configured: without a rule that matches there is no model.
ConfiguredRuled(incoming, ruled) == IF incoming \in Candidates THEN incoming ELSE ruled
\* resolveConfiguredRouteDecision: a known selector, else the first rule that
\* matches or the default, else the model as it came.
Configured(incoming, ruled) ==
    IF incoming \in Candidates \/ ruled = NoModel THEN incoming ELSE ruled

\* What comes after a custom router that chose nothing.
Unscripted == IF RouterEnabled /\ Cardinality(Candidates) > 1 THEN "asking" ELSE "send"

\* A request arrives: its limits are checked, all of them, and then charged.
\* One that is not to be routed goes upstream as it is.
Arrive(r) ==
    /\ req[r].pc = "idle"
    /\ \E cost \in Costs :
          \/ /\ WithinLimits(cost)
             /\ keyUsed' = [rule \in Rules |-> keyUsed[rule] + cost[rule]]
             /\ admitted' = [admitted EXCEPT ![r] = window]
             /\ \E kind \in Kinds, incoming \in Target, ruled \in Target, fallback \in Fallbacks :
                   \/ /\ kind = "message" /\ incoming # NoModel
                      /\ req' = [req EXCEPT ![r].pc = IF CustomRouter THEN "custom" ELSE Unscripted,
                                            ![r].kind = kind, ![r].cost = cost,
                                            ![r].configured = Configured(incoming, ruled),
                                            ![r].model = Configured(incoming, ruled),
                                            ![r].fallback = fallback]
                   \/ /\ kind # "message" /\ ruled = NoModel
                      /\ kind \in {"raw", "bare"} => incoming = NoModel
                      /\ req' = [req EXCEPT ![r].pc = "send", ![r].kind = kind, ![r].cost = cost,
                                            ![r].source = "unrouted", ![r].model = incoming,
                                            ![r].fallback = fallback]
          \/ /\ ~WithinLimits(cost)
             /\ req' = [req EXCEPT ![r].pc = "refused"]
             /\ UNCHANGED <<keyUsed, admitted>>
    /\ UNCHANGED <<window, used, cooling, tried>>

\* resolveCustomRoute: the script, which is waited for without any limit, chooses
\* a model, or none, or fails.  A model of its own goes straight upstream; else
\* the router model is asked.
Custom(r) ==
    /\ req[r].pc = "custom"
    /\ \/ \E m \in Models :
             req' = [req EXCEPT ![r].pc = "send", ![r].model = m, ![r].source = "custom"]
       \/ req' = [req EXCEPT ![r].pc = Unscripted]
    /\ UNCHANGED <<window, keyUsed, used, cooling, tried, admitted>>

\* fetchJsonWithTimeout: the answer of the router model begins.
RouterBegins(r) ==
    /\ req[r].pc = "asking"
    /\ req' = [req EXCEPT ![r].pc = "reading"]
    /\ UNCHANGED <<window, keyUsed, used, cooling, tried, admitted>>

\* MUTANT of RouterChoice: whatever model the answer names is taken.
RouterChoiceAny(m, r) == m
\* parseRouterResponse: a model that is no candidate leaves the route as it is.
RouterChoice(m, r) == IF m \in Candidates THEN m ELSE req[r].configured

\* The answer is complete.
RouterAnswers(r) ==
    /\ req[r].pc = "reading"
    /\ \E m \in Models \cup {NoModel} :
          req' = [req EXCEPT ![r].pc = "send", ![r].model = RouterChoice(m, r),
                             ![r].source = IF m \in Candidates THEN "router" ELSE @]
    /\ UNCHANGED <<window, keyUsed, used, cooling, tried, admitted>>

\* MUTANT of RouterFails: the timer is cleared once the answer begins.
RouterFailsEarly(r) ==
    /\ req[r].pc = "asking"
    /\ req' = [req EXCEPT ![r].pc = "send", ![r].model = req[r].configured]
    /\ UNCHANGED <<window, keyUsed, used, cooling, tried, admitted>>
\* The call fails, or the timer aborts it, its body included: the route stays.
RouterFails(r) ==
    /\ req[r].pc \in {"asking", "reading"}
    /\ req' = [req EXCEPT ![r].pc = "send", ![r].model = req[r].configured]
    /\ UNCHANGED <<window, keyUsed, used, cooling, tried, admitted>>

-----------------------------------------------------------------------------
\* MUTANT of AppendNew: the first model is tried again when it is in the list.
AppendRepeated(chain, m) == Append(chain, m)
\* uniqueStrings.
AppendNew(chain, m) == IF Contains(chain, m) THEN chain ELSE Append(chain, m)

Retries(fallback) == IF fallback.retries <= MaxRetryCount THEN fallback.retries ELSE MaxRetryCount

\* buildUpstreamAttempts: with nothing but the request as it is to send, there is
\* one attempt, whatever the mode.
Attempts(kind, fallback, model) ==
    LET targets == IF model = NoModel THEN fallback.models ELSE <<model>> \o fallback.models IN
    IF \/ fallback.mode = "off" \/ kind = "bare"
       \/ fallback.mode = "model-chain" /\ (kind = "raw" \/ targets = <<>>) THEN <<model>>
    ELSE IF fallback.mode = "retry" THEN [n \in 1..Retries(fallback) + 1 |-> model]
    ELSE FoldLeft(AppendNew, <<Head(targets)>>, Tail(targets))

\* providerCredentialLimitState and the cooldown.
Blocked(c) == used[c] + 1 > Limit[c]
\* utilization, compared without fractions
LessUsed(c, d) == (used[c] + 1) * Limit[d] < (used[d] + 1) * Limit[c]
Spills(c) == 10 * (used[c] + 1) >= 8 * Limit[c]
Before(c, d) == \E i, j \in DOMAIN Credentials : Credentials[i] = c /\ Credentials[j] = d /\ i < j

\* sortProviderCredentialCandidates; credentials of one weight.  No two rank alike.
Ranked(chain) ==
    LET candidates == ToSet(chain)
        first == {c \in candidates : \A d \in candidates : Priority[c] <= Priority[d]}
        Even(c, d) == ~LessUsed(c, d) /\ ~LessUsed(d, c)
        ByPriority(c, d) ==
            \/ Priority[c] < Priority[d]
            \/ Priority[c] = Priority[d] /\ (LessUsed(c, d) \/ (Even(c, d) /\ Before(c, d)))
        ByUtilization(c, d) ==
            \/ LessUsed(c, d)
            \/ /\ Even(c, d)
               /\ \/ Priority[c] < Priority[d]
                  \/ Priority[c] = Priority[d] /\ Before(c, d) IN
    \A i, j \in DOMAIN chain : i < j =>
        IF \A c \in first : Spills(c) THEN ByUtilization(chain[i], chain[j])
        ELSE ByPriority(chain[i], chain[j])

\* MUTANT of Available: a credential at its limit still serves.
AvailableCool == Credential \ cooling
Available == {c \in Credential : c \notin cooling /\ ~Blocked(c)}

\* prepareUpstreamCredentialAttempt and the call: the next model, with the
\* credentials of its provider, best first; a model that is no candidate has none.
Send(r) ==
    /\ req[r].pc = "send"
    /\ LET left == IF tried[r] = <<>> THEN Attempts(req[r].kind, req[r].fallback, req[r].model)
                   ELSE req[r].left
           candidates == IF Head(left) \notin Candidates THEN {}
                         ELSE IF Available # {} THEN Available ELSE Credential IN
       \E chain \in [1..Cardinality(candidates) -> candidates] :
          /\ ToSet(chain) = candidates /\ Ranked(chain)
          /\ req' = [req EXCEPT ![r].pc = "waiting", ![r].target = Head(left),
                                ![r].left = Tail(left), ![r].chain = chain,
                                ![r].saturated = @ \/ (candidates # {} /\ Available = {})]
    /\ UNCHANGED <<window, keyUsed, used, cooling, tried, admitted>>

\* shouldFallbackAfterStatus; a failed call always goes on.
GoesOn(outcome, mode) ==
    \/ outcome \in {"network", "conflict", "busy", "server"}
    \/ mode = "model-chain" /\ outcome \in {"rejected", "auth"}

Counts(outcome) == outcome \in {"ok", "rejected", "conflict"}

\* MUTANT of RecordOutcome: an error of the client is not counted.
RecordSuccess(c, outcome) ==
    /\ used' = IF outcome = "ok" THEN [used EXCEPT ![c] = @ + 1] ELSE used
    /\ cooling' = IF outcome = "ok" THEN cooling \ {c}
                  ELSE IF outcome \in {"auth", "busy", "server"} THEN cooling \cup {c} ELSE cooling
\* recordProviderCredentialOutcome.
RecordOutcome(c, outcome) ==
    /\ used' = IF Counts(outcome) THEN [used EXCEPT ![c] = @ + 1] ELSE used
    /\ cooling' = IF Counts(outcome) THEN cooling \ {c}
                  ELSE IF outcome \in {"auth", "busy", "server"} THEN cooling \cup {c} ELSE cooling

LastAttempt(r) == req[r].left = <<>>

\* The core gateway answers; it has tried the credentials of the chain and says
\* which one the answer is from, unless it answers for itself ("core").  Only the
\* last answer's word is taken: of the others the first credential of the chain
\* is held to account.  A call that fails, or has no chain, is nobody's.
Answered(r) ==
    /\ req[r].pc = "waiting"
    /\ \E outcome \in Outcomes, by \in ToSet(req[r].chain) \cup {"core", "nobody"} :
          LET final == LastAttempt(r) \/ ~GoesOn(outcome, req[r].fallback.mode)
              charged == IF final /\ by # "core" THEN by ELSE Head(req[r].chain) IN
          /\ (outcome = "network" \/ req[r].chain = <<>>) <=> by = "nobody"
          /\ tried' = [tried EXCEPT ![r] =
                Append(@, [model |-> req[r].target, by |-> by, outcome |-> outcome,
                           window |-> window])]
          /\ req' = [req EXCEPT ![r].pc = IF final THEN "done"
                                          ELSE IF outcome = "busy" THEN "pausing" ELSE "send"]
          /\ IF by = "nobody" THEN UNCHANGED <<used, cooling>>
             ELSE RecordOutcome(charged, outcome)
    /\ UNCHANGED <<window, keyUsed, admitted>>

\* retryDelayAfterStatus has passed.
Pauses(r) ==
    /\ req[r].pc = "pausing"
    /\ req' = [req EXCEPT ![r].pc = "send"]
    /\ UNCHANGED <<window, keyUsed, used, cooling, tried, admitted>>

\* A new window: readApiKeyWindowCounter starts every counter afresh.
Tick ==
    /\ window < MaxWindow
    /\ window' = window + 1
    /\ keyUsed' = [rule \in Rules |-> 0]
    /\ used' = [c \in Credential |-> 0]
    /\ UNCHANGED <<cooling, req, tried, admitted>>

\* providerCredentialCooldownMs have passed.
CooldownEnds ==
    /\ \E c \in cooling : cooling' = cooling \ {c}
    /\ UNCHANGED <<window, keyUsed, used, req, tried, admitted>>

Next ==
    \/ Tick \/ CooldownEnds
    \/ \E r \in Requests :
          \/ Arrive(r) \/ Custom(r)
          \/ RouterBegins(r) \/ RouterAnswers(r) \/ RouterFails(r)
          \/ Send(r) \/ Answered(r) \/ Pauses(r)

Spec == Init /\ [][Next]_vars

\* The gateway's own code runs, its timers fire, and the core gateway, a process
\* on the same machine, answers.  The router model need not, and the user's
\* script, awaited without a limit, need not return.
Fairness == \A r \in Requests :
    /\ WF_vars(RouterFails(r))
    /\ WF_vars(Send(r)) /\ WF_vars(Answered(r)) /\ WF_vars(Pauses(r))

FairSpec == Spec /\ Fairness

-----------------------------------------------------------------------------
Fallback == [mode : {"off", "retry", "model-chain"}, retries : Nat, models : Seq(Models)]
Attempt == [model : Target, by : Credential \cup {"core", "nobody"}, outcome : Outcome,
            window : 0..MaxWindow]
Entry == [pc : {"idle", "refused", "custom", "asking", "reading", "send", "waiting",
                "pausing", "done"},
          kind : Kind, cost : [Rules -> Nat],
          configured : Target, model : Target, target : Target,
          source : {"rules", "custom", "router", "unrouted"},
          fallback : Fallback, left : Seq(Target), chain : Seq(Credential),
          saturated : BOOLEAN]

TypeOK ==
    /\ window \in 0..MaxWindow
    /\ keyUsed \in [Rules -> Nat]
    /\ used \in [Credential -> Nat]
    /\ cooling \subseteq Credential
    /\ req \in [Requests -> Entry]
    /\ tried \in [Requests -> Seq(Attempt)]
    /\ admitted \in [Requests -> {-1} \cup (0..MaxWindow)]
    /\ \A r \in Requests : req[r].model = NoModel
           => req[r].pc \in {"idle", "refused"} \/ req[r].source = "unrouted"

\* The attempts of this window that count.
CountedNow ==
    UNION {{<<r, n>> : n \in {n \in DOMAIN tried[r] :
                                  /\ tried[r][n].window = window
                                  /\ tried[r][n].by # "nobody"
                                  /\ Counts(tried[r][n].outcome)}} : r \in Requests}

\* A refused request has cost nothing and an admitted one all of its cost, and
\* no window admits more than the limits of the key, whichever requests arrive.
KeyLimitsHold ==
    \A rule \in Rules :
        /\ keyUsed[rule] = SumFunctionOnSet([r \in Requests |-> req[r].cost[rule]],
                                            {r \in Requests : admitted[r] = window})
        /\ keyUsed[rule] <= KeyLimit[rule]

\* A router model that fails, is too slow, or names something that is not a
\* candidate, leaves the request with the model the rules gave it.
RouterFailureKeepsRoute ==
    \A r \in Requests : tried[r] # <<>> =>
        LET model == tried[r][1].model IN
        CASE req[r].source = "rules" -> model = req[r].configured
          [] req[r].source = "router" -> model \in Candidates
          [] OTHER -> TRUE

\* The documented table (routing.md:27-42): the answers that make a request in
\* this mode go on.
Triggers(mode, outcome) ==
    CASE mode = "off" -> FALSE
      [] mode = "retry" -> outcome \in {"conflict", "busy", "server", "network"}
      [] OTHER -> outcome # "ok"

\* Request r went on by the table with so many attempts granted: it stopped at
\* the first answer that does not call for another, never before the last attempt,
\* and tried no target twice.
WentOn(r, granted) ==
    LET mode == req[r].fallback.mode IN
    /\ \A n \in 1..Len(tried[r]) - 1 : Triggers(mode, tried[r][n].outcome)
    /\ Triggers(mode, tried[r][Len(tried[r])].outcome) => Len(tried[r]) = granted
    /\ mode = "model-chain" => IsInjective([n \in DOMAIN tried[r] |-> tried[r][n].model])

FallbackTargets(r) ==
    {req[r].fallback.models[n] : n \in DOMAIN req[r].fallback.models} \cup ({req[r].model} \ {NoModel})

\* The attempts a request is entitled to.  The documentation grants one, the
\* configured retries and one more, or one for each target, without exception
\* (routing.md:27-31).  A request without a body, or, going from model to model,
\* with no JSON body to put another model in, has one; and retries have a bound.
Entitled(r) ==
    LET mode == req[r].fallback.mode IN
    IF mode = "off" \/ req[r].kind = "bare" \/ (req[r].kind = "raw" /\ mode = "model-chain") THEN 1
    ELSE IF mode = "retry" THEN Retries(req[r].fallback) + 1
    ELSE IF FallbackTargets(r) = {} THEN 1 ELSE Cardinality(FallbackTargets(r))

\* Going on after a failure does what the documentation's table says, for as many
\* attempts as the request is entitled to and no more, whatever its kind, its
\* mode and the answers (fetchUpstreamWithFallback, buildUpstreamAttempts).
FallbackAsEntitled == \A r \in Requests : req[r].pc = "done" => WentOn(r, Entitled(r))

\* However requests cross, each answer that counts is counted once, and the last
\* answer of a request for the credential that gave it.
AnswersCountedOnce ==
    /\ SumFunctionOnSet(used, Credential) = Cardinality(CountedNow)
    /\ \A c \in Credential :
          Cardinality({r \in Requests : /\ req[r].pc = "done"
                                        /\ <<r, Len(tried[r])>> \in CountedNow
                                        /\ Last(tried[r]).by = c}) <= used[c]

\* The limit of a credential is checked before a call and charged after it.
\* What crosses in between exceeds it by no more than the other requests, as
\* long as no request found every credential barred.
OvershootBounded ==
    (\A r \in Requests : ~req[r].saturated)
        => \A c \in Credential : used[c] <= Limit[c] + Cardinality(Requests) - 1

\* Every request that is let in is answered, even if the router model never is
\* heard of again -- unless the user's script keeps it for ever.
EveryRequestAnswered ==
    \A r \in Requests :
        []<>(req[r].pc # "custom")
            => (req[r].pc \notin {"idle", "refused"} ~> req[r].pc = "done")
=============================================================================
