# Agent-as-a-Router: a TLA+ verification project

The repository holds three programs that route the requests of coding agents to
language models:

* **ACRouter** (Python, `src/src`): a router with a memory of what worked, a
  verify-and-escalate loop on top of it, and the scripts that reproduce the
  experiments.
* **cc-switch** (Rust/Tauri, `src/cc-switch`): a desktop application that keeps
  the configurations of Claude Code, Codex and Gemini, can *take over* those
  configurations so that the clients talk to a local proxy, and lets that proxy
  fail over between providers.
* **claude-code-router** (TypeScript/Electron, `src/claude-code-router`): a
  desktop application that runs a gateway process and plugins between the
  clients and the providers.

This directory models the parts in which order, concurrency and failure decide
whether the program is right, checks them with TLC on small instances, and
proves what matters for every instance with TLAPS.  Paths below are relative to
the repository; `cc/` stands for `cc-switch/src-tauri/src/`.

## 1. Inventory

| Component | State it keeps | Operations | What is hard | What makes it correct |
|---|---|---|---|---|
| Circuit breaker, `cc/proxy/circuit_breaker.rs` | state, four counters, time stamp of the last opening, half-open permit counter, configuration; each behind its own lock or atomic | `is_available`, `allow_request`, `record_success`, `record_failure`, `release_half_open_permit`, `reset`, `update_config` | no lock covers two of them; a future may be dropped between taking and returning a permit | the permit counter is exact, one probe at a time, an open breaker is retried |
| Provider router, `cc/proxy/provider_router.rs` | one breaker per provider | `select_providers`, `allow_provider_request`, `record_result`, `release_permit_neutral` | reads a configuration that changes | the queue order and the breakers decide the candidates |
| Forwarder, `cc/proxy/forwarder.rs` | per request: candidates, attempts, repairs; shared: connection count | `forward_with_retry` and its helpers | three repairs with their own exits, disconnects at any await, background tasks | permits come back, each attempt has one result, failover only where it helps |
| Failover switch, `cc/proxy/failover_switch.rs` | pending switches | `try_switch`, `do_switch` | several requests ask for the same switch | one switch at a time per provider |
| Takeover, `cc/services/proxy.rs`, `cc/proxy/switch_lock.rs` | live files, backup rows, `enabled` flags, current provider, server handle | enable, disable, hot switch, start, stop, stop with restore, update of the port | a lock per application, but loops and the server are outside it; crashes; failing writes | the user's file is never lost, no file is left pointing at a proxy that is gone |
| Start-up and exit, `cc/lib.rs` | none of its own | `recover_from_crash`, restore of the proxy state, `cleanup_before_exit` | runs beside the user's first commands | what a crash left is put right |
| Configuration table, `cc/database/dao/proxy.rs`, `failover.rs` | rows of `proxy_config`, `proxy_live_backup`, the failover queue | reads and writes | read-modify-write across awaits | no update is lost |
| ACRouter model choice, `cc/proxy/acrouter.rs` | none | candidates, router call, answer parsing | a router call inside a request | a failed call leaves the request as it was |
| HTTP handlers, `cc/proxy/{handlers,response_processor,server}.rs` | usage log, streams | adaptation of protocols, streaming | first-byte and idle time limits | every stream ends, the guard goes with the body |
| Repairs and optimisers, `cc/proxy/*rectifier*`, `media_sanitizer`, `cache_injector`, `copilot_optimizer` | none | rewriting of JSON bodies | - | idempotent, and tell whether they changed anything |
| Synchronisation, `cc/services/{webdav,s3}*`, `sync_protocol.rs` | channel, debounce timer, suppression flag, sync lock, remote manifest | debounced upload, download | changes during an upload | a change is uploaded in the end |
| Providers, skills, MCP, usage, UI | database and files | forms over them | - | - |
| Gateway service, life cycle, `claude-code-router/src/server/gateway/service.ts` | configuration, child process, status; on disk the marker file | `start`, `stop`, `updateConfig`, the exit event, `stopPreviousManagedCoreGateway` | overlapping starts, exit events of a process already replaced, a core that outlives a crash of the application | no core runs that neither the service nor the marker knows; the status tells the truth |
| Gateway service, requests, same file | counters of API keys and credentials, cooldowns | `handleRequest` with limits, routing, the chain of attempts, recording | limits checked before and charged after the call; retries and fallback | limits, each answer counted once, every request answered |
| Gateway ACRouter, `.../gateway/acrouter.ts`, `claude-code-router-plugin.ts` | none | candidates, router call, answer parsing | time limit of the router call | an unusable answer leaves the original model |
| Capture proxy, `.../server/proxy/*` | system proxy snapshot (memory and file), certificates, sockets | take over, restore, ensure | dozens of commands that can be cut anywhere; crash with the system proxy set; a restore that outlives its time limit | the user's proxy settings come back |
| Stores and services, `.../main/*` | SQLite, JSON configuration, plugin processes | - | - | - |
| Inference API, `src/acrouter_repro/inference.py` | memory of scores by dimension and model | `observe`, `route`, `run_with_verifier` | callbacks of the host in the middle of a run; exceptions | escalation has a cause, the best attempt is chosen, everything tried is learned |
| Online routing agent, `src/routing/AGENT_ROUTER.py` | memory, exploration counters | route, update | fallback when the router call fails | - |
| Reproduction, baselines, sandbox verifier | result tables | batch jobs | - | - |

How they interact.  A client's request reaches a handler, which builds its
context (configuration, current provider), asks the provider router for
candidates (it asks the breakers), and runs the forwarder, which asks a breaker
again before each attempt, records the result there, and on success may leave a
failover switch to a task.  That task takes the application's switch lock and
performs the same hot switch as the user's command.  The commands of the window
and the tray, the failover tasks and the start-up task therefore meet in the
takeover, on the same files and rows.  ACRouter's inference API is independent
of both applications; they only share the router model it talks to.

In claude-code-router `main.ts` and `ipc.ts` start and stop one gateway service; a
start stops what runs, attaches the capture proxy (which takes the system's
proxy settings over) and spawns the core process; a quit gives the settings back and
stops the core.  A client's request comes to the service, which decides its
model and its credentials and sends it to the core.

`PROJECT.json` lists every hazard met while reading, at its line.

## 2. Modules

| Module | Models | Extends |
|---|---|---|
| `CircuitBreaker` | the breaker of one provider and the requests that use it | - |
| `CircuitBreakerProofs` | theorems about it | `CircuitBreaker`, library theorems |
| `Takeover` | takeover, switching, stop, start-up recovery, exit, crash | - |
| `Custody` | abstract: saved before it is diverted, kept as long as it is; what a provider switch may move | refined by `Takeover` |
| `TakeoverProofs` | theorems about `Takeover`, among them the refinement | `Takeover`, `TLAPS` |
| `Forwarder` | requests through context, candidates, attempts, repairs, settlement; background tasks | - |
| `ForwarderProofs` | theorems about it | `Forwarder`, library theorems |
| `InferenceRouter` | memory, `route`, `run_with_verifier` | - |
| `InferenceRouterProofs` | theorems about it | `InferenceRouter`, `FoldTheorems` |
| `SystemProxy` | the system's proxy settings taken over and given back, command by command, with crash, quit and launch | - |
| `SystemProxyProofs` | theorems about it | `SystemProxy`, `TLAPS` |
| `GatewayLifecycle` | start, stop, exit events, marker file, core processes, crash and launch | - |
| `CoreSupervisor` | abstract: at most one core of this run, and only the end of the application leaves one behind | refined by `GatewayLifecycle` |
| `GatewayLifecycleProofs` | theorems about `GatewayLifecycle`, among them the refinement | `GatewayLifecycle`, `TLAPS` |
| `GatewayRequest` | a request through limits, routing, attempts and credentials | - |
| `GatewayRequestProofs` | theorems about it | `GatewayRequest`, `FoldTheorems` |
| `FoldTheorems` | lemmas about folds and sums over finite sets, for the proofs above | library modules and theorems |
| `MC...` | constants for TLC | the module |

`CircuitBreaker` and `Forwarder` meet at the permit: the first says when a
permit is given and what losing one does; the second sees the breaker from the
outside (it may refuse, admit, or admit with a permit, at any time) and says who
gives a permit back.  `Forwarder` and `Takeover` meet at `ApplySwitch`, one step
in the first, the operation `"failover"` in the second.  `SystemProxy` and
`GatewayLifecycle` are two views of the same `start` and `stop`: the first sees
the proxy's part (`attach`, `stop`), the second the core's, where the proxy is one
of the things that may fail in `Opening`.

Conventions: variables and operators keep the names of the code; a process's
program point is `pc`; a comment over an action names the function it is part
of; variables marked *(history)* are read by properties only, never by guards;
an operator whose comment begins with `MUTANT of` is a plausible mistake in the
definition it names.  It is used in no specification: substituted for that
definition it makes a property fail, which shows that the property depends on
the code.

### CircuitBreaker

A step is what happens between two awaits of a lock or two operations on an
atomic; the counters that `record_*` updates back to back are one step.
`state`, the stamp `last_opened_at` and the permit counter `half_open_requests`
are always in different steps, as in the code.  A task walks
`is_available` (`Select...`) - `allow_request` (`Allow...`, `Probe...`) - the
upstream call (`inflight`) - one of `Success...`, `Failure...`, `Neutral`.  All
of this runs in the future of the request, so a client in `Disconnecting` that goes away
(`Cancel`) drops it at whatever await it has reached (`Awaiting`), those of `record_failure` and
`transition_to_open` included; the exception is the success of a request without a
permit, which `record_success_result` leaves to a task of its own (`success_count`; the
holder of a permit goes through `probe_count` and can be dropped on the way).  `Bypass` is the request that is sent without
asking (failover off, or one candidate).  Time is reduced to what the code
compares, "elapsed or not".  `Word` is the modulus of the `AtomicU32`s.
History: `leaked` counts permits dropped with their future, `overlap` says that
the counter was last zeroed while a request was still counted, `unstamped` that a
request was dropped between publishing an opening and stamping it, with no stamp since.

### Takeover

`live[a]` is the client's file, reduced to where its content came from: the
user, a provider's saved settings, `Clean` (placeholders stripped) or a port (a
takeover).  `backup[a]`, `enabled[a]`, `current[a]`, `port` are rows that survive
a crash; `server`, `lock`, `pc`, `job` do not.  The operators `Enable`,
`Disable`, `Switch`, `StopAll`, `Server` collect the steps of the handlers; `Boot` is
the start-up task, which runs beside the callers.  `Faults` says what may fail:
writing a file, synchronising tokens, starting the server.  `Crash` may come
anywhere.

`exposed[a]` (history) marks the three orders in which the code gives no
guarantee: the file was taken over by a port update, which takes no lock; the
lock was granted between a stop's (or recovery's) restore and its deletion of
the backups; a token sync failed while the file was already taken over.  The
invariants hold outside them, and `takeover_lost` shows what the second one
costs.

`Custody` is what all this promises the owner of a file, in terms of where the owner's settings
are: in place (`own`), in place with a copy (`saved`), in the copy alone while the
file points at the proxy (`diverted`), or `released` from the promise.  `Place` maps the
file, its backup and the history to these; what would be a loss (a takeover without a
backup, a placeholder in the backup, the user's file in neither) it maps to `lost`, a place
`Custody` does not have.  While the provider of an application is being switched (`UnderSwitch`:
from the decision under the lock to the write), no step saves its file, gives it back or
drops its copy, whoever takes it, and the switch itself may only replace what the owner has
(`Replace`) and, for the applications in `Following`, end by diverting a file that is saved
(`Follow`).  `Following` is Claude: its hot switch writes the file as a takeover whenever there is
a backup (`services/proxy.rs:2129`), also where a crash, or a fault, had left a backup beside a
file that is not taken over.  So a switch can begin a takeover, of Claude's file only; it
never ends one.  A Codex file in that state gets the provider's settings (`:2138`), a Gemini file
is not written.

The command that saves an application's whole configuration row, with its `enabled` flag and
without the lock (`commands/proxy.rs:131`), is not modelled.  It writes no file; like the
failover command, which is (`ReadConfigRow`, `WriteConfigRow`), it can undo a flag set meanwhile.

Left out: token contents, events to the window, the composite tray commands, the
back-fill of edits made to a live file, and errors of the database itself.

### Forwarder

A request reads its configuration, the current provider, the failover flag (a
second time: it may have changed), its candidates, takes a connection guard
and then tries candidates.  An error is a record of its kind and of which
repairs it calls for; `Repairs`, `TurnsAway` and `ByCategory` split the errors into
"send again, repaired", "the client's fault: stop", and "by category".
`Disconnect` drops the request at any point after it has begun.  `spawned` holds the
background tasks: the decrement scheduled by the guard, a success recorded
later, a failover switch with its three steps.  `permits`, `verdict`, `doubt`,
`owed`, `gone` are history.

Left out: status counters for display, the health table, error texts, the
building of upstream requests, protocol conversion.

### InferenceRouter

The memory is a log of observations, from which the averages of the code are
computed; an average is compared by cross multiplication.  A run is `Start`,
`TryCheap` along the chain, `TryEscalate`; the host may `Observe` and `Advise`
between any two steps (its callbacks hold the router object) and a callback may
`Raise`.  A response is the position of the attempt that gave it.

### SystemProxy

`os` and `held` hold three settings per network service: what is in effect, and the
address that is stored, which a setting keeps while it is off.  Every `networksetup` command is
a step of its own: `Check`, `Undo`, `Capture`, `Apply` walk the orders in which the code visits the
settings.  A read is one command, a write two (`setMacProxySettings`): `WriteAddress` stores the
address and switches the setting *on*; `WriteState` switches it on or off.  Between them the
task is `half`.  The first is left out where there is no address.  `disk` and `mem` are the two
copies of the snapshot.  The slot `main` is the operation somebody waits for,
`late` the one that was overtaken: by the time limit of a restore (`TimeOut`) or
by a quit that does not wait for a start (`Quit`).  The fault model: any command may
fail, the time limit may pass, the application may quit or crash at any
step, and the user may set anything while the application is not running.

`lossCause` (history) names the four orders in which the code gives no
guarantee, and the properties say that nothing else costs a setting: `cut`, an undo
that had set the HTTP settings back but not yet the SOCKS setting when it was cut, which the
next start does not recognise; `half`, an undo cut between the two commands of an HTTP setting
that the user had off, which is on at that moment and stays on; `blind`, a failed read
that counted as "not ours"; `raced`, two operations at once of which one takes the settings over.
`SettingsSurviveCrash` asks at every step what a crash at this very step and an undisturbed
start would leave, and exempts the setting that is half put back (`Flickers`) when no
other setting shows the next start that the settings are managed (`Recognised`).

Left out: the branch for Windows, the fields of a setting other than its
address, changes the user makes while the application runs.

### GatewayLifecycle

A step is the code between two awaits; `pc[c]` says which await a command is at.
`start` is `StopBegins`, `StopEnds`, `Opening`, `Previous`, `Waiting`, `Probing`,
`Spawning`; a stop is the first two.  `UpdateConfig` sets the configuration without
a start, which matters because the first stop of a run keeps the marker file
only while no configuration is set.  A core process boots, serves, closes and
exits by itself (`Boots`, `Obeys`, `Dies`), and its exit is an event that comes
later (`HandleExit`); a core spawned by an earlier run has nobody to hear of its exit.
`Crash` may come at any step; a quit does not wait for the commands under way.
`mishaps` (history) records `overwritten` (a spawn replaced a child nobody had
stopped), `missed` (the core of an earlier run was not recognised, because it
was still booting or answered late), `discarded` (the marker of a core
that runs was removed), `lateExit` (an exit event spoiled the state of
the next core), `crossed` (a stop ended while another command had a child).

### GatewayRequest

A request is let in by the limits of its key (`Arrive`, check and charge in one
step, as in the code), takes its route from its own model, the configured rule, a custom route or
the router model (`Custom`, `RouterBegins`, `RouterAnswers`, `RouterFails`), and goes through
the list of attempts of its fallback mode (`Send`, `Answered`, `Pauses`).  There are four
kinds of requests: only a `message` is routed; `json`, `raw` (a body that is not a JSON object) and `bare`
(no body) go upstream as they are, and the last two get a single attempt where the code has
no body, or no JSON, to send again (`Attempts`).  Retries are clamped (`Retries`).  Before each
attempt the credentials are ordered by priority, use and cooldown (`Available`,
`Ranked`); an answer charges one of them and may set or clear its cooldown
(`RecordOutcome`).  `Tick` begins a new window for all counters, `CooldownEnds` is the
passing of the cooldown.  A status is one of the seven classes the code tells apart.

Abstracted: one API key, one provider, credentials of equal weight, limits of
credentials in requests only.  `tried`, `admitted` and the field `saturated`
are history.

## 3. Runs

| Run | Instance | What it shows |
|---|---|---|
| `cb_safety` | 2 requests, either of which may be dropped at any await, 1 reset command, 2 configurations, word of 4 | permit accounting, one probe, stamps, and no return from closed to half-open, at every interleaving |
| `cb_liveness` | 2 requests, one of which may be dropped at any await, fair | an open breaker is retried unless its first opening was cut off before its stamp; a half-open one admits a probe if no permit is lost or zeroed and refusals do not overlap for ever |
| `takeover` | 2 callers + start-up, 1 application (Claude, whose file a hot switch takes over), 2 providers, 2 ports, every command, every fault | the user's file survives overlapping commands against recovery, crashes and faults; every step is one of `Custody` |
| `takeover_lost` | 2 callers, enable and stop, no faults | **violation**: the user's file is lost |
| `forwarder_failover` | 2 requests, 2 providers, 2 attempts, one error of each way to be handled | permits, settlement, connections, switches with every interleaving of requests, tasks, settings and disconnects |
| `forwarder_settle` | 1 request, 3 providers, 2 attempts, every error, fair | a request that came in with failover on is settled; the limit of attempts below the number of candidates |
| `inference_learning` | 3 models, chain of 2, 2 dimensions, 3 scores, 3 observations | what is chosen, learned and advised |
| `system_proxy` | 2 network services, 2 ports, 2 settings of the user, 3 faults, fair | a crash at any command leaves what the next start needs, but for a setting that is half put back; the status tells; the network comes back |
| `lifecycle_safety` | 2 commands, 4 core processes, 2 faults | which core runs and who knows of it, whatever crosses |
| `lifecycle_recovery` | 1 command, 3 core processes, 2 faults, fair | refinement of `CoreSupervisor`; the core left by a crash is ended |
| `request_limits` | 2 requests, 2 credentials with limits 1 and 2, 2 rules, 2 windows, one retry | limits of the key, what is counted, how far a credential's limit is passed |
| `request_routing` | 1 request of any kind, 3 models of which 2 are candidates, every outcome, 4 fallbacks (one with more retries than allowed, one without targets), fair | the route, the fallback table with the attempts each kind gets, the answer |

### The bounds, and why they are enough

* Two requests on one breaker: the properties are about a holder and one other
  request (a stale recorder, a refused probe); a third brings no new pair, and
  the safety properties are proved for any number.  The thresholds of `Usual`
  let the breaker open by a run of failures and by its error rate; `Patient`
  shortens and lengthens the time-out.  `Word = 4` makes the counters wrap.
* Takeover: commands on different applications share only the server and
  the loops, so one application is enough for the file properties.  Two callers meet
  each other *and* the start-up task.  The constraint `OthersAlone` lets two callers overlap
  only in the commands of `Overlapping`, those on one application and the stop with restore;
  starting and stopping the server, changing its port and exiting are checked against the start-up task, faults
  and crashes, but not against a second command.  That is where the run is cut, to stay
  within reach: a port change beside an enable is not explored.
  Two ports let a file point at the wrong proxy; two providers, one official, let a switch be
  refused.  The application is Claude, the one whose file a switch may take over: a crash between the
  backup and the takeover of an enable, and a switch before the start-up task gets to it, is in
  the run.  What a hot switch does with the files of Codex and Gemini is in the model and in the
  proofs, which hold for every `Kind`, and not in a run.
* Forwarder: two requests can ask for the same switch, or hold permits of the
  same provider; two providers give a failover, three more candidates than
  attempts.  One provider is subject to the thinking repairs, one is not.
* Inference: three observations are one complete run, or a run cut short by an
  exception followed by the beginning of another, or host observations
  before and in between; three scores tell average, peak and latest apart.
* System proxy: two services make an operation long enough to be cut between
  services, between settings and between the commands of one; two ports let a launch meet
  the snapshot of another; three faults let a crash follow a failed command of an overtaken
  operation.  The user has set nothing, or a mixture: an HTTP and a SOCKS proxy that are on,
  addresses that are stored and off, and one setting without any; a setting in each role the code
  distinguishes.  `Followed` cuts the run where a setting may have been lost (`half`,
  `blind`, `raced`) and a second fault has happened: there every property says nothing, until the
  user sets everything anew.
* Life cycle: two commands give every pair that may overlap, three or four
  processes let an orphan, a child and its successor exist together, with one id
  to spare for each command (the guards on `Unused` are that bound).  States after
  `overwritten` are cut (`NothingForgotten`), as three of the four properties say nothing about
  them; the theorems have no such cut.
* Requests: two in flight are what a limit checked before and charged after
  needs to be passed; the bound on how far is proved for any number.  Two windows let a
  request begin in one and be charged in the other.

### Fairness

* `CircuitBreaker!Fairness`: the executor runs a task that can run (WF per
  group of steps); requests keep arriving and reach this provider (SF of
  `AllowRead`, which alternates with `NotNeeded`); upstream calls end, because the
  forwarder limits them when failover is on, the only case in which the
  breaker decides anything; time passes.  Some clients stay until they are answered (those not in
  `Disconnecting`); if every request for ever went away at its first await, nothing would ever
  happen.  No fairness for `Cancel`, `Reset`, `UpdateConfig`.
* `Forwarder!Fairness`: the executor runs requests that have begun and spawned
  tasks.  An upstream is only assumed to answer or to end its body when
  `timed`: the code sets its limits to zero with failover off
  (`handler_context.rs:186`), and then waits without limit.  The limits are
  assumed not to have been configured as zero, and a body that keeps arriving to
  be finite.
* `SystemProxy!Fairness`: commands of the operating system return, and a user
  whose network is gone starts the application again (`Launch`).
* `GatewayLifecycle!Fairness`: awaits are answered, the operating system runs the
  core processes and delivers their exits, and somebody starts the application again.  None for
  `Dies`, `Crash`, `Command`.
* `GatewayRequest!Fairness`: the gateway's code runs, its timers fire, and the core
  gateway, a local process, answers.  None for `RouterAnswers`: the router model may
  stay silent, and the gateway's own timer has to end the wait.  None for `Custom`: the user's
  script is awaited without a time limit (`claude-code-router-plugin.ts:123`), and one that never
  returns holds its request for ever; `EveryRequestAnswered` is about the requests that are
  not for ever with the script.
* `Takeover` and `InferenceRouter` state no fairness: their properties are
  safety.  `lifecycle_safety` and `request_limits` check safety alone.
* `CHECK_DEADLOCK FALSE` where the system may stop: all requests answered and no
  window left, or (in the life cycle) every process id in use and all commands idle, which
  is the bound of the instance.

### Where the code does not keep what it says

`takeover_lost` shows one such place: `stop_with_restore` deletes all backups
without the locks, after restoring under them; an enable in between has just
put the user's only copy into the backup (`services/proxy.rs:1105`; the comments at
686 and 1564 keep the backup until the restore has succeeded).

Others were met while modelling.  They are in the models, and no run asks
for their absence; the properties are stated around them:

* The comments say that an open breaker goes half-open when its time-out has passed
  (`circuit_breaker.rs:130`, `provider_router.rs:126`).  `record_failure` runs in the future of the request
  (`forwarder.rs:993`), and `transition_to_open` awaits a lock between publishing `Open` (`:360`) and
  stamping it (`:361`).  A client that disconnects there leaves a breaker that is open with no
  stamp (or, after an earlier opening, an old one: then it is tried again at once).  With no
  stamp the time-out never passes: the breaker stays open until it is reset by hand.
* A restore of the system's proxy cut between the two commands of a setting that the user had off leaves
  it on (`system-proxy.ts:410`): `networksetup -setwebproxy` switches it on, and the `-setwebproxystate`
  that would have switched it off never runs.  When no other setting is managed any more, the next start takes the
  settings for the user's own and drops the snapshot.  If the address stored there was the
  application's own, of an earlier takeover, the network then points at a proxy that is gone.
* `routing.md:27-31` grants the attempts of a fallback mode without exception.  A request without
  a body gets one attempt in every mode (`gateway/service.ts:2070`), one whose body is not JSON gets
  one when it would go from model to model (`:2091`), and retries stop at 9999 (`:2075`).
* `routing.md:12` says that a known model selector in the request is used directly.  The
  custom script is asked first and may replace it (`claude-code-router-plugin.ts:60`), and after it the
  router model may (`:76`).
* The failover command, and the command that saves a configuration row, write a row they read before,
  without the lock: an `enabled` flag set in between is undone (`commands/failover.rs:88`,
  `commands/proxy.rs:131`).
* A request admitted while the breaker was closed may reopen it under a probe
  in flight; the next half-open transition zeroes the permit counter (`circuit_breaker.rs:374`).
* A client that disconnects during a probe takes the permit along (`forwarder.rs:418`).
* Disabling one application can stop the server that an enable of another relies on
  (`services/proxy.rs:777`).
* `final_response` is the last attempt's, `chosen_model` the best one's (`inference.py:48`).
* The four causes in `SystemProxy!lossCause` and the five in `GatewayLifecycle!mishaps`.
* A failed attempt that is not the last blames the first credential of the chain
  (`gateway/service.ts:3012`).

## 4. Proofs

`CircuitBreakerProofs` proves, for every finite set of requests, every set of
configurations and every word size that can count the requests
(`TasksAssumption`, `BypassingAssumption`, `ConfigsAssumption`,
`WordAssumption`: `Cardinality(Tasks) + 1 < Word`, true of 2^32):

* `TypeInvariant`: `TypeOK`, one step per action; the arithmetic is in
  `CounterTypes`, the change of label in `GotoType`.
* `PermitAccounting` and `SingleProbe`, from one inductive invariant
  `AccountingInv == TypeOK /\ PermitHeld /\ Accounting`.  Neither property is
  inductive alone: that a release lowers the counter by one needs the releasing
  request to hold a permit (`PermitHeld`: a permit is held from admission to
  release and nowhere else); that `fetch_add` does not wrap needs the counter to be
  bounded, which the exact count and the single probe give together
  (at most one holder or leak, plus the requests about to subtract).  The
  steps are grouped by what they do to the accounts: `ControlStep` (nothing),
  `HalfOpenStep` (zeroes), `ProbeAddStep`, `ProbeSubStep`, `OutcomeStep`,
  `ReleaseStep`, `CancelStep`.
* `NoReturnToHalfOpen`: the action property `ClosedNeverHalfOpens`, directly from the
  re-check under the lock in `transition_to_half_open`.
* `OpeningStamped`: `EveryOpeningStamped`, strengthened by `ClockChecked`
  (whoever is about to go half-open has read a stamp).  With requests dropped at every await,
  the only breaker that is open with neither a stamp nor somebody about to write one is one
  whose request was dropped at exactly that await (`unstamped`).

`ForwarderProofs` proves every invariant of the run `forwarder_failover`, for every
finite set of requests and providers, every queue without repetitions, every
`max_retries` and every set of errors the classification can meet
(`RequestsAssumption`, `QueueAssumption`, `AnthropicAssumption`,
`MaxRetriesAssumption`, `ErrorsAssumption`):

* `TypeInvariant`: `TypeOK`, by `TypeInv`, whose part `JobsType` adds that a
  request trying a provider has one, that an idle one has tried none, and that
  no request has made more attempts than it may.  The bounds on `active` come
  from `ConnectionsExact`.
* `PermitsComeBack`: `PermitsReturned` is inductive over the types.  The step that
  matters is that `index` moves on only where the permit has been returned, so
  that "its provider" is the one the permit was taken from.
* `FailoverGoesOn` and `ClientErrorsSpared`, from `JudgedInv`: what is known of the
  last error at each point where it decides something (retry, neutral result,
  blame, failure).  The two properties look at two of those points, and the
  others are how a request gets there.
* `OneSwitchAtATime`: `SwitchesNotDoubled` is inductive: the test and the mark are
  one step under the lock of `pending_switches`, and the mark goes with the task.
* `ConnectionsExact`: `ConnectionsCounted` needs `DropsOver`: a guard's decrement
  is spawned once, by a request that is over, so it is not among the guards alive.
* `SettledOnce`: `AttemptsSettledOnce` says nothing of a request in the middle of an
  attempt; `BalancedInv` does: one result is owed while a provider is being
  tried, plus one for each task that will record a success, and there is such a
  task only after a success.

`GatewayLifecycleProofs`, for every set of callers and every set of processes,
with no bound on them (`CallersAssumption`, `NoneAssumption`, `MaxFaultsAssumption`):

* `TypeCorrect`: one lemma per action over the effects (`ExitsEffect`, `StopBeginsEffect`, ...)
  of a step on `Alive` and `Running`.
* `OneCore`: `OneCorePerRun`.  `StepShape` sorts the steps into five shapes by what they do to the
  cores that run (the child is stopped, the run ends, a spawn, one is lost, an exit is
  heard); the invariant is inductive over the shapes.
* `NoCoreIsLost`: `NoStrayCore`, by `MarkerInv`.  That a running core is the child or the one
  in the marker is not inductive: a start under way may overwrite the marker, so `Marked` adds what
  each start knows (at `previous` it looks at the very process the marker names; past it,
  the marker names no orphan), and `Configured` that only a service with a configuration
  removes markers of its own cores.
* `SupervisorImplemented`: for one caller, `Spec => OneAtATime`, the refinement of `CoreSupervisor`
  (`own` is the running core of this run, `left` those of earlier ones).  `AloneInv` says that a
  command past its stop has no child; each shape of step then maps to an abstract step or a
  stutter.

* `StatusIsTrue`: `StatusTellsCore`, by `StatusInv`.  The property speaks of moments when no
  command is under way; `StatusTrue` says what is wrong in the meantime and who will put it right: a
  status of running without a child has a stop under way, one with a child that was
  told to stop has a start that is about to replace it.  The only process the status may speak for
  that does not run is one whose exit event has not arrived.

`TakeoverProofs`, for every set of applications, callers, ports, providers, commands and faults
(the assumptions of `Takeover` say that these are distinct from one another and from `User`,
`Clean` and `None`, and that `Order` names no application twice):

* `TypeCorrect`, `BackupIsNoTakeover`, `UserConfigSurvives`, `TakeoverCanBeUndone` (`TakeoverHasBackup`,
  which no run checks by itself, as `KeepsCustody` implies it): from one
  inductive invariant `IInv`.  Of its parts, `Locking` says that whoever is at a label
  between taking and returning the lock of an application holds it, so that no other process
  is there; `Knowledge` what the holder has made sure of (a backup exists before the file is taken over,
  the file is restored before the backup is deleted, `switched` is set before a
  provider's file is written); `Files` what file and backup can be.  `Restoring` is about
  the operations that delete without the lock, a stop and a recovery: an application they have
  restored is not taken over as long as nobody has got its lock since, which is when
  `exposed` would be set.  `MoveControl` and `Touches` reduce a step to the one process that moves and the one
  application whose files it touches, so each action is looked at once.
* `DisabledOnlyWhenRestored`: the action property `NeverDisabledWhileTakenOver`, from `IInv` at the two
  places that clear the flag; `EnabledStays` for all the others.
* `CustodyImplemented`: `Spec => KeepsCustody`, the refinement of `Custody`.  `PlaceIs` and `PlaceWillBe` reduce
  the mapping to what it is in a state of `IInv`, where nothing is lost; `ProperStep` turns
  a change of one file's place into the abstract action of that name; then each action that
  writes a file, a backup or the history is one lemma's case (`TakingKeeps`, `GivingBackKeeps`,
  `SwitchingKeeps`, ...), each for Claude, Codex and Gemini.  That nobody else moves a file under a switch
  comes from `Locking`: whoever moves a file holds the lock, or the file is exposed.  The deletion
  of all backups is `Forget` of those that had one.  The refinement asks more of `Knowledge` than the invariants do: a hot switch under way has a backup
  to rewrite, and a normal one has a file that is not taken over and no backup, up to the write
  (`hs_current`, `hs_backup`, `sw_live`).

`GatewayRequestProofs`, for every finite set of requests and every set of models, rules, credentials, limits,
costs and fallback lists (`RequestsAssumption`, ..., `CredentialsAssumption`: no credential bears
one of the two names the model uses for "the core alone" and "nobody"):

* `KeyLimits`, `AnswersCounted`, `RouteSurvivesRouter`, `FallbackFollowsTable`, `TypeCorrect`: from
  `IInv`, which has two parts about counters (`KeyLimitsHold` itself, and `Counted`: a
  credential's counter is the number of answers recorded as its own in this window) and one about
  each request (`RequestsOK`: what is left to try, together with what has been
  tried, is the plan that its route and its fallback give).  `ChainLists` shows that the
  plan of a chain of models has each target once, the first one first; `FallbackAsEntitled`
  is then read off the plan of a request that is over: its length is what the request is
  `Entitled` to, which is stated without the list, from its kind, mode and targets.  That a total over requests or credentials
  changes by one addend when one of them moves is `SumPick`, `SumRemove`, `SumSame`.
* `Overshoot`: `OvershootBounded`, from `ChargesInv`: what a credential has been charged plus the
  requests waiting with it in their chain is at most its limit plus the other requests.  A request
  joins the waiting only after it found the credential below its limit, and leaves the
  waiting when it charges it.

`FoldTheorems` has what these proofs need of the community modules' folds.  They are defined by `CHOOSE` over
recursive functions; `SolutionExists` and `SolutionsAgree` show that there is such a function and only
one, and the other lemmas follow for `SumFunctionOnSet`, `Max` and a least element of an order.  `SubsetInduction`,
on which all of them rest, is induction over the subsets of a finite set for a
*set* of subsets, not for a predicate: it needs no operator as a parameter.

`InferenceRouterProofs`, for every set of models, chain and number of answers after which
a run escalates:

* `BestIsChosen`: `ChosenIsBest`, from `RunInv`: among the attempts of a run there is a
  first one that no other is better than.  `AppendHasBest` shows that one more attempt leaves
  such an attempt, so the choice of `run_with_verifier` always has a candidate.
* `NothingTriedIsForgotten`: `AttemptsRemembered`, from `MemoryInv`: there is an increasing
  map from the attempts to the observations that record them.  An attempt extends the map by the
  last observation; what the host observes in between only lengthens the memory.
* `LearnedComesFirst` and `TypeCorrect`: the action property `MemoryOutranksConfiguration` and
  `TypeOK` say that `route` finds a best model among those it knows, which takes an argument:
  it compares averages (as fractions, by cross-multiplication), then recency.  `BestIsKnown` shows
  that this is a total, transitive order, and that a finite set that is not empty has a
  first element in it; without that, the choice would be of nothing.

`SystemProxyProofs`, for every number of network services, set of ports and addresses, and number of
faults (`ServicesAssumption`, `ValuesAssumption`, `UserSettingsAssumption`, `MaxFaultsAssumption`):

* `TypeCorrect`: `TypeOK` with `Shape`: past its first step an operation has a snapshot in hand,
  only an enable captures, applies or rolls back, and no operation outlives the application.
  `Armed`: a setting that is half written has an address stored.
* `CrashIsSurvived`: `SettingsSurviveCrash`.  The property looks at the file and the settings; the
  invariant `IInv` says in addition what each operation under way has read or written so far.
  `HttpInv` (while nothing worse than `cut` has happened): the HTTP settings are the user's or the application's;
  a check has found nothing managed so far; an undo has given back what it has passed, and has the user's
  address stored where it is half through, if the user had one on (`HeldIsUsers`); a
  capture has read what is set; an apply has its snapshot in the file and in memory; and an
  enable is alone.  `FullInv` (while nothing has happened that may cost a setting) says the same of all
  settings, the SOCKS proxy included: an apply past its first command, and an undo
  that is cut, have left an HTTP setting that shows that the settings are not the user's
  (`CutLeavesTrace`).  A setting that `Flickers` is the one exception in both: it is one only, the one its
  task is at, and the command that follows puts it right (`UndoSettles`).  `WriteOrderFacts` and its like are about the orders of the commands: each setting
  is visited, and an apply begins with an HTTP proxy.
* `StatusIsTrue`: `StatusTellsSettings`, from `IInv` and `SeenInv`.  `Told`: a status that is wrong has
  an operation `Underway` that will set it, or the application is about to quit.  `Overtakes`: an
  operation in the second slot takes nothing over, and reports only to an application that is quitting; this is
  what keeps a restore that has outlived its time limit from turning a true status into a false one.
  `Aimed`: an apply has pointed all the HTTP settings it has passed at the address the proxy
  listens at now, and has that address stored in the one it is half through.  `Turn` says what one command of an operation may do to the status, so that the
  four kinds of commands are looked at together.

So every invariant and every action property of the passing runs is proved.  Only model-checked are the
six liveness properties (`OpenEventuallyRetried`, `ProbeEventuallyAdmitted`,
`FailoverRequestsSettle`, `NetworkComesBack`, `OrphanReclaimed`, `EveryRequestAnswered`), since
the prover has no rules for fairness over `ENABLED`, and the violation, which is a single behaviour.

## 5. Not modelled, and why

* Payload transformations (protocol adapters, rectifiers, optimisers, parsing):
  functions without state; where their outcome decides the control, the model
  keeps the outcome (`Repair` in `Forwarder`).
* SQL, migrations, files: each access is an atomic, lasting step.
* The window, forms, tray menu, usage statistics, skills, prompts: they read, or write one
  row.
* Batch experiments, baselines, trained routers, the sandbox verifier: no
  state between steps, or statistical models.
* The capture proxy's TLS interception and certificates, and its branch for Windows
  (registry and WinHTTP).
* The renderer, the launchers of command-line clients, the log and usage stores and the
  examples of claude-code-router, which are most of its lines: they
  display, configure and record, and no step of them meets the modelled state except through the
  commands of `ipc.ts` and `main.ts`.
* The ACRouter inside cc-switch (`cc/proxy/acrouter.rs`): the same control as
  the gateway's, written a second time.
* Synchronisation (`cc/services/*sync*`) and the online routing agent, which share no state with the rest.

## 6. Plan

Done: the breaker, the takeover, the forwarder, the inference loop, the system proxy, the
life cycle and the requests of the gateway; proofs of all their invariants.  Next, in this order:

1. Safety lemmas on the way to the liveness properties: that no action of a process is
   disabled for ever by another (who holds a lock can go on; a wait has somebody to end it).
2. `AutoSync`: the debounced worker, its suppression guard and the sync lock.
3. The Windows branch of the system proxy, whose restore is one command.
