-------------------------- MODULE InferenceRouter --------------------------
(***************************************************************************)
(* The workflow-facing ACRouter                                            *)
(* (src/src/acrouter_repro/inference.py): a router object with a memory of *)
(* scores, the model it advises for a task (route), and the loop that      *)
(* tries the cheap models, verifies each answer and escalates              *)
(* (run_with_verifier).                                                    *)
(*                                                                         *)
(* One run is in progress at a time.  The model call and the verifier are  *)
(* the host's: while one of them runs, the host may also report an         *)
(* observation of its own or ask for a route, and either may raise.        *)
(*                                                                         *)
(* A score is an integer, One standing for 1.0; a task is its dimension; a *)
(* response is the position of the attempt that produced it.               *)
(***************************************************************************)
EXTENDS Integers, Sequences, FiniteSets, SequencesExt, Functions

CONSTANTS
    Dimensions,
    Models,             \* every model the host may report on
    CandidateModels,
    CheapChain,         \* the models tried in order
    EscalateTo,
    K,                  \* applicable cheap answers needed to escalate
    DimensionMap,       \* the model configured for some dimensions
    DefaultModel,
    Scores, One,
    None,
    MaxObservations     \* bound: length of the memory

\* ACRouter._validate; an empty chain is replaced by the default one.
ASSUME ValidateAssumption ==
    /\ CandidateModels \subseteq Models
    /\ CheapChain \in Seq(CandidateModels) /\ CheapChain # <<>>
    /\ EscalateTo \in CandidateModels /\ DefaultModel \in CandidateModels
    /\ K \in Nat
ASSUME MapAssumption ==
    /\ DOMAIN DimensionMap \subseteq Dimensions
    /\ Range(DimensionMap) \subseteq Models
ASSUME ScoresAssumption ==
    /\ Scores \subseteq Int /\ {0, One} \subseteq Scores
    /\ None \notin Int /\ None \notin Models
ASSUME MaxObservationsAssumption == MaxObservations \in Nat

\* What a verifier says, after _normalize_feedback.
Feedback == [resolved : BOOLEAN, apply_ok : BOOLEAN, score : Scores \cup {None}]
Attempt == [model : Models, feedback : Feedback]
Observation == [dimension : Dimensions, model : Models, score : Scores]
Decision == [dimension : Dimensions, chosen : Models, response : Nat,
             escalated : BOOLEAN, reason : {"resolved_in_cheap_chain",
             "escalated", "cheap_chain_exhausted"}]
Route == [dimension : Dimensions, chosen : Models,
          reason : {"memory", "dimension_map", "default"}]

VARIABLES
    memory,     \* every observation, in the order it was made
    task,       \* the dimension of the run in progress, or None
    attempts,   \* those of the run in progress, or of the last one
    decision,   \* what the last run returned, or None
    routed      \* what route last returned, or None

vars == <<memory, task, attempts, decision, routed>>

Init ==
    /\ memory = <<>>
    /\ task = None
    /\ attempts = <<>>
    /\ decision = None
    /\ routed = None

-----------------------------------------------------------------------------
(* observe and route *)

\* MUTANT of ScoreOf: a missing score is remembered as such.
ScoreOfAsGiven(f) == f.score

\* observe: without a score, what counts is whether the task was resolved.
ScoreOf(f) == IF f.score # None THEN f.score ELSE IF f.resolved THEN One ELSE 0

\* MUTANT of Remember: a model's new score replaces its old ones.
RememberLatest(d, m, f) ==
    /\ Len(memory) < MaxObservations
    /\ memory' = Append(SelectSeq(memory, LAMBDA o : o.dimension # d \/ o.model # m),
                        [dimension |-> d, model |-> m, score |-> ScoreOf(f)])

Remember(d, m, f) ==
    /\ Len(memory) < MaxObservations
    /\ memory' = Append(memory, [dimension |-> d, model |-> m, score |-> ScoreOf(f)])

Of(d, m) == {i \in DOMAIN memory : memory[i].dimension = d /\ memory[i].model = m}
Known(d) == {memory[i].model : i \in {j \in DOMAIN memory : memory[j].dimension = d}}
Total(d, m) == FoldFunctionOnSet(+, 0, [i \in DOMAIN memory |-> memory[i].score], Of(d, m))
Count(d, m) == Cardinality(Of(d, m))

\* m's average score is at least n's.
AsGood(d, m, n) == Total(d, m) * Count(d, n) >= Total(d, n) * Count(d, m)

\* m entered the dictionary of d before n.
Earlier(d, m, n) == \E i \in Of(d, m) : \A j \in Of(d, n) : i < j

\* _best_memory_model: max keeps the first of equals.
BestInMemory(d) ==
    CHOOSE m \in Known(d) : \A n \in Known(d) \ {m} :
        AsGood(d, m, n) /\ (AsGood(d, n, m) => Earlier(d, m, n))

Observe(d, m, f) ==
    /\ Remember(d, m, f)
    /\ UNCHANGED <<task, attempts, decision, routed>>

Routed(d, m, reason) == routed' = [dimension |-> d, chosen |-> m, reason |-> reason]

\* MUTANT of Advise: what is configured goes before what was learned.
AdviseConfigured(d) ==
    /\ \/ d \in DOMAIN DimensionMap /\ Routed(d, DimensionMap[d], "dimension_map")
       \/ /\ d \notin DOMAIN DimensionMap /\ Known(d) # {}
          /\ Routed(d, BestInMemory(d), "memory")
       \/ /\ d \notin DOMAIN DimensionMap /\ Known(d) = {}
          /\ Routed(d, DefaultModel, "default")
    /\ UNCHANGED <<memory, task, attempts, decision>>

\* route: what was learned, else what is configured, else the default.
Advise(d) ==
    /\ \/ Known(d) # {} /\ Routed(d, BestInMemory(d), "memory")
       \/ /\ Known(d) = {} /\ d \in DOMAIN DimensionMap
          /\ Routed(d, DimensionMap[d], "dimension_map")
       \/ /\ Known(d) = {} /\ d \notin DOMAIN DimensionMap
          /\ Routed(d, DefaultModel, "default")
    /\ UNCHANGED <<memory, task, attempts, decision>>

-----------------------------------------------------------------------------
(* run_with_verifier *)

Start(d) ==
    /\ task = None
    /\ task' = d
    /\ attempts' = <<>>
    /\ decision' = None
    /\ UNCHANGED <<memory, routed>>

Where(P(_), a) == {i \in DOMAIN a : P(a[i])}
Resolved(attempt) == attempt.feedback.resolved
Applied(attempt) == attempt.feedback.apply_ok

Escalates(a) ==
    /\ Cardinality(Where(Applied, a)) >= K
    /\ EscalateTo \notin {a[i].model : i \in DOMAIN a}

\* The key of max: resolved, then the score (0 if there is none), then applied.
Points(attempt) == IF attempt.feedback.score = None THEN 0 ELSE attempt.feedback.score
NoWorse(x, y) ==
    \/ Resolved(x) /\ ~ Resolved(y)
    \/ /\ Resolved(x) = Resolved(y)
       /\ \/ Points(x) > Points(y)
          \/ Points(x) = Points(y) /\ (Applied(x) \/ ~ Applied(y))

\* MUTANT of Best: the score alone decides.
BestByScore(a) ==
    CHOOSE i \in DOMAIN a : \A j \in DOMAIN a : Points(a[i]) >= Points(a[j])

\* The first of the attempts no other is better than.
Best(a) ==
    CHOOSE i \in DOMAIN a : \A j \in DOMAIN a :
        NoWorse(a[i], a[j]) /\ (NoWorse(a[j], a[i]) => i <= j)

\* The decision; its final_response is that of the last attempt.
Return(a, chosen, reason) ==
    /\ task' = None
    /\ decision' = [dimension |-> task, chosen |-> a[chosen].model,
                    response |-> Len(a), escalated |-> reason = "escalated",
                    reason |-> reason]

Continue == UNCHANGED <<task, decision>>

\* _attempt, then observe.
Try(m, f) ==
    /\ Remember(task, m, f)
    /\ attempts' = Append(attempts, [model |-> m, feedback |-> f])
    /\ UNCHANGED routed

TryCheap(f) ==
    /\ task # None /\ Len(attempts) < Len(CheapChain)
    /\ Try(CheapChain[Len(attempts) + 1], f)
    /\ \/ f.resolved /\ Return(attempts', Len(attempts'), "resolved_in_cheap_chain")
       \/ /\ ~ f.resolved
          /\ Len(attempts') < Len(CheapChain) \/ Escalates(attempts')
          /\ Continue
       \/ /\ ~ f.resolved
          /\ Len(attempts') = Len(CheapChain) /\ ~ Escalates(attempts')
          /\ Return(attempts', Best(attempts'), "cheap_chain_exhausted")

TryEscalate(f) ==
    /\ task # None /\ Len(attempts) = Len(CheapChain)
    /\ Try(EscalateTo, f)
    /\ Return(attempts', Best(attempts'), "escalated")

\* The model call or the verifier raises: the run is lost, not what it learned.
Raise ==
    /\ task # None /\ task' = None
    /\ UNCHANGED <<memory, attempts, decision, routed>>

-----------------------------------------------------------------------------
(* Specification *)

Next ==
    \/ \E d \in Dimensions : Start(d) \/ Advise(d)
    \/ \E f \in Feedback :
          \/ TryCheap(f) \/ TryEscalate(f)
          \/ \E d \in Dimensions, m \in Models : Observe(d, m, f)
    \/ Raise

Spec == Init /\ [][Next]_vars

-----------------------------------------------------------------------------
(* Properties *)

TypeOK ==
    /\ memory \in Seq(Observation)
    /\ task \in Dimensions \cup {None}
    /\ attempts \in Seq(Attempt)
    /\ decision \in Decision \cup {None}
    /\ routed \in Route \cup {None}

\* No model that was tried has a better record, in this run, than the one
\* chosen: not a resolved answer where it has none, not a better score.
ChosenIsBest ==
    decision # None =>
        \E i \in DOMAIN attempts :
            /\ attempts[i].model = decision.chosen
            /\ \A j \in DOMAIN attempts : NoWorse(attempts[i], attempts[j])

\* Every attempt of a run is in the memory, in its dimension and in the order
\* made, whatever the host reported in between and however the run ended.
AttemptsRemembered ==
    LET mine == [i \in DOMAIN attempts |-> <<attempts[i].model, ScoreOf(attempts[i].feedback)>>]
        all == [i \in DOMAIN memory |-> <<memory[i].model, memory[i].score>>]
    IN  \E pick \in [DOMAIN attempts -> DOMAIN memory] :
            /\ \A i, j \in DOMAIN attempts : i < j => pick[i] < pick[j]
            /\ \A i \in DOMAIN attempts :
                 /\ all[pick[i]] = mine[i]
                 /\ task # None => memory[pick[i]].dimension = task

\* Once a dimension has been observed, its configured and its default model are
\* never advised again unless they were observed themselves.
MemoryOutranksConfiguration ==
    [][routed' # None /\ routed' # routed /\ Known(routed'.dimension) # {}
           => routed'.chosen \in Known(routed'.dimension)]_vars
=============================================================================
