----------------------- MODULE InferenceRouterProofs -----------------------
(* Proofs about InferenceRouter, for every set of models, chain, mapping and *)
(* set of scores.                                                            *)
EXTENDS InferenceRouter, FoldTheorems

-----------------------------------------------------------------------------
(* The order in which attempts are compared *)

LEMMA PointsType ==
    ASSUME NEW x \in Attempt
    PROVE  Points(x) \in Int
BY ScoresAssumption DEF Attempt, Feedback, Points

LEMMA NoWorseTotal ==
    ASSUME NEW x \in Attempt, NEW y \in Attempt
    PROVE  NoWorse(x, y) \/ NoWorse(y, x)
<1>1. Points(x) \in Int /\ Points(y) \in Int  BY PointsType
<1>2. Resolved(x) \in BOOLEAN /\ Resolved(y) \in BOOLEAN
  BY DEF Attempt, Feedback, Resolved
<1>3. QED  BY <1>1, <1>2 DEF NoWorse

LEMMA NoWorseReflexive ==
    ASSUME NEW x \in Attempt
    PROVE  NoWorse(x, x)
BY DEF NoWorse

LEMMA NoWorseTransitive ==
    ASSUME NEW x \in Attempt, NEW y \in Attempt, NEW z \in Attempt,
           NoWorse(x, y), NoWorse(y, z)
    PROVE  NoWorse(x, z)
<1>1. Points(x) \in Int /\ Points(y) \in Int /\ Points(z) \in Int  BY PointsType
<1>2. Resolved(x) \in BOOLEAN /\ Resolved(y) \in BOOLEAN /\ Resolved(z) \in BOOLEAN
  BY DEF Attempt, Feedback, Resolved
<1>3. QED  BY <1>1, <1>2 DEF NoWorse

\* The first of the attempts that no other is better than.
IsBest(a, i) == /\ i \in DOMAIN a
                /\ \A j \in DOMAIN a : NoWorse(a[i], a[j]) /\ (NoWorse(a[j], a[i]) => i <= j)

\* One more attempt leaves a best one: the old one, or the new.
LEMMA AppendHasBest ==
    ASSUME NEW a \in Seq(Attempt), NEW x \in Attempt,
           a = <<>> \/ \E i : IsBest(a, i)
    PROVE  \E i : IsBest(Append(a, x), i)
<1> DEFINE b == Append(a, x)
           n == Len(a) + 1
<1>1. /\ Len(a) \in Nat /\ DOMAIN a = 1..Len(a) /\ DOMAIN b = 1..n
      /\ b[n] = x /\ \A j \in 1..Len(a) : b[j] = a[j] /\ a[j] \in Attempt
  OBVIOUS
<1>2. CASE a = <<>>
  <2>1. DOMAIN b = {1} /\ b[1] = x  BY <1>2
  <2>2. IsBest(b, 1)  BY <2>1, NoWorseReflexive DEF IsBest
  <2>3. QED  BY <2>2
<1>3. ASSUME NEW i, IsBest(a, i) PROVE \E k : IsBest(b, k)
  <2>1. i \in 1..Len(a) /\ a[i] \in Attempt  BY <1>1, <1>3 DEF IsBest
  <2>2. CASE NoWorse(a[i], x)
    <3>1. IsBest(b, i)
      <4>1. \A j \in 1..Len(a) : NoWorse(b[i], b[j]) /\ (NoWorse(b[j], b[i]) => i <= j)
        BY <1>1, <1>3, <2>1 DEF IsBest
      <4>2. NoWorse(b[i], b[n]) /\ i <= n  BY <1>1, <2>1, <2>2
      <4>3. \A j \in 1..n : j \in 1..Len(a) \/ j = n  BY <1>1
      <4>4. i \in 1..n  BY <1>1, <2>1
      <4>5. QED  BY <1>1, <4>1, <4>2, <4>3, <4>4 DEF IsBest
    <3>2. QED  BY <3>1
  <2>3. CASE ~NoWorse(a[i], x)
    <3>1. NoWorse(x, a[i])  BY <2>1, <2>3, NoWorseTotal
    <3>2. ASSUME NEW j \in 1..Len(a) PROVE NoWorse(b[n], b[j]) /\ ~NoWorse(b[j], b[n])
      <4>1. NoWorse(a[i], a[j]) /\ a[j] \in Attempt  BY <1>1, <1>3 DEF IsBest
      <4>2. NoWorse(x, a[j])  BY <2>1, <3>1, <4>1, NoWorseTransitive
      <4>3. ~NoWorse(a[j], x)  BY <2>1, <2>3, <4>1, NoWorseTransitive
      <4>4. QED  BY <1>1, <4>2, <4>3
    <3>3. NoWorse(b[n], b[n])  BY <1>1, NoWorseReflexive
    <3>4. \A j \in 1..n : j \in 1..Len(a) \/ j = n  BY <1>1
    <3>5. IsBest(b, n)  BY <1>1, <3>2, <3>3, <3>4 DEF IsBest
    <3>6. QED  BY <3>5
  <2>4. QED  BY <2>2, <2>3
<1>4. QED  BY <1>2, <1>3

LEMMA BestIsBest ==
    ASSUME NEW a, \E i : IsBest(a, i)
    PROVE  IsBest(a, Best(a))
BY DEF IsBest, Best

-----------------------------------------------------------------------------
(* Runs *)

\* What is known of a run: until it ends, nothing it tried was resolved and
\* nothing is decided.  That some attempt is best is not a fact about finite
\* sequences here, but about runs: each attempt keeps it.
RunInv ==
    /\ attempts \in Seq(Attempt)
    /\ attempts = <<>> \/ \E i : IsBest(attempts, i)
    /\ task # None =>
          /\ decision = None
          /\ \A i \in DOMAIN attempts : ~Resolved(attempts[i])
    /\ ChosenIsBest

\* The decision is about an attempt no other is better than.
Chosen(a, i) == /\ i \in DOMAIN a
                /\ \A j \in DOMAIN a : NoWorse(a[i], a[j])

LEMMA ReturnChosen ==
    ASSUME NEW i, Chosen(attempts', i), NEW reason, Return(attempts', i, reason)
    PROVE  ChosenIsBest' /\ task' = None
BY DEF Chosen, Return, ChosenIsBest

LEMMA TryBest ==
    ASSUME RunInv, NEW m \in Models, NEW f \in Feedback, Try(m, f)
    PROVE  /\ attempts' \in Seq(Attempt)
           /\ \E i : IsBest(attempts', i)
           /\ Chosen(attempts', Best(attempts'))
<1> DEFINE x == [model |-> m, feedback |-> f]
<1>1. x \in Attempt  BY DEF Attempt
<1>2. attempts' = Append(attempts, x)  BY DEF Try
<1>3. \E i : IsBest(attempts', i)  BY <1>1, <1>2, AppendHasBest DEF RunInv
<1>4. IsBest(attempts', Best(attempts'))  BY <1>3, BestIsBest
<1>5. attempts' \in Seq(Attempt)  BY <1>1, <1>2 DEF RunInv
<1>6. Chosen(attempts', Best(attempts'))  BY <1>4 DEF IsBest, Chosen
<1>7. QED  BY <1>3, <1>5, <1>6

LEMMA CheapChainType ==
    ASSUME attempts \in Seq(Attempt), Len(attempts) < Len(CheapChain)
    PROVE  CheapChain[Len(attempts) + 1] \in Models
BY ValidateAssumption

LEMMA TryCheapRun ==
    ASSUME RunInv, NEW f \in Feedback, TryCheap(f)
    PROVE  RunInv'
<1> DEFINE m == CheapChain[Len(attempts) + 1]
           x == [model |-> m, feedback |-> f]
           n == Len(attempts) + 1
<1>1. m \in Models  BY CheapChainType DEF RunInv, TryCheap
<1>2. Try(m, f)  BY DEF TryCheap
<1>3. /\ attempts' \in Seq(Attempt) /\ \E i : IsBest(attempts', i)
      /\ Chosen(attempts', Best(attempts'))
  BY <1>1, <1>2, TryBest
<1>4. /\ x \in Attempt /\ attempts' = Append(attempts, x)
      /\ Len(attempts) \in Nat /\ Len(attempts') = n /\ DOMAIN attempts' = 1..n
      /\ attempts'[n] = x /\ \A j \in 1..n : j # n => attempts'[j] = attempts[j]
      /\ DOMAIN attempts = 1..Len(attempts)
  BY <1>1, <1>2 DEF Try, Attempt, RunInv
<1>5. \A j \in 1..n : j # n => ~Resolved(attempts'[j])
  BY <1>4 DEF RunInv, TryCheap
<1>6. CASE f.resolved /\ Return(attempts', Len(attempts'), "resolved_in_cheap_chain")
  <2>1. Resolved(attempts'[n])  BY <1>4, <1>6 DEF Resolved
  <2>2. NoWorse(attempts'[n], attempts'[n])  BY <1>4, NoWorseReflexive
  <2>3. \A j \in 1..n : NoWorse(attempts'[n], attempts'[j])
    BY <1>5, <2>1, <2>2 DEF NoWorse
  <2>4. Chosen(attempts', Len(attempts'))  BY <1>4, <2>3 DEF Chosen
  <2>5. ChosenIsBest' /\ task' = None  BY <1>6, <2>4, ReturnChosen
  <2>6. QED  BY <1>3, <2>5 DEF RunInv
<1>7. CASE ~f.resolved /\ Continue
  <2>1. \A j \in 1..n : ~Resolved(attempts'[j])  BY <1>4, <1>5, <1>7 DEF Resolved
  <2>2. UNCHANGED decision /\ decision = None  BY <1>7 DEF Continue, RunInv, TryCheap
  <2>3. QED  BY <1>3, <1>4, <2>1, <2>2 DEF RunInv, ChosenIsBest
<1>8. CASE Return(attempts', Best(attempts'), "cheap_chain_exhausted")
  <2>1. ChosenIsBest' /\ task' = None  BY <1>3, <1>8, ReturnChosen
  <2>2. QED  BY <1>3, <2>1 DEF RunInv
<1>9. QED  BY <1>6, <1>7, <1>8 DEF TryCheap

LEMMA TryEscalateRun ==
    ASSUME RunInv, NEW f \in Feedback, TryEscalate(f)
    PROVE  RunInv'
<1>1. EscalateTo \in Models  BY ValidateAssumption
<1>2. /\ attempts' \in Seq(Attempt) /\ \E i : IsBest(attempts', i)
      /\ Chosen(attempts', Best(attempts'))
  BY <1>1, TryBest DEF TryEscalate
<1>3. ChosenIsBest' /\ task' = None  BY <1>2, ReturnChosen DEF TryEscalate
<1>4. QED  BY <1>2, <1>3 DEF RunInv

LEMMA RunStep == RunInv /\ [Next]_vars => RunInv'
<1> SUFFICES ASSUME RunInv, [Next]_vars PROVE RunInv'  OBVIOUS
<1>1. CASE UNCHANGED <<task, attempts, decision>>
  BY <1>1 DEF RunInv, ChosenIsBest
<1>2. ASSUME NEW d \in Dimensions, Start(d) PROVE RunInv'
  BY <1>2 DEF Start, RunInv, ChosenIsBest
<1>3. ASSUME NEW d \in Dimensions, Advise(d) PROVE RunInv'
  BY <1>1, <1>3 DEF Advise
<1>4. ASSUME NEW f \in Feedback, TryCheap(f) PROVE RunInv'  BY <1>4, TryCheapRun
<1>5. ASSUME NEW f \in Feedback, TryEscalate(f) PROVE RunInv'  BY <1>5, TryEscalateRun
<1>6. ASSUME NEW f \in Feedback, NEW d \in Dimensions, NEW m \in Models, Observe(d, m, f)
      PROVE  RunInv'
  BY <1>1, <1>6 DEF Observe
<1>7. CASE Raise  BY <1>7 DEF Raise, RunInv, ChosenIsBest
<1>8. CASE UNCHANGED vars  BY <1>1, <1>8 DEF vars
<1>9. QED  BY <1>2, <1>3, <1>4, <1>5, <1>6, <1>7, <1>8 DEF Next

LEMMA RunInit == Init => RunInv
BY DEF Init, RunInv, ChosenIsBest

\* run_with_verifier decides for the model of an attempt that no attempt of the
\* run is better than, whatever the chain, the scores and the number of
\* applicable answers that escalates (ChosenIsBest).
THEOREM BestIsChosen == Spec => []ChosenIsBest
<1>1. RunInv => ChosenIsBest  BY DEF RunInv
<1>2. QED  BY <1>1, RunInit, RunStep, PTL DEF Spec

-----------------------------------------------------------------------------
(* What is remembered *)

\* Attempt i is the observation at p.
Recorded(i, p) ==
    /\ memory[p].model = attempts[i].model
    /\ memory[p].score = ScoreOf(attempts[i].feedback)
    /\ task # None => memory[p].dimension = task

\* The observations that record the attempts, in their order.
Records(pick) ==
    /\ pick \in [DOMAIN attempts -> DOMAIN memory]
    /\ \A i, j \in DOMAIN attempts : i < j => pick[i] < pick[j]
    /\ \A i \in DOMAIN attempts : Recorded(i, pick[i])

MemoryInv ==
    /\ memory \in Seq(Observation)
    /\ attempts \in Seq(Attempt)
    /\ task \in Dimensions \cup {None}
    /\ \E pick : Records(pick)

LEMMA ScoreType ==
    ASSUME NEW f \in Feedback
    PROVE  ScoreOf(f) \in Scores
BY ScoresAssumption DEF Feedback, ScoreOf

\* An observation added at the end.
LEMMA RememberEffect ==
    ASSUME memory \in Seq(Observation), NEW d \in Dimensions, NEW m \in Models,
           NEW f \in Feedback, Remember(d, m, f)
    PROVE  /\ memory' \in Seq(Observation)
           /\ Len(memory) \in Nat /\ DOMAIN memory = 1..Len(memory)
           /\ DOMAIN memory' = 1..(Len(memory) + 1)
           /\ \A p \in DOMAIN memory : memory'[p] = memory[p]
           /\ memory'[Len(memory) + 1] = [dimension |-> d, model |-> m, score |-> ScoreOf(f)]
<1> DEFINE o == [dimension |-> d, model |-> m, score |-> ScoreOf(f)]
<1>1. o \in Observation  BY ScoreType DEF Observation
<1>2. memory' = Append(memory, o)  BY DEF Remember
<1>3. QED  BY <1>1, <1>2

LEMMA ObserveMemory ==
    ASSUME MemoryInv, NEW d \in Dimensions, NEW m \in Models, NEW f \in Feedback,
           Observe(d, m, f)
    PROVE  MemoryInv'
<1>1. PICK pick : Records(pick)  BY DEF MemoryInv
<1>2. /\ memory' \in Seq(Observation) /\ DOMAIN memory \subseteq DOMAIN memory'
      /\ \A p \in DOMAIN memory : memory'[p] = memory[p]
  <2>1. Remember(d, m, f)  BY DEF Observe
  <2>2. memory \in Seq(Observation)  BY DEF MemoryInv
  <2>3. \A p : p \in 1..Len(memory) => p \in 1..(Len(memory) + 1)
    BY <2>1, <2>2, RememberEffect
  <2>4. QED  BY <2>1, <2>2, <2>3, RememberEffect
<1>3. UNCHANGED <<attempts, task>>  BY DEF Observe
<1>4. \A i \in DOMAIN attempts : pick[i] \in DOMAIN memory  BY <1>1 DEF Records
<1>5. \A i \in DOMAIN attempts : Recorded(i, pick[i])'
  BY <1>1, <1>2, <1>3, <1>4 DEF Records, Recorded
<1>6. pick \in [DOMAIN attempts -> DOMAIN memory']  BY <1>1, <1>2 DEF Records
<1>7. Records(pick)'  BY <1>1, <1>3, <1>5, <1>6 DEF Records
<1>8. QED  BY <1>2, <1>3, <1>7 DEF MemoryInv

LEMMA TryMemory ==
    ASSUME MemoryInv, task # None, NEW m \in Models, NEW f \in Feedback, Try(m, f),
           task' \in {task, None}
    PROVE  MemoryInv'
<1> DEFINE x == [model |-> m, feedback |-> f]
           n == Len(attempts) + 1
           q == Len(memory) + 1
<1>1. PICK pick : Records(pick)  BY DEF MemoryInv
<1>2. task \in Dimensions  BY DEF MemoryInv
<1>3. /\ memory' \in Seq(Observation)
      /\ Len(memory) \in Nat /\ DOMAIN memory = 1..Len(memory) /\ DOMAIN memory' = 1..q
      /\ \A p \in DOMAIN memory : memory'[p] = memory[p]
      /\ memory'[q] = [dimension |-> task, model |-> m, score |-> ScoreOf(f)]
  BY <1>2, RememberEffect DEF MemoryInv, Try
<1>4. /\ attempts' \in Seq(Attempt) /\ Len(attempts) \in Nat
      /\ DOMAIN attempts = 1..Len(attempts) /\ DOMAIN attempts' = 1..n
      /\ \A i \in DOMAIN attempts : attempts'[i] = attempts[i]
      /\ attempts'[n] = x
  <2>1. x \in Attempt  BY DEF Attempt
  <2>2. attempts' = Append(attempts, x)  BY DEF Try
  <2>3. QED  BY <2>1, <2>2 DEF MemoryInv
<1>5. \E new : new = [i \in 1..n |-> IF i = n THEN q ELSE pick[i]]  OBVIOUS
<1>6. PICK new : new = [i \in 1..n |-> IF i = n THEN q ELSE pick[i]]  BY <1>5
<1>7. \A i \in 1..Len(attempts) : new[i] = pick[i] /\ pick[i] \in 1..Len(memory)
  <2>1. \A i \in 1..Len(attempts) : i \in 1..n /\ i # n  BY <1>4
  <2>2. \A i \in 1..Len(attempts) : new[i] = pick[i]  BY <1>6, <2>1, Zenon
  <2>3. pick \in [1..Len(attempts) -> 1..Len(memory)]  BY <1>1, <1>3, <1>4 DEF Records
  <2>4. QED  BY <2>2, <2>3
<1>8. new[n] = q  BY <1>4, <1>6
<1>9. \A i \in 1..n : i \in 1..Len(attempts) \/ i = n  BY <1>4
<1>10. new \in [DOMAIN attempts' -> DOMAIN memory']
  <2>1. \A i \in 1..n : new[i] \in 1..q  BY <1>3, <1>7, <1>8, <1>9
  <2>2. QED  BY <1>3, <1>4, <1>6, <2>1
<1>11. ASSUME NEW i \in 1..n, NEW j \in 1..n, i < j PROVE new[i] < new[j]
  <2>1. i \in 1..Len(attempts)  BY <1>4, <1>11
  <2>2. CASE j = n
    <3>1. new[i] \in 1..Len(memory)  BY <1>7, <2>1
    <3>2. QED  BY <1>3, <1>8, <2>2, <3>1
  <2>3. CASE j # n
    <3>1. j \in 1..Len(attempts)  BY <1>9, <2>3
    <3>2. pick[i] < pick[j]  BY <1>1, <1>4, <1>11, <2>1, <3>1 DEF Records
    <3>3. QED  BY <1>7, <2>1, <3>1, <3>2
  <2>4. QED  BY <2>2, <2>3
<1>12. ASSUME NEW i \in DOMAIN attempts' PROVE Recorded(i, new[i])'
  <2>1. CASE i \in 1..Len(attempts)
    <3>1. Recorded(i, pick[i])  BY <1>1, <1>4, <2>1 DEF Records
    <3>2. memory'[new[i]] = memory[pick[i]] /\ attempts'[i] = attempts[i]
      BY <1>3, <1>4, <1>7, <2>1
    <3>3. QED  BY <3>1, <3>2 DEF Recorded, ScoreOf
  <2>2. CASE i = n
    <3>1. /\ memory'[new[i]] = [dimension |-> task, model |-> m, score |-> ScoreOf(f)]
          /\ attempts'[i] = x
      BY <1>3, <1>4, <1>8, <2>2
    <3>2. QED  BY <3>1 DEF Recorded, ScoreOf
  <2>3. QED  BY <1>4, <1>9, <2>1, <2>2
<1>13. Records(new)'
  <2>1. \A i, j \in DOMAIN attempts' : i < j => new[i] < new[j]  BY <1>4, <1>11
  <2>2. QED  BY <1>10, <1>12, <2>1 DEF Records
<1>14. QED  BY <1>2, <1>3, <1>4, <1>13 DEF MemoryInv

LEMMA MemoryStep == MemoryInv /\ [Next]_vars => MemoryInv'
<1> SUFFICES ASSUME MemoryInv, [Next]_vars PROVE MemoryInv'  OBVIOUS
<1>1. CASE UNCHANGED <<memory, attempts>> /\ task' \in {task, None}
  <2>1. PICK pick : Records(pick)  BY DEF MemoryInv
  <2>2. Records(pick)'  BY <1>1, <2>1 DEF Records, Recorded
  <2>3. QED  BY <1>1, <2>2 DEF MemoryInv
<1>2. ASSUME NEW d \in Dimensions, Start(d) PROVE MemoryInv'
  <2>1. attempts' = <<>> /\ memory' = memory /\ task' \in Dimensions  BY <1>2 DEF Start
  <2>2. Records(<<>>)'  BY <2>1 DEF Records
  <2>3. QED  BY <2>1, <2>2 DEF MemoryInv
<1>3. ASSUME NEW d \in Dimensions, Advise(d) PROVE MemoryInv'
  BY <1>1, <1>3 DEF Advise
<1>4. ASSUME NEW f \in Feedback, TryCheap(f) PROVE MemoryInv'
  <2>1. CheapChain[Len(attempts) + 1] \in Models
    BY <1>4, CheapChainType DEF MemoryInv, TryCheap
  <2>2. task' \in {task, None}  BY <1>4 DEF TryCheap, Return, Continue
  <2>3. QED  BY <1>4, <2>1, <2>2, TryMemory DEF TryCheap
<1>5. ASSUME NEW f \in Feedback, TryEscalate(f) PROVE MemoryInv'
  <2>1. EscalateTo \in Models  BY ValidateAssumption
  <2>2. task' \in {task, None}  BY <1>5 DEF TryEscalate, Return
  <2>3. QED  BY <1>5, <2>1, <2>2, TryMemory DEF TryEscalate
<1>6. ASSUME NEW f \in Feedback, NEW d \in Dimensions, NEW m \in Models, Observe(d, m, f)
      PROVE  MemoryInv'
  BY <1>6, ObserveMemory
<1>7. CASE Raise  BY <1>1, <1>7 DEF Raise
<1>8. CASE UNCHANGED vars  BY <1>1, <1>8 DEF vars
<1>9. QED  BY <1>2, <1>3, <1>4, <1>5, <1>6, <1>7, <1>8 DEF Next

LEMMA MemoryInit == Init => MemoryInv
<1> SUFFICES ASSUME Init PROVE MemoryInv  OBVIOUS
<1>1. Records(<<>>)  BY DEF Init, Records
<1>2. QED  BY <1>1 DEF Init, MemoryInv

LEMMA MemoryImplies ==
    ASSUME MemoryInv
    PROVE  AttemptsRemembered
<1>1. PICK pick : Records(pick)  BY DEF MemoryInv
<1>2. \A i \in DOMAIN attempts : pick[i] \in DOMAIN memory  BY <1>1 DEF Records
<1>3. pick \in [DOMAIN attempts -> DOMAIN memory]  BY <1>1 DEF Records
<1>4. QED  BY <1>1, <1>2, <1>3 DEF Records, Recorded, AttemptsRemembered

\* However the host's reports cross a run and however the run ends, each of its
\* attempts is in the memory, in order (AttemptsRemembered).
THEOREM NothingTriedIsForgotten == Spec => []AttemptsRemembered
<1>1. MemoryInv => AttemptsRemembered  BY MemoryImplies
<1>2. QED  BY <1>1, MemoryInit, MemoryStep, PTL DEF Spec

-----------------------------------------------------------------------------
(* The best model in memory *)

\* The observations, one by one.
LEMMA MemoryTyped ==
    ASSUME memory \in Seq(Observation)
    PROVE  /\ Len(memory) \in Nat /\ DOMAIN memory = 1..Len(memory)
           /\ IsFiniteSet(DOMAIN memory)
           /\ \A i \in DOMAIN memory : memory[i].model \in Models /\ memory[i].score \in Int
<1>1. Len(memory) \in Nat /\ DOMAIN memory = 1..Len(memory)  OBVIOUS
<1>2. IsFiniteSet(1..Len(memory))  BY <1>1, FS_Interval
<1>3. ASSUME NEW i \in DOMAIN memory PROVE memory[i].model \in Models /\ memory[i].score \in Int
  <2>1. memory[i] \in Observation  OBVIOUS
  <2>2. QED  BY <2>1, ScoresAssumption DEF Observation
<1>4. QED  BY <1>1, <1>2, <1>3

LEMMA OfType ==
    ASSUME memory \in Seq(Observation), NEW d, NEW m \in Known(d)
    PROVE  /\ IsFiniteSet(Of(d, m)) /\ Of(d, m) # {} /\ Of(d, m) \subseteq Nat
           /\ Count(d, m) \in Nat /\ Count(d, m) > 0
           /\ Total(d, m) \in Int
<1>1. DOMAIN memory = 1..Len(memory) /\ Len(memory) \in Nat  BY MemoryTyped
<1>2. IsFiniteSet(DOMAIN memory)  BY MemoryTyped
<1>3. IsFiniteSet(Of(d, m)) /\ Of(d, m) \subseteq DOMAIN memory
  BY <1>2, FS_Subset DEF Of
<1>4. Of(d, m) # {}  BY DEF Of, Known
<1>5. Of(d, m) \subseteq Nat  BY <1>1, <1>3
<1>6. Count(d, m) \in Nat /\ Count(d, m) > 0
  <2>1. Cardinality(Of(d, m)) \in Nat  BY <1>3, FS_CardinalityType
  <2>2. Cardinality(Of(d, m)) # 0  BY <1>3, <1>4, FS_EmptySet
  <2>3. QED  BY <2>1, <2>2 DEF Count
<1>7. Total(d, m) \in Int
  <2> DEFINE score == [i \in DOMAIN memory |-> memory[i].score]
  <2>1. \A i \in Of(d, m) : score[i] \in Int  BY <1>3, MemoryTyped
  <2>2. Total(d, m) = SumFunctionOnSet(score, Of(d, m))
    BY Zenon DEF Total, SumFunctionOnSet
  <2> HIDE DEF score
  <2>3. SumFunctionOnSet(score, Of(d, m)) \in Int  BY <1>3, <2>1, SumPick
  <2>4. QED  BY <2>2, <2>3
<1>8. QED  BY <1>3, <1>4, <1>5, <1>6, <1>7

\* Averages are compared without division: the product of two comparisons, from
\* which the count in the middle is cancelled.
LEMMA QuotientTransitive ==
    ASSUME NEW a \in Int, NEW b \in Int, NEW c \in Int,
           NEW p \in Nat, NEW q \in Nat, NEW r \in Nat, p > 0, q > 0, r > 0,
           a * q >= b * p, b * r >= c * q
    PROVE  a * r >= c * p
<1>1. (a * q) * r >= (b * p) * r  OBVIOUS
<1>2. (b * r) * p >= (c * q) * p  OBVIOUS
<1>3. (a * r) * q >= (c * p) * q  BY <1>1, <1>2
<1>4. QED  BY <1>3

LEMMA AsGoodTotal ==
    ASSUME memory \in Seq(Observation), NEW d, NEW m \in Known(d), NEW n \in Known(d)
    PROVE  AsGood(d, m, n) \/ AsGood(d, n, m)
<1> DEFINE x == Total(d, m) * Count(d, n)
           y == Total(d, n) * Count(d, m)
<1>1. x \in Int /\ y \in Int  BY OfType
<1>2. (x >= y => AsGood(d, m, n)) /\ (y >= x => AsGood(d, n, m))  BY DEF AsGood
<1> HIDE DEF x, y
<1>3. x >= y \/ y >= x  BY <1>1
<1>4. QED  BY <1>2, <1>3

LEMMA AsGoodTransitive ==
    ASSUME memory \in Seq(Observation),
           NEW d, NEW m \in Known(d), NEW n \in Known(d), NEW k \in Known(d),
           AsGood(d, m, n), AsGood(d, n, k)
    PROVE  AsGood(d, m, k)
<1> DEFINE a == Total(d, m)
           b == Total(d, n)
           c == Total(d, k)
           p == Count(d, m)
           q == Count(d, n)
           r == Count(d, k)
<1>1. a * q >= b * p /\ b * r >= c * q  BY DEF AsGood
<1>2. /\ a \in Int /\ b \in Int /\ c \in Int
      /\ p \in Nat /\ q \in Nat /\ r \in Nat /\ p > 0 /\ q > 0 /\ r > 0
  BY OfType
<1>3. AsGood(d, m, k) = (a * r >= c * p)  BY DEF AsGood
<1> HIDE DEF a, b, c, p, q, r
<1>4. a * r >= c * p  BY <1>1, <1>2, QuotientTransitive
<1>5. QED  BY <1>3, <1>4

LEMMA EarlierTotal ==
    ASSUME memory \in Seq(Observation), NEW d, NEW m \in Known(d), NEW n \in Known(d), m # n
    PROVE  Earlier(d, m, n) \/ Earlier(d, n, m)
<1>1. PICK i \in Of(d, m) : \A k \in Of(d, m) : i <= k  BY OfType, HasLeast
<1>2. PICK j \in Of(d, n) : \A k \in Of(d, n) : j <= k  BY OfType, HasLeast
<1>3. i \in Nat /\ j \in Nat  BY OfType
<1>4. \A k \in Of(d, m) \cup Of(d, n) : k \in Nat  BY OfType
<1>5. i # j  BY DEF Of
<1>6. CASE i < j
  <2>1. \A k \in Of(d, n) : i < k  BY <1>2, <1>3, <1>4, <1>6
  <2>2. QED  BY <2>1 DEF Earlier
<1>7. CASE j < i
  <2>1. \A k \in Of(d, m) : j < k  BY <1>1, <1>3, <1>4, <1>7
  <2>2. QED  BY <2>1 DEF Earlier
<1>8. QED  BY <1>3, <1>5, <1>6, <1>7

LEMMA EarlierTransitive ==
    ASSUME memory \in Seq(Observation),
           NEW d, NEW m \in Known(d), NEW n \in Known(d), NEW k \in Known(d),
           Earlier(d, m, n), Earlier(d, n, k)
    PROVE  Earlier(d, m, k)
<1>1. PICK i \in Of(d, m) : \A j \in Of(d, n) : i < j  BY DEF Earlier
<1>2. PICK j \in Of(d, n) : \A l \in Of(d, k) : j < l  BY DEF Earlier
<1>3. i < j /\ i \in Nat /\ j \in Nat /\ \A l \in Of(d, k) : l \in Nat  BY <1>1, OfType
<1>4. \A l \in Of(d, k) : i < l  BY <1>2, <1>3
<1>5. QED  BY <1>4 DEF Earlier

\* m comes before n: its average is higher, or the same and it was known first.
Before(d, m, n) == AsGood(d, m, n) /\ (AsGood(d, n, m) => Earlier(d, m, n))

LEMMA BeforeTotal ==
    ASSUME memory \in Seq(Observation), NEW d, NEW m \in Known(d), NEW n \in Known(d), m # n
    PROVE  Before(d, m, n) \/ Before(d, n, m)
BY AsGoodTotal, EarlierTotal DEF Before

LEMMA BeforeTransitive ==
    ASSUME memory \in Seq(Observation),
           NEW d, NEW m \in Known(d), NEW n \in Known(d), NEW k \in Known(d),
           Before(d, m, n), Before(d, n, k)
    PROVE  Before(d, m, k)
<1>1. AsGood(d, m, n) /\ AsGood(d, n, k)  BY DEF Before
<1>2. AsGood(d, m, k)  BY <1>1, AsGoodTransitive
<1>3. ASSUME AsGood(d, k, m) PROVE Earlier(d, m, k)
  <2>1. AsGood(d, k, n) /\ AsGood(d, n, m)  BY <1>1, <1>3, AsGoodTransitive
  <2>2. Earlier(d, m, n) /\ Earlier(d, n, k)  BY <2>1 DEF Before
  <2>3. QED  BY <2>2, EarlierTransitive
<1>4. QED  BY <1>2, <1>3 DEF Before

LEMMA KnownType ==
    ASSUME memory \in Seq(Observation), NEW d
    PROVE  IsFiniteSet(Known(d)) /\ Known(d) \subseteq Models
<1> DEFINE at == {j \in DOMAIN memory : memory[j].dimension = d}
<1>1. at \subseteq DOMAIN memory /\ IsFiniteSet(DOMAIN memory)  BY MemoryTyped
<1>2. IsFiniteSet(at)  BY <1>1, FS_Subset
<1>3. Known(d) = {memory[i].model : i \in at}  BY DEF Known
<1> HIDE DEF at
<1>4. IsFiniteSet({memory[i].model : i \in at})
  <2> DEFINE f == [i \in at |-> memory[i].model]
  <2>1. Known(d) = {f[i] : i \in at}  BY <1>3
  <2>2. f \in Surjection(at, Known(d))  BY <2>1, Zenon DEF Surjection
  <2>3. QED  BY <1>2, <1>3, <2>2, FS_Surjection
<1>5. Known(d) \subseteq Models  BY MemoryTyped DEF Known
<1>6. QED  BY <1>3, <1>4, <1>5

\* What is chosen for an observed dimension was observed there: one of the models
\* comes before all the others, by induction on the set of the models.
LEMMA BestIsKnown ==
    ASSUME memory \in Seq(Observation), NEW d, Known(d) # {}
    PROVE  BestInMemory(d) \in Known(d)
<1> DEFINE First(T, m) == m \in T /\ \A n \in T \ {m} : Before(d, m, n)
           Good == {T \in SUBSET Known(d) : T # {} => \E m : First(T, m)}
<1>1. ASSUME NEW T \in SUBSET Known(d), \A U \in SUBSET T : U # T => U \in Good
      PROVE  T \in Good
  <2> SUFFICES ASSUME NEW a \in T PROVE \E m : First(T, m)  OBVIOUS
  <2>1. CASE T = {a}
    <3>1. First(T, a)  BY <2>1
    <3>2. QED  BY <3>1
  <2>2. CASE T # {a}
    <3>1. T \ {a} \in Good /\ T \ {a} # {}
      <4>1. T \ {a} \in SUBSET T /\ T \ {a} # T  OBVIOUS
      <4>2. T \ {a} # {}  BY <2>2
      <4> HIDE DEF Good
      <4>3. T \ {a} \in Good  BY <1>1, <4>1
      <4>4. QED  BY <4>2, <4>3
    <3>2. PICK m : First(T \ {a}, m)  BY <3>1
    <3>3. m \in T /\ m # a /\ m \in Known(d) /\ a \in Known(d)  BY <3>2
    <3>4. CASE Before(d, m, a)
      <4>1. \A n \in T \ {m} : n \in (T \ {a}) \ {m} \/ n = a  OBVIOUS
      <4>2. First(T, m)  BY <3>2, <3>3, <3>4, <4>1
      <4>3. QED  BY <4>2
    <3>5. CASE ~Before(d, m, a)
      <4>1. Before(d, a, m)  BY <3>3, <3>5, BeforeTotal
      <4>2. ASSUME NEW n \in T \ {a} PROVE Before(d, a, n)
        <5>1. CASE n = m  BY <4>1, <5>1
        <5>2. CASE n # m
          <6>1. Before(d, m, n) /\ n \in Known(d)  BY <3>2, <5>2
          <6>2. QED  BY <3>3, <4>1, <6>1, BeforeTransitive
        <5>3. QED  BY <5>1, <5>2
      <4>3. First(T, a)  BY <4>2
      <4>4. QED  BY <4>3
    <3>6. QED  BY <3>4, <3>5
  <2>3. QED  BY <2>1, <2>2
<1> HIDE DEF Good
<1>2. IsFiniteSet(Known(d))  BY KnownType
<1>3. \A T \in SUBSET Known(d) : T \in Good  BY <1>1, <1>2, SubsetInduction
<1>4. Known(d) \in Good  BY <1>3
<1>5. PICK m : First(Known(d), m)  BY <1>4 DEF Good
<1>6. \E k \in Known(d) : \A n \in Known(d) \ {k} :
          AsGood(d, k, n) /\ (AsGood(d, n, k) => Earlier(d, k, n))
  BY <1>5 DEF Before
<1>7. QED  BY <1>6 DEF BestInMemory

-----------------------------------------------------------------------------
(* Types, and the order in which a route is looked for *)

LEMMA AdviseEffect ==
    ASSUME memory \in Seq(Observation), NEW d \in Dimensions, Advise(d)
    PROVE  /\ routed' \in Route
           /\ Known(routed'.dimension) # {} => routed'.chosen \in Known(routed'.dimension)
           /\ UNCHANGED <<memory, task, attempts, decision>>
<1>1. UNCHANGED <<memory, task, attempts, decision>>  BY DEF Advise
<1>2. CASE Known(d) # {} /\ Routed(d, BestInMemory(d), "memory")
  <2>1. BestInMemory(d) \in Known(d) /\ Known(d) \subseteq Models  BY <1>2, BestIsKnown, KnownType
  <2>2. QED  BY <1>1, <1>2, <2>1 DEF Routed, Route
<1>3. CASE Known(d) = {} /\ d \in DOMAIN DimensionMap
           /\ Routed(d, DimensionMap[d], "dimension_map")
  <2>1. DimensionMap[d] \in Models  BY <1>3, MapAssumption DEF Range
  <2>2. QED  BY <1>1, <1>3, <2>1 DEF Routed, Route
<1>4. CASE Known(d) = {} /\ Routed(d, DefaultModel, "default")
  <2>1. DefaultModel \in Models  BY ValidateAssumption
  <2>2. QED  BY <1>1, <1>4, <2>1 DEF Routed, Route
<1>5. QED  BY <1>2, <1>3, <1>4 DEF Advise

\* The types that the memory and the runs do not already carry.
IInv == MemoryInv /\ RunInv /\ decision \in Decision \cup {None} /\ routed \in Route \cup {None}

LEMMA ReturnType ==
    ASSUME attempts' \in Seq(Attempt), task \in Dimensions, NEW i \in DOMAIN attempts',
           NEW reason \in {"resolved_in_cheap_chain", "escalated", "cheap_chain_exhausted"},
           Return(attempts', i, reason)
    PROVE  decision' \in Decision
<1> DEFINE a == attempts'
<1>1. a[i].model \in Models /\ Len(a) \in Nat
  <2>1. a \in Seq(Attempt) /\ i \in DOMAIN a  OBVIOUS
  <2> HIDE DEF a
  <2>2. a[i] \in Attempt /\ Len(a) \in Nat  BY <2>1
  <2>3. QED  BY <2>2 DEF Attempt
<1>2. QED  BY <1>1 DEF Return, Decision

LEMMA StepTypes ==
    ASSUME IInv, [Next]_vars
    PROVE  decision' \in Decision \cup {None} /\ routed' \in Route \cup {None}
<1>1. CASE UNCHANGED <<decision, routed>>  BY <1>1 DEF IInv
<1>2. ASSUME NEW d \in Dimensions, Start(d) PROVE decision' = None /\ routed' = routed
  BY <1>2 DEF Start
<1>3. ASSUME NEW d \in Dimensions, Advise(d) PROVE decision' = decision /\ routed' \in Route
  BY <1>3, AdviseEffect DEF IInv, MemoryInv
<1>4. ASSUME NEW f \in Feedback, TryCheap(f) PROVE decision' \in Decision \cup {None} /\ routed' = routed
  <2>1. CheapChain[Len(attempts) + 1] \in Models /\ task \in Dimensions
    BY <1>4, CheapChainType DEF IInv, MemoryInv, TryCheap
  <2>2. Try(CheapChain[Len(attempts) + 1], f)  BY <1>4 DEF TryCheap
  <2>3. attempts' \in Seq(Attempt) /\ Chosen(attempts', Best(attempts'))
    BY <2>1, <2>2, TryBest DEF IInv
  <2>4. Best(attempts') \in DOMAIN attempts' /\ Len(attempts') \in DOMAIN attempts'
    BY <2>3 DEF Chosen
  <2>5. routed' = routed  BY <2>2 DEF Try
  <2>6. CASE UNCHANGED decision  BY <2>5, <2>6 DEF IInv
  <2>7. CASE Return(attempts', Len(attempts'), "resolved_in_cheap_chain")
    BY <2>1, <2>3, <2>4, <2>5, <2>7, ReturnType
  <2>8. CASE Return(attempts', Best(attempts'), "cheap_chain_exhausted")
    BY <2>1, <2>3, <2>4, <2>5, <2>8, ReturnType
  <2>9. QED  BY <1>4, <2>6, <2>7, <2>8 DEF TryCheap, Continue
<1>5. ASSUME NEW f \in Feedback, TryEscalate(f) PROVE decision' \in Decision /\ routed' = routed
  <2>1. EscalateTo \in Models /\ task \in Dimensions
    BY <1>5, ValidateAssumption DEF IInv, MemoryInv, TryEscalate
  <2>2. Try(EscalateTo, f)  BY <1>5 DEF TryEscalate
  <2>3. attempts' \in Seq(Attempt) /\ Chosen(attempts', Best(attempts'))
    BY <2>1, <2>2, TryBest DEF IInv
  <2>4. Best(attempts') \in DOMAIN attempts'  BY <2>3 DEF Chosen
  <2>5. Return(attempts', Best(attempts'), "escalated")  BY <1>5 DEF TryEscalate
  <2>6. routed' = routed  BY <2>2 DEF Try
  <2>7. QED  BY <2>1, <2>3, <2>4, <2>5, <2>6, ReturnType
<1>6. ASSUME NEW f \in Feedback, NEW d \in Dimensions, NEW m \in Models, Observe(d, m, f)
      PROVE  UNCHANGED <<decision, routed>>
  BY <1>6 DEF Observe
<1>7. CASE Raise  BY <1>1, <1>7 DEF Raise
<1>8. CASE UNCHANGED vars  BY <1>1, <1>8 DEF vars
<1>9. QED  BY <1>1, <1>2, <1>3, <1>4, <1>5, <1>6, <1>7, <1>8 DEF Next, IInv

LEMMA TypesInit == Init => IInv
BY MemoryInit, RunInit DEF Init, IInv

LEMMA TypesStep == IInv /\ [Next]_vars => IInv'
<1>1. IInv /\ [Next]_vars => MemoryInv' /\ RunInv'  BY MemoryStep, RunStep DEF IInv
<1>2. QED  BY <1>1, StepTypes DEF IInv

LEMMA AdvisedFromMemory ==
    ASSUME IInv, [Next]_vars, routed' # routed, Known(routed'.dimension) # {}
    PROVE  routed'.chosen \in Known(routed'.dimension)
<1>1. ASSUME NEW d \in Dimensions, Advise(d)
      PROVE  routed'.chosen \in Known(routed'.dimension)
  BY <1>1, AdviseEffect DEF IInv, MemoryInv
<1>2. ASSUME NEW d \in Dimensions, Start(d) PROVE FALSE  BY <1>2 DEF Start
<1>3. ASSUME NEW f \in Feedback, TryCheap(f) \/ TryEscalate(f) PROVE FALSE
  BY <1>3 DEF TryCheap, TryEscalate, Try
<1>4. ASSUME NEW f \in Feedback, NEW d \in Dimensions, NEW m \in Models, Observe(d, m, f)
      PROVE  FALSE
  BY <1>4 DEF Observe
<1>5. ~Raise /\ ~UNCHANGED vars  BY DEF Raise, vars
<1>6. QED  BY <1>1, <1>2, <1>3, <1>4, <1>5 DEF Next

\* Every state of the router has its types: what a run decides for is a model it
\* tried, and what route advises a model of the configuration or of the memory,
\* the best of which always exists (TypeOK).
THEOREM TypeCorrect == Spec => []TypeOK
<1>1. IInv => TypeOK  BY DEF IInv, MemoryInv, TypeOK
<1>2. QED  BY <1>1, TypesInit, TypesStep, PTL DEF Spec

\* Once a dimension has been observed, only models observed in it are advised for
\* it, whatever is configured (MemoryOutranksConfiguration).
THEOREM LearnedComesFirst == Spec => MemoryOutranksConfiguration
<1>1. IInv /\ [Next]_vars =>
        [routed' # None /\ routed' # routed /\ Known(routed'.dimension) # {}
           => routed'.chosen \in Known(routed'.dimension)]_vars
  BY AdvisedFromMemory
<1>2. QED  BY <1>1, TypesInit, TypesStep, PTL DEF Spec, MemoryOutranksConfiguration
=============================================================================
