------------------------ MODULE GatewayRequestProofs ------------------------
(* Proofs about GatewayRequest, for any number of requests, models,          *)
(* credentials, limits and fallbacks: types, the route of a request and its  *)
(* attempts, what the key and the credentials are charged, and how far the   *)
(* requests that share a credential may exceed its limit.                    *)
EXTENDS GatewayRequest, FoldTheorems

LEMMA CredentialsFinite == IsFiniteSet(Credential) /\ Cardinality(Credential) \in Nat
<1>1. Credentials \in Seq(Credential)  BY CredentialsAssumption
<1>2. PICK n \in Nat : n = Len(Credentials) /\ DOMAIN Credentials = 1..n  BY <1>1
<1>3. \A c \in Credential : \E i \in 1..n : Credentials[i] = c  BY <1>2 DEF Credential, ToSet
<1>4. Credentials \in [1..n -> Credential]  BY <1>1, <1>2
<1>5. ExistsSurjection(1..n, Credential)
  BY <1>3, <1>4 DEF ExistsSurjection, Surjection
<1>6. IsFiniteSet(Credential)  BY <1>2, <1>5, FS_NatSurjection
<1>7. QED  BY <1>6, FS_CardinalityType

-----------------------------------------------------------------------------
(* The plan of the attempts *)

\* The function FoldLeft chooses for the chain of models.
ChainRec(g, first, models) ==
    g = [s \in SUBSET DOMAIN models |->
            IF s = {} THEN <<first>> ELSE AppendNew(g[s \ {Max(s)}], models[Max(s)])]

LEMMA ChainExpanded ==
    ASSUME NEW first, NEW models
    PROVE  FoldLeft(AppendNew, <<first>>, models)
             = (CHOOSE g : ChainRec(g, first, models))[DOMAIN models]
BY Zenon DEF FoldLeft, MapThenFoldSet, ChainRec

\* Each of the targets is there once, the first one first.
Lists(chain, first, targets) ==
    /\ chain \in Seq(Models) /\ chain # <<>> /\ chain[1] = first
    /\ \A i, j \in 1..Len(chain) : chain[i] = chain[j] => i = j
    /\ \A m : m \in targets <=> \E i \in 1..Len(chain) : chain[i] = m

LEMMA AppendNewLists ==
    ASSUME NEW chain, NEW first, NEW targets, Lists(chain, first, targets), NEW m \in Models
    PROVE  Lists(AppendNew(chain, m), first, targets \cup {m})
<1>1. chain \in Seq(Models) /\ DOMAIN chain = 1..Len(chain) /\ Len(chain) \in Nat /\ 1 <= Len(chain)
  BY DEF Lists
<1>2. CASE Contains(chain, m)
  <2>1. m \in targets  BY <1>1, <1>2 DEF Contains, Lists
  <2>2. targets \cup {m} = targets  BY <2>1
  <2>3. AppendNew(chain, m) = chain  BY <1>2 DEF AppendNew
  <2>4. QED  BY <2>2, <2>3
<1>3. CASE ~Contains(chain, m)
  <2> DEFINE longer == Append(chain, m)
             l == Len(chain)
  <2>1. AppendNew(chain, m) = longer  BY <1>3 DEF AppendNew
  <2>2. /\ longer \in Seq(Models) /\ Len(longer) = l + 1
        /\ \A i \in 1..l : longer[i] = chain[i]
        /\ longer[l + 1] = m
    BY <1>1
  <2>3. \A i \in 1..l : chain[i] # m  BY <1>1, <1>3 DEF Contains
  <2> HIDE DEF longer
  <2>4. longer # <<>> /\ longer[1] = first  BY <1>1, <2>2 DEF Lists
  <2>5. ASSUME NEW i \in 1..Len(longer), NEW j \in 1..Len(longer), longer[i] = longer[j]
        PROVE  i = j
    <3>1. CASE i \in 1..l /\ j \in 1..l  BY <2>2, <2>5, <3>1 DEF Lists
    <3>2. CASE i = l + 1 /\ j = l + 1  BY <3>2
    <3>3. CASE i \in 1..l /\ j = l + 1  BY <2>2, <2>3, <2>5, <3>3
    <3>4. CASE i = l + 1 /\ j \in 1..l  BY <2>2, <2>3, <2>5, <3>4
    <3>5. QED  BY <1>1, <2>2, <3>1, <3>2, <3>3, <3>4
  <2>6. ASSUME NEW x PROVE x \in targets \cup {m} <=> \E i \in 1..Len(longer) : longer[i] = x
    <3>1. ASSUME x \in targets PROVE \E i \in 1..Len(longer) : longer[i] = x
      <4>1. PICK i \in 1..l : chain[i] = x  BY <3>1 DEF Lists
      <4>2. i \in 1..Len(longer) /\ longer[i] = x  BY <1>1, <2>2, <4>1
      <4>3. QED  BY <4>2
    <3>2. ASSUME x = m PROVE \E i \in 1..Len(longer) : longer[i] = x
      <4>1. l + 1 \in 1..Len(longer)  BY <1>1, <2>2
      <4>2. QED  BY <2>2, <3>2, <4>1
    <3>3. ASSUME NEW i \in 1..Len(longer), longer[i] = x PROVE x \in targets \cup {m}
      <4>1. CASE i = l + 1  BY <2>2, <3>3, <4>1
      <4>2. CASE i # l + 1
        <5>1. i \in 1..l  BY <1>1, <2>2, <4>2
        <5>2. chain[i] = x  BY <2>2, <3>3, <5>1
        <5>3. x \in targets  BY <5>1, <5>2 DEF Lists
        <5>4. QED  BY <5>3
      <4>3. QED  BY <4>1, <4>2
    <3>4. QED  BY <3>1, <3>2, <3>3
  <2>7. Lists(longer, first, targets \cup {m})  BY <2>2, <2>4, <2>5, <2>6 DEF Lists
  <2>8. QED  BY <2>1, <2>7
<1>4. QED  BY <1>2, <1>3

LEMMA ChainLists ==
    ASSUME NEW first \in Models, NEW models \in Seq(Models)
    PROVE  Lists(FoldLeft(AppendNew, <<first>>, models), first,
                 {models[n] : n \in DOMAIN models} \cup {first})
<1> DEFINE S == DOMAIN models
           P == [s \in SUBSET S |-> Max(s)]
<1>1. S = 1..Len(models) /\ Len(models) \in Nat /\ \A n \in S : models[n] \in Models  OBVIOUS
<1>2. IsFiniteSet(S) /\ S \subseteq Nat  BY <1>1, FS_Interval
<1>3. ASSUME NEW s \in SUBSET S, s # {} PROVE Max(s) \in s
  <2>1. IsFiniteSet(s) /\ s \subseteq Nat  BY <1>2, FS_Subset
  <2>2. QED  BY <1>3, <2>1, MaxIsMember
<1>4. Chooses(P, S)  BY <1>3 DEF Chooses
<1>5. \E g : ChainRec(g, first, models)
  <2> DEFINE base == <<first>>
             G == [s \in SUBSET S |-> [v \in Seq(Models) |->
                      IF s = {} THEN v ELSE AppendNew(v, models[Max(s)])]]
  <2>1. base \in Seq(Models)  OBVIOUS
  <2>2. ASSUME NEW s \in SUBSET S, NEW v \in Seq(Models) PROVE G[s][v] \in Seq(Models)
    <3>1. CASE s = {}  BY <3>1
    <3>2. CASE s # {}
      <4>1. models[Max(s)] \in Models  BY <1>1, <1>3, <3>2
      <4>2. AppendNew(v, models[Max(s)]) \in Seq(Models)  BY <4>1 DEF AppendNew
      <4>3. QED  BY <3>2, <4>2
    <3>3. QED  BY <3>1, <3>2
  <2> HIDE DEF G, base, P, S
  <2>3. PICK g \in [SUBSET S -> Seq(Models)] : Solves(g, base, P, G, S)
    BY <1>2, <1>4, <2>1, <2>2, SolutionExists
  <2>4. ASSUME NEW s \in SUBSET S
        PROVE  g[s] = IF s = {} THEN <<first>> ELSE AppendNew(g[s \ {Max(s)}], models[Max(s)])
    <3>1. CASE s = {}  BY <2>3, <3>1 DEF Solves, Peel, base
    <3>2. CASE s # {}
      <4>1. g[s] = G[s][g[s \ {P[s]}]]  BY <2>3, <3>2 DEF Solves, Peel
      <4>2. P[s] = Max(s) /\ g[s \ {Max(s)}] \in Seq(Models)  BY <2>3 DEF P
      <4>3. QED  BY <3>2, <4>1, <4>2 DEF G
    <3>3. QED  BY <3>1, <3>2
  <2>5. g = [s \in SUBSET S |-> g[s]]  BY <2>3
  <2>6. ChainRec(g, first, models)  BY <2>4, <2>5 DEF ChainRec, S
  <2>7. QED  BY <2>6
<1> DEFINE h == CHOOSE g : ChainRec(g, first, models)
           Targets(s) == {models[n] : n \in s} \cup {first}
           Good == {s \in SUBSET S : Lists(h[s], first, Targets(s))}
<1>6. ChainRec(h, first, models)  BY <1>5
<1> HIDE DEF h, P
<1>7. ASSUME NEW s \in SUBSET S
      PROVE  h[s] = IF s = {} THEN <<first>> ELSE AppendNew(h[s \ {Max(s)}], models[Max(s)])
  BY <1>6 DEF ChainRec
<1> HIDE DEF S
<1>8. ASSUME NEW s \in SUBSET S, \A U \in SUBSET s : U # s => U \in Good
      PROVE  s \in Good
  <2>1. CASE s = {}
    <3>1. h[s] = <<first>> /\ Targets(s) = {first}  BY <1>7, <2>1
    <3>2. Lists(<<first>>, first, {first})  BY DEF Lists
    <3>3. QED  BY <3>1, <3>2
  <2>2. CASE s # {}
    <3> DEFINE x == Max(s)
    <3>1. x \in s /\ models[x] \in Models  BY <1>1, <1>3, <2>2
    <3>2. h[s] = AppendNew(h[s \ {x}], models[x])  BY <1>7, <2>2
    <3> HIDE DEF x
    <3>3. s \ {x} \in Good  BY <1>8, <3>1
    <3>4. Lists(h[s \ {x}], first, Targets(s \ {x}))  BY <3>3
    <3>5. Targets(s) = Targets(s \ {x}) \cup {models[x]}  BY <3>1
    <3> HIDE DEF Targets
    <3> DEFINE before == h[s \ {x}]
               m == models[x]
    <3>6. m \in Models /\ Lists(before, first, Targets(s \ {x}))  BY <3>1, <3>4
    <3> HIDE DEF before, m
    <3>7. Lists(AppendNew(before, m), first, Targets(s \ {x}) \cup {m})
      BY <3>6, AppendNewLists
    <3>8. QED  BY <3>2, <3>5, <3>7 DEF before, m
  <2>3. QED  BY <2>1, <2>2
<1> HIDE DEF Good
<1>9. \A T \in SUBSET S : T \in Good  BY <1>2, <1>8, SubsetInduction
<1>10. Lists(h[S], first, Targets(S))  BY <1>9 DEF Good
<1>11. QED  BY <1>10, ChainExpanded DEF h, S

LEMMA ListsCounted ==
    ASSUME NEW chain, NEW first, NEW targets, Lists(chain, first, targets)
    PROVE  Len(chain) = Cardinality(targets)
<1> DEFINE n == Len(chain)
<1>1. n \in Nat /\ chain \in [1..n -> targets]  BY DEF Lists
<1>2. \A t \in targets : \E i \in 1..n : chain[i] = t  BY DEF Lists
<1>3. \A i, j \in 1..n : chain[i] = chain[j] => i = j  BY DEF Lists
<1> HIDE DEF n
<1>4. ExistsBijection(1..n, targets)
  <2>1. chain \in Injection(1..n, targets)  BY <1>1, <1>3 DEF Injection, IsInjective
  <2>2. chain \in Surjection(1..n, targets)  BY <1>1, <1>2 DEF Surjection
  <2>3. QED  BY <2>1, <2>2 DEF ExistsBijection, Bijection
<1>5. Cardinality(targets) = n  BY <1>1, <1>4, FS_CountingElements
<1>6. QED  BY <1>5 DEF n

LEMMA TargetsListed ==
    ASSUME NEW list \in Seq(Models), list # <<>>
    PROVE  /\ Head(list) \in Models /\ Tail(list) \in Seq(Models)
           /\ {Tail(list)[n] : n \in DOMAIN Tail(list)} \cup {Head(list)}
                = {list[n] : n \in DOMAIN list}
<1> DEFINE rest == Tail(list)
<1>1. /\ Len(list) \in Nat /\ Len(list) >= 1 /\ DOMAIN list = 1..Len(list)
      /\ rest \in Seq(Models) /\ Len(rest) = Len(list) - 1 /\ DOMAIN rest = 1..Len(rest)
      /\ \A n \in 1..Len(rest) : rest[n] = list[n + 1]
      /\ Head(list) = list[1] /\ list[1] \in Models
  OBVIOUS
<1> HIDE DEF rest
<1>2. ASSUME NEW x \in {rest[n] : n \in DOMAIN rest} \cup {Head(list)}
      PROVE  x \in {list[n] : n \in DOMAIN list}
  <2>1. CASE x = Head(list)  BY <1>1, <2>1
  <2>2. CASE x # Head(list)
    <3>1. PICK n \in DOMAIN rest : x = rest[n]  BY <1>2, <2>2
    <3>2. n + 1 \in DOMAIN list /\ x = list[n + 1]  BY <1>1, <3>1
    <3>3. QED  BY <3>2
  <2>3. QED  BY <2>1, <2>2
<1>3. ASSUME NEW n \in DOMAIN list
      PROVE  list[n] \in {rest[k] : k \in DOMAIN rest} \cup {Head(list)}
  <2>1. CASE n = 1  BY <1>1, <2>1
  <2>2. CASE n # 1
    <3>1. n - 1 \in DOMAIN rest /\ rest[n - 1] = list[n]  BY <1>1, <2>2
    <3>2. QED  BY <3>1
  <2>3. QED  BY <2>1, <2>2
<1>4. QED  BY <1>1, <1>2, <1>3 DEF rest

\* list is m and then the models.
Prefixed(list, m, models) ==
    /\ list \in Seq(Models) /\ list # <<>> /\ Head(list) = m
    /\ {list[n] : n \in DOMAIN list} = {models[n] : n \in DOMAIN models} \cup {m}

LEMMA TargetsPrefixed ==
    ASSUME NEW m \in Models, NEW models \in Seq(Models)
    PROVE  Prefixed(<<m>> \o models, m, models)
<1> DEFINE list == <<m>> \o models
<1>1. /\ list \in Seq(Models) /\ Len(list) = Len(models) + 1 /\ Len(models) \in Nat
      /\ DOMAIN list = 1..Len(list) /\ DOMAIN models = 1..Len(models)
      /\ list[1] = m /\ \A n \in 1..Len(models) : list[n + 1] = models[n]
  OBVIOUS
<1> HIDE DEF list
<1>2. list # <<>> /\ Head(list) = m  BY <1>1
<1>3. ASSUME NEW n \in DOMAIN list
      PROVE  list[n] \in {models[k] : k \in DOMAIN models} \cup {m}
  <2>1. CASE n = 1  BY <1>1, <2>1
  <2>2. CASE n # 1
    <3>1. n - 1 \in DOMAIN models /\ models[n - 1] = list[n]  BY <1>1, <2>2
    <3>2. QED  BY <3>1
  <2>3. QED  BY <2>1, <2>2
<1>4. ASSUME NEW x \in {models[k] : k \in DOMAIN models} \cup {m}
      PROVE  x \in {list[n] : n \in DOMAIN list}
  <2>1. CASE x = m  BY <1>1, <2>1
  <2>2. CASE x # m
    <3>1. PICK k \in DOMAIN models : x = models[k]  BY <1>4, <2>2
    <3>2. k + 1 \in DOMAIN list /\ x = list[k + 1]  BY <1>1, <3>1
    <3>3. QED  BY <3>2
  <2>3. QED  BY <2>1, <2>2
<1>5. Prefixed(list, m, models)  BY <1>1, <1>2, <1>3, <1>4 DEF Prefixed
<1>6. QED  BY <1>5 DEF list

\* The targets that a fallback has for model m.
TargetsOf(f, m) == {f.models[n] : n \in DOMAIN f.models} \cup ({m} \ {NoModel})

Single(kind, f) == f.mode = "off" \/ kind = "bare" \/ (kind = "raw" /\ f.mode = "model-chain")

\* Each target is in the plan once.
Spreads(plan, targets) == \E first : Lists(plan, first, targets)

\* What a request may try is planned when it is first sent.
LEMMA AttemptsPlanned ==
    ASSUME NEW kind \in Kind, NEW f \in Fallback, NEW m \in Target
    PROVE  LET plan == Attempts(kind, f, m) IN
           /\ plan \in Seq(Target) /\ plan # <<>>
           /\ m \in Models => plan[1] = m
           /\ Single(kind, f) => Len(plan) = 1
           /\ ~Single(kind, f) /\ f.mode = "retry" => Len(plan) = Retries(f) + 1
           /\ ~Single(kind, f) /\ f.mode = "model-chain" =>
                  IF TargetsOf(f, m) = {} THEN Len(plan) = 1 ELSE Spreads(plan, TargetsOf(f, m))
<1> DEFINE plan == Attempts(kind, f, m)
           list == IF m = NoModel THEN f.models ELSE <<m>> \o f.models
<1>1. f.mode \in {"off", "retry", "model-chain"} /\ f.retries \in Nat /\ f.models \in Seq(Models)
  BY DEF Fallback
<1>2. NoModel \notin Models /\ (m = NoModel \/ m \in Models)
  BY CandidatesAssumption DEF Target
<1>3. Retries(f) \in Nat  BY <1>1, MaxRetryAssumption DEF Retries
<1>4. /\ list \in Seq(Models) /\ {list[n] : n \in DOMAIN list} = TargetsOf(f, m)
      /\ m \in Models => list # <<>> /\ Head(list) = m
  <2>1. CASE m = NoModel  BY <1>1, <1>2, <2>1 DEF TargetsOf
  <2>2. CASE m \in Models
    <3>1. /\ list = <<m>> \o f.models
          /\ TargetsOf(f, m) = {f.models[n] : n \in DOMAIN f.models} \cup {m}
      BY <1>2, <2>2 DEF TargetsOf
    <3>2. Prefixed(list, m, f.models)  BY <1>1, <2>2, <3>1, TargetsPrefixed
    <3> HIDE DEF list
    <3>3. QED  BY <3>1, <3>2 DEF Prefixed
  <2>3. QED  BY <1>2, <2>1, <2>2
<1>5. plan = IF Single(kind, f) \/ (f.mode = "model-chain" /\ list = <<>>) THEN <<m>>
             ELSE IF f.mode = "retry" THEN [n \in 1..Retries(f) + 1 |-> m]
             ELSE FoldLeft(AppendNew, <<Head(list)>>, Tail(list))
  BY DEF Attempts, Single
<1>6. list = <<>> <=> TargetsOf(f, m) = {}
  <2>1. list = <<>> <=> DOMAIN list = {}  BY <1>4
  <2>2. DOMAIN list = {} <=> {list[n] : n \in DOMAIN list} = {}  OBVIOUS
  <2>3. QED  BY <1>4, <2>1, <2>2
<1> HIDE DEF plan, list
<1>7. CASE Single(kind, f) \/ (f.mode = "model-chain" /\ list = <<>>)
  <2>1. plan = <<m>>  BY <1>5, <1>7
  <2>2. plan \in Seq(Target) /\ plan # <<>> /\ plan[1] = m /\ Len(plan) = 1  BY <2>1
  <2>3. QED  BY <1>6, <1>7, <2>2 DEF plan
<1>8. CASE ~Single(kind, f) /\ f.mode = "retry"
  <2>1. plan = [n \in 1..Retries(f) + 1 |-> m]  BY <1>5, <1>8
  <2>2. Retries(f) + 1 \in Nat /\ 1 \in 1..Retries(f) + 1  BY <1>3
  <2>3. plan \in Seq(Target) /\ Len(plan) = Retries(f) + 1  BY <2>1, <2>2
  <2>4. plan[1] = m /\ plan # <<>>  BY <1>3, <2>1, <2>2, <2>3
  <2>5. QED  BY <1>8, <2>3, <2>4 DEF plan
<1>9. CASE ~Single(kind, f) /\ f.mode = "model-chain" /\ list # <<>>
  <2> DEFINE targets == TargetsOf(f, m)
  <2>1. plan = FoldLeft(AppendNew, <<Head(list)>>, Tail(list))  BY <1>5, <1>9
  <2>2. /\ Head(list) \in Models /\ Tail(list) \in Seq(Models)
        /\ {Tail(list)[n] : n \in DOMAIN Tail(list)} \cup {Head(list)} = targets
    BY <1>4, <1>9, TargetsListed
  <2> HIDE DEF targets
  <2>3. Lists(plan, Head(list), targets)  BY <2>1, <2>2, ChainLists
  <2>4. plan \in Seq(Models) /\ plan # <<>> /\ plan[1] = Head(list)  BY <2>3 DEF Lists
  <2>5. plan \in Seq(Target)  BY <2>4 DEF Target
  <2>6. m \in Models => plan[1] = m  BY <1>4, <2>4
  <2>7. Spreads(plan, TargetsOf(f, m))  BY <2>3 DEF Spreads, targets
  <2>8. QED  BY <1>6, <1>9, <2>4, <2>5, <2>6, <2>7 DEF plan
<1>10. f.mode = "off" => Single(kind, f)  BY DEF Single
<1>11. QED  BY <1>1, <1>7, <1>8, <1>9, <1>10

-----------------------------------------------------------------------------
(* What is known of a request: e is its entry, t what its attempts came to,  *)
(* a the window in which it was let in, w the current window                 *)

Unsent == {"idle", "refused", "custom", "asking", "reading"}

Typed(e, t, a, w) ==
    /\ e \in Entry /\ t \in Seq(Attempt) /\ a \in {-1} \cup (0..w)
    /\ \A n \in 1..Len(t) : t[n].window <= w

Staged(e, t, a) ==
    /\ e.pc \in Unsent => t = <<>>
    /\ e.pc \in {"pausing", "done"} => t # <<>>
    /\ e.pc = "idle" => a = -1
    /\ e.pc \in {"idle", "custom", "asking", "reading"} => e.source = "rules"
    /\ e.pc \notin {"idle", "refused"} /\ e.source # "unrouted"
           => e.model \in Models /\ e.configured \in Models

Routed(e) ==
    e.pc \notin {"idle", "refused"} =>
        /\ e.source = "rules" => e.model = e.configured
        /\ e.source = "router" => e.model \in Candidates

Plan(e) == Attempts(e.kind, e.fallback, e.model)

\* What is left of a plan after k attempts.
Remains(left, plan, k) ==
    /\ k + Len(left) = Len(plan)
    /\ \A n \in 1..Len(left) : left[n] = plan[n + k]

\* The attempts made follow the plan, each but the last gave reason to go on,
\* and what the request has left is the rest of the plan.
Follows(e, t, plan) ==
    /\ Len(t) <= Len(plan)
    /\ \A n \in 1..Len(t) : t[n].model = plan[n]
    /\ \A n \in 1..Len(t) : (n < Len(t) \/ e.pc # "done") => GoesOn(t[n].outcome, e.fallback.mode)
    /\ e.pc = "waiting" => /\ Len(t) < Len(plan)
                           /\ e.target = plan[Len(t) + 1]
                           /\ Remains(e.left, plan, Len(t) + 1)
    /\ e.pc \in {"send", "pausing"} /\ t # <<>> => Len(t) < Len(plan) /\ Remains(e.left, plan, Len(t))
    /\ e.pc = "done" => \/ Len(t) = Len(plan)
                        \/ ~GoesOn(t[Len(t)].outcome, e.fallback.mode)

OnPlan(e, t) == e.pc \notin Unsent => Follows(e, t, Plan(e))

RequestOK(e, t, a, w) == Typed(e, t, a, w) /\ Staged(e, t, a) /\ Routed(e) /\ OnPlan(e, t)

CountersTyped ==
    /\ window \in 0..MaxWindow
    /\ keyUsed \in [Rules -> Nat]
    /\ used \in [Credential -> Nat]
    /\ cooling \subseteq Credential
    /\ req = [r \in Requests |-> req[r]]
    /\ tried = [r \in Requests |-> tried[r]]
    /\ admitted = [r \in Requests |-> admitted[r]]

RequestsOK == \A r \in Requests : RequestOK(req[r], tried[r], admitted[r], window)

-----------------------------------------------------------------------------
(* The steps of one request *)

LEMMA UnsentOnPlan ==
    ASSUME NEW d \in Entry, d.pc \in Unsent \cup {"send"}
    PROVE  OnPlan(d, <<>>)
<1> SUFFICES ASSUME d.pc = "send" PROVE Follows(d, <<>>, Plan(d))  BY DEF OnPlan, Unsent
<1>1. d.fallback \in Fallback /\ d.kind \in Kind /\ d.model \in Target  BY DEF Entry
<1>2. Plan(d) \in Seq(Target)  BY <1>1, AttemptsPlanned DEF Plan
<1>3. QED  BY <1>2 DEF Follows

\* The entry d of a request just let in.
Entered(e, d, cost) ==
    /\ d \in Entry /\ d.cost = cost
    /\ \/ /\ d.pc \in {"custom", "asking", "send"} /\ d.source = "rules"
          /\ d.model \in Models /\ d.configured = d.model
       \/ d.pc = "send" /\ d.source = "unrouted"

LEMMA EnteredOK ==
    ASSUME NEW e, NEW t, NEW a, NEW w \in Nat, RequestOK(e, t, a, w), e.pc = "idle",
           NEW cost, NEW d, Entered(e, d, cost)
    PROVE  RequestOK(d, t, w, w)
<1>1. t = <<>> /\ d \in Entry  BY DEF RequestOK, Staged, Unsent, Entered
<1>2. Typed(d, t, w, w)  BY <1>1 DEF RequestOK, Typed
<1>3. Staged(d, t, w) /\ Routed(d)  BY <1>1 DEF Staged, Routed, Unsent, Entered
<1>4. OnPlan(d, t)  BY <1>1, UnsentOnPlan DEF Entered, Unsent
<1>5. QED  BY <1>2, <1>3, <1>4 DEF RequestOK

LEMMA RefusedOK ==
    ASSUME NEW e, NEW t, NEW a, NEW w \in Nat, RequestOK(e, t, a, w), e.pc = "idle"
    PROVE  RequestOK([e EXCEPT !.pc = "refused"], t, a, w)
<1> DEFINE d == [e EXCEPT !.pc = "refused"]
<1>1. e \in Entry /\ t = <<>>  BY DEF RequestOK, Typed, Staged, Unsent
<1>2. d \in Entry /\ d.pc = "refused"  BY <1>1 DEF Entry
<1> HIDE DEF d
<1>3. Typed(d, t, a, w)  BY <1>2 DEF RequestOK, Typed
<1>4. Staged(d, t, a) /\ Routed(d) /\ OnPlan(d, t)
  BY <1>1, <1>2 DEF Staged, Routed, OnPlan, Unsent
<1>5. RequestOK(d, t, a, w)  BY <1>3, <1>4 DEF RequestOK
<1>6. QED  BY <1>5 DEF d

\* A step on the way to the first attempt.
LEMMA RoutingOK ==
    ASSUME NEW e, NEW t, NEW a, NEW w \in Nat, RequestOK(e, t, a, w),
           e.pc \in {"custom", "asking", "reading"},
           NEW d \in Entry, d.pc \in {"asking", "reading", "send"},
           d.model \in Models, d.configured = e.configured,
           d.pc # "send" => d.source = "rules",
           d.source = "rules" => d.model = d.configured,
           d.source = "router" => d.model \in Candidates
    PROVE  RequestOK(d, t, a, w)
<1>1. t = <<>> /\ e.configured \in Models
  <2>1. e.source = "rules"  BY DEF RequestOK, Staged
  <2>2. QED  BY <2>1 DEF RequestOK, Staged, Unsent
<1>2. Typed(d, t, a, w)  BY DEF RequestOK, Typed
<1>3. Staged(d, t, a)  BY <1>1 DEF Staged, Unsent
<1>4. Routed(d)  BY DEF Routed
<1>5. OnPlan(d, t)  BY <1>1, UnsentOnPlan DEF Unsent
<1>6. QED  BY <1>2, <1>3, <1>4, <1>5 DEF RequestOK

LEMMA PlanTyped ==
    ASSUME NEW e, NEW t, NEW a, NEW w, RequestOK(e, t, a, w)
    PROVE  /\ e \in Entry /\ t \in Seq(Attempt)
           /\ Plan(e) \in Seq(Target) /\ Plan(e) # <<>>
           /\ e.model \in Models => Plan(e)[1] = e.model
<1>1. e \in Entry /\ t \in Seq(Attempt)  BY DEF RequestOK, Typed
<1>2. e.kind \in Kind /\ e.fallback \in Fallback /\ e.model \in Target  BY <1>1 DEF Entry
<1>3. QED  BY <1>1, <1>2, AttemptsPlanned DEF Plan

\* What Send takes the next model from.
Queue(e, t) == IF t = <<>> THEN Plan(e) ELSE e.left

LEMMA QueueRemains ==
    ASSUME NEW e, NEW t, NEW a, NEW w, RequestOK(e, t, a, w), e.pc = "send"
    PROVE  /\ Queue(e, t) \in Seq(Target) /\ Queue(e, t) # <<>>
           /\ Remains(Queue(e, t), Plan(e), Len(t))
<1>1. e \in Entry /\ t \in Seq(Attempt) /\ Plan(e) \in Seq(Target) /\ Plan(e) # <<>>
  BY PlanTyped
<1>2. CASE t = <<>>
  <2>1. Queue(e, t) = Plan(e)  BY <1>2 DEF Queue
  <2>2. Remains(Plan(e), Plan(e), 0) /\ Len(t) = 0  BY <1>1, <1>2 DEF Remains
  <2>3. QED  BY <1>1, <2>1, <2>2
<1>3. CASE t # <<>>
  <2>1. Queue(e, t) = e.left /\ e.left \in Seq(Target)  BY <1>1, <1>3 DEF Queue, Entry
  <2>2. Len(t) < Len(Plan(e)) /\ Remains(e.left, Plan(e), Len(t))
    BY <1>3 DEF RequestOK, OnPlan, Unsent, Follows
  <2>3. e.left # <<>>  BY <1>1, <2>1, <2>2 DEF Remains
  <2>4. QED  BY <1>3, <2>1, <2>2, <2>3
<1>4. QED  BY <1>2, <1>3

LEMMA SentOK ==
    ASSUME NEW e, NEW t, NEW a, NEW w \in Nat, RequestOK(e, t, a, w), e.pc = "send",
           NEW chain \in Seq(Credential), NEW saturated \in BOOLEAN
    PROVE  RequestOK([e EXCEPT !.pc = "waiting", !.target = Head(Queue(e, t)),
                               !.left = Tail(Queue(e, t)), !.chain = chain,
                               !.saturated = saturated], t, a, w)
<1> DEFINE queue == Queue(e, t)
           plan == Plan(e)
           d == [e EXCEPT !.pc = "waiting", !.target = Head(queue), !.left = Tail(queue),
                          !.chain = chain, !.saturated = saturated]
<1>1. queue \in Seq(Target) /\ queue # <<>> /\ Remains(queue, plan, Len(t))
  BY QueueRemains
<1>2. e \in Entry /\ t \in Seq(Attempt) /\ plan \in Seq(Target) /\ plan # <<>>
  BY PlanTyped
<1> HIDE DEF queue, plan
<1>3. Head(queue) \in Target /\ Tail(queue) \in Seq(Target)  BY <1>1
<1>4. /\ d \in Entry /\ d.pc = "waiting" /\ d.target = Head(queue) /\ d.left = Tail(queue)
      /\ d.kind = e.kind /\ d.model = e.model
      /\ d.source = e.source /\ d.configured = e.configured /\ d.fallback = e.fallback
  BY <1>2, <1>3 DEF Entry
<1> HIDE DEF d
<1>6. Plan(d) = plan  BY <1>4 DEF Plan, plan
<1>7. Typed(d, t, a, w)  BY <1>4 DEF RequestOK, Typed
<1>8. Staged(d, t, a)  BY <1>4 DEF RequestOK, Staged, Unsent
<1>9. Routed(d)  BY <1>4 DEF RequestOK, Routed
<1>10. Follows(d, t, plan)
  <2>1. /\ Len(t) <= Len(plan) /\ \A n \in 1..Len(t) : t[n].model = plan[n]
        /\ \A n \in 1..Len(t) : GoesOn(t[n].outcome, e.fallback.mode)
    BY DEF RequestOK, OnPlan, Unsent, Follows, plan
  <2>2. Len(t) < Len(plan) /\ Head(queue) = plan[Len(t) + 1]
    BY <1>1, <1>2 DEF Remains
  <2>3. Remains(Tail(queue), plan, Len(t) + 1)  BY <1>1, <1>2 DEF Remains
  <2>4. QED  BY <1>4, <2>1, <2>2, <2>3 DEF Follows
<1>11. RequestOK(d, t, a, w)  BY <1>6, <1>7, <1>8, <1>9, <1>10 DEF RequestOK, OnPlan
<1>12. QED  BY <1>11 DEF d, queue

\* The answer x is noted, and the request ends or goes on.
LEMMA AnsweredOK ==
    ASSUME NEW e, NEW t, NEW a, NEW w \in Nat, RequestOK(e, t, a, w), e.pc = "waiting",
           NEW x \in Attempt, x.model = e.target, x.window = w,
           NEW label \in {"done", "pausing", "send"},
           label = "done" => e.left = <<>> \/ ~GoesOn(x.outcome, e.fallback.mode),
           label # "done" => e.left # <<>> /\ GoesOn(x.outcome, e.fallback.mode)
    PROVE  RequestOK([e EXCEPT !.pc = label], Append(t, x), a, w)
<1> DEFINE plan == Plan(e)
           d == [e EXCEPT !.pc = label]
           u == Append(t, x)
           k == Len(t)
<1>1. e \in Entry /\ t \in Seq(Attempt) /\ plan \in Seq(Target) /\ plan # <<>>
  BY PlanTyped
<1>2. /\ d \in Entry /\ d.pc = label /\ d.left = e.left /\ d.model = e.model
      /\ d.kind = e.kind /\ d.target = e.target
      /\ d.source = e.source /\ d.configured = e.configured /\ d.fallback = e.fallback
  BY <1>1 DEF Entry
<1> HIDE DEF d, plan
<1>3. /\ k \in Nat /\ u \in Seq(Attempt) /\ Len(u) = k + 1 /\ u # <<>>
      /\ u[k + 1] = x /\ \A n \in 1..k : u[n] = t[n]
  BY <1>1
<1> HIDE DEF u
<1>5. Plan(d) = plan  BY <1>2 DEF Plan, plan
<1>6. Typed(d, u, a, w)
  <2>1. ASSUME NEW n \in 1..Len(u) PROVE u[n].window <= w
    <3>1. CASE n = k + 1  BY <1>3, <3>1
    <3>2. CASE n # k + 1
      <4>1. n \in 1..k  BY <1>3, <3>2
      <4>2. QED  BY <1>3, <4>1 DEF RequestOK, Typed
    <3>3. QED  BY <3>1, <3>2
  <2>2. QED  BY <1>2, <1>3, <2>1 DEF RequestOK, Typed
<1>7. Staged(d, u, a)  BY <1>2, <1>3 DEF RequestOK, Staged, Unsent
<1>8. Routed(d)  BY <1>2 DEF RequestOK, Routed
<1>9. Follows(d, u, plan)
  <2>1. /\ \A n \in 1..k : t[n].model = plan[n] /\ GoesOn(t[n].outcome, e.fallback.mode)
        /\ k < Len(plan) /\ e.target = plan[k + 1] /\ Remains(e.left, plan, k + 1)
    BY DEF RequestOK, OnPlan, Unsent, Follows, plan
  <2>2. Len(u) <= Len(plan)  BY <1>1, <1>3, <2>1
  <2>3. ASSUME NEW n \in 1..Len(u) PROVE u[n].model = plan[n]
    <3>1. CASE n = k + 1  BY <1>3, <2>1, <3>1
    <3>2. CASE n # k + 1
      <4>1. n \in 1..k  BY <1>3, <3>2
      <4>2. QED  BY <1>3, <2>1, <4>1
    <3>3. QED  BY <3>1, <3>2
  <2>4. ASSUME NEW n \in 1..Len(u), n < Len(u) \/ label # "done"
        PROVE  GoesOn(u[n].outcome, e.fallback.mode)
    <3>1. CASE n = k + 1  BY <1>3, <2>4, <3>1
    <3>2. CASE n # k + 1
      <4>1. n \in 1..k  BY <1>3, <3>2
      <4>2. QED  BY <1>3, <2>1, <4>1
    <3>3. QED  BY <3>1, <3>2
  <2>5. e.left \in Seq(Target)  BY <1>1 DEF Entry
  <2> DEFINE rest == Len(e.left)
             all == Len(plan)
  <2>6. (k + 1) + rest = all  BY <2>1 DEF Remains
  <2> HIDE DEF k, rest, all
  <2>7. ASSUME label # "done" PROVE Len(u) < Len(plan) /\ Remains(e.left, plan, Len(u))
    <3>1. e.left # <<>>  BY <2>7
    <3>2. rest \in Nat /\ rest # 0  BY <2>5, <3>1 DEF rest
    <3>3. k \in Nat  BY <1>3
    <3>4. k + 1 < all  BY <2>6, <3>2, <3>3
    <3>5. QED  BY <1>3, <2>1, <3>4 DEF all
  <2>8. ASSUME label = "done"
        PROVE  Len(u) = Len(plan) \/ ~GoesOn(u[Len(u)].outcome, e.fallback.mode)
    <3>1. CASE e.left = <<>>
      <4>1. rest = 0 /\ k \in Nat  BY <1>3, <3>1 DEF rest
      <4>2. all = k + 1  BY <2>6, <4>1
      <4>3. QED  BY <1>3, <4>2 DEF all
    <3>2. CASE ~GoesOn(x.outcome, e.fallback.mode)  BY <1>3, <3>2
    <3>3. QED  BY <2>8, <3>1, <3>2
  <2>9. QED  BY <1>2, <2>2, <2>3, <2>4, <2>7, <2>8 DEF Follows
<1>10. RequestOK(d, u, a, w)  BY <1>5, <1>6, <1>7, <1>8, <1>9 DEF RequestOK, OnPlan
<1>11. QED  BY <1>10 DEF d, u

LEMMA PausedOK ==
    ASSUME NEW e, NEW t, NEW a, NEW w \in Nat, RequestOK(e, t, a, w), e.pc = "pausing"
    PROVE  RequestOK([e EXCEPT !.pc = "send"], t, a, w)
<1> DEFINE d == [e EXCEPT !.pc = "send"]
<1>1. e \in Entry /\ t # <<>>  BY DEF RequestOK, Typed, Staged
<1>2. /\ d \in Entry /\ d.pc = "send" /\ d.left = e.left /\ d.model = e.model
      /\ d.kind = e.kind
      /\ d.source = e.source /\ d.configured = e.configured /\ d.fallback = e.fallback
  BY <1>1 DEF Entry
<1> HIDE DEF d
<1>3. Plan(d) = Plan(e)  BY <1>2 DEF Plan
<1>4. Typed(d, t, a, w)  BY <1>2 DEF RequestOK, Typed
<1>5. Staged(d, t, a)  BY <1>1, <1>2 DEF RequestOK, Staged, Unsent
<1>6. Routed(d)  BY <1>2 DEF RequestOK, Routed
<1>7. Follows(d, t, Plan(e))  BY <1>1, <1>2 DEF RequestOK, OnPlan, Unsent, Follows
<1>8. RequestOK(d, t, a, w)  BY <1>3, <1>4, <1>5, <1>6, <1>7 DEF RequestOK, OnPlan
<1>9. QED  BY <1>8 DEF d

LEMMA LaterOK ==
    ASSUME NEW e, NEW t, NEW a, NEW w \in Nat, RequestOK(e, t, a, w)
    PROVE  RequestOK(e, t, a, w + 1)
<1>1. Typed(e, t, a, w + 1)
  <2>1. t \in Seq(Attempt) /\ \A n \in 1..Len(t) : t[n] \in Attempt /\ t[n].window <= w
    BY DEF RequestOK, Typed
  <2>2. \A n \in 1..Len(t) : t[n].window <= w + 1  BY <2>1, MaxWindowAssumption DEF Attempt
  <2>3. QED  BY <2>2 DEF RequestOK, Typed
<1>2. QED  BY <1>1 DEF RequestOK

-----------------------------------------------------------------------------
(* What the key is charged *)

CostOf(rule) == [r \in Requests |-> req[r].cost[rule]]
Admitted == {r \in Requests : admitted[r] = window}

LEMMA CostsTyped ==
    ASSUME RequestsOK, NEW rule \in Rules
    PROVE  /\ IsFiniteSet(Admitted) /\ Admitted \subseteq Requests
           /\ \A r \in Requests : CostOf(rule)[r] \in Nat
<1>1. Admitted \in SUBSET Requests  BY DEF Admitted
<1>2. IsFiniteSet(Admitted)  BY <1>1, FS_Subset, RequestsAssumption
<1>3. ASSUME NEW r \in Requests PROVE CostOf(rule)[r] \in Nat
  <2>1. req[r] \in Entry  BY DEF RequestsOK, RequestOK, Typed
  <2>2. req[r].cost \in [Rules -> Nat]  BY <2>1 DEF Entry
  <2>3. QED  BY <2>2 DEF CostOf
<1>4. QED  BY <1>1, <1>2, <1>3

LEMMA KeyLimitsExpanded ==
    KeyLimitsHold <=> \A rule \in Rules :
        /\ keyUsed[rule] = SumFunctionOnSet(CostOf(rule), Admitted)
        /\ keyUsed[rule] <= KeyLimit[rule]
BY Zenon DEF KeyLimitsHold, CostOf, Admitted

\* Where nothing is let in, nothing is charged.
LEMMA CostsKept ==
    ASSUME KeyLimitsHold, UNCHANGED <<keyUsed, window, admitted>>,
           \A r \in Requests : req'[r].cost = req[r].cost
    PROVE  KeyLimitsHold'
<1>1. Admitted' = Admitted  BY DEF Admitted
<1>2. ASSUME NEW rule PROVE CostOf(rule)' = CostOf(rule)  BY DEF CostOf
<1>3. ASSUME NEW rule \in Rules
      PROVE  /\ keyUsed'[rule] = SumFunctionOnSet(CostOf(rule)', Admitted')
             /\ keyUsed'[rule] <= KeyLimit[rule]
  <2>1. /\ keyUsed[rule] = SumFunctionOnSet(CostOf(rule), Admitted)
        /\ keyUsed[rule] <= KeyLimit[rule]
    BY KeyLimitsExpanded
  <2>2. QED  BY <1>1, <1>2, <2>1
<1>4. QED  BY <1>3, Zenon DEF KeyLimitsHold, CostOf, Admitted

LEMMA CostCharged ==
    ASSUME CountersTyped, RequestsOK, KeyLimitsHold, NEW r \in Requests, req[r].pc = "idle",
           NEW cost \in Costs, WithinLimits(cost),
           keyUsed' = [rule \in Rules |-> keyUsed[rule] + cost[rule]],
           admitted' = [admitted EXCEPT ![r] = window], window' = window,
           req'[r].cost = cost, \A q \in Requests \ {r} : req'[q] = req[q]
    PROVE  KeyLimitsHold'
<1>1. cost \in [Rules -> Nat]  BY LimitsAssumption
<1>2. admitted[r] # window
  <2>1. admitted[r] = -1  BY DEF RequestsOK, RequestOK, Staged
  <2>2. window \in Nat  BY MaxWindowAssumption DEF CountersTyped
  <2>3. QED  BY <2>1, <2>2
<1>3. Admitted' = Admitted \cup {r} /\ r \notin Admitted  BY <1>2 DEF Admitted, CountersTyped
<1>4. ASSUME NEW rule \in Rules
      PROVE  /\ keyUsed'[rule] = SumFunctionOnSet(CostOf(rule)', Admitted')
             /\ keyUsed'[rule] <= KeyLimit[rule]
  <2> DEFINE f == CostOf(rule)
             h == CostOf(rule)'
             S == Admitted
             T == Admitted'
  <2>1. IsFiniteSet(S) /\ S \subseteq Requests /\ \A q \in Requests : f[q] \in Nat
    BY CostsTyped
  <2>2. h[r] = cost[rule] /\ \A q \in Requests \ {r} : h[q] = f[q]  BY DEF CostOf
  <2>3. T = S \cup {r} /\ r \notin S  BY <1>3
  <2>4. keyUsed[rule] = SumFunctionOnSet(f, S)  BY KeyLimitsExpanded
  <2>5. keyUsed'[rule] = keyUsed[rule] + cost[rule] /\ keyUsed'[rule] <= KeyLimit[rule]
    BY DEF WithinLimits
  <2> HIDE DEF f, h, S, T
  <2>6. IsFiniteSet(T) /\ T \ {r} = S /\ r \in T  BY <2>1, <2>3, FS_AddElement
  <2>7. \A q \in T : h[q] \in Nat  BY <1>1, <2>1, <2>2, <2>3
  <2>8. SumFunctionOnSet(h, T) = h[r] + SumFunctionOnSet(h, T \ {r})
    BY <2>6, <2>7, SumRemove
  <2>9. \A q \in S : f[q] \in Nat /\ h[q] = f[q]  BY <2>1, <2>2, <2>3
  <2>10. SumFunctionOnSet(h, S) = SumFunctionOnSet(f, S)  BY <2>1, <2>9, SumSame
  <2>11. keyUsed[rule] \in Nat /\ cost[rule] \in Nat  BY <1>1 DEF CountersTyped
  <2>12. SumFunctionOnSet(h, T) = cost[rule] + keyUsed[rule]
    BY <2>2, <2>4, <2>6, <2>8, <2>10
  <2>13. keyUsed'[rule] = SumFunctionOnSet(h, T)  BY <2>5, <2>11, <2>12
  <2>14. QED  BY <2>5, <2>13 DEF h, T
<1>5. QED  BY <1>4, Zenon DEF KeyLimitsHold, CostOf, Admitted

-----------------------------------------------------------------------------
(* What the credentials are charged *)

CountsNow(x) == x.window = window /\ x.by # "nobody" /\ Counts(x.outcome)

\* The requests whose last answer was from c.
DoneBy(c) == {r \in Requests : /\ req[r].pc = "done"
                               /\ <<r, Len(tried[r])>> \in CountedNow
                               /\ Last(tried[r]).by = c}

LEMMA CountedMember ==
    /\ \A r, n : <<r, n>> \in CountedNow <=>
           r \in Requests /\ n \in DOMAIN tried[r] /\ CountsNow(tried[r][n])
    /\ \A z \in CountedNow : \E r, n : z = <<r, n>>
<1>1. ASSUME NEW r, NEW n, <<r, n>> \in CountedNow
      PROVE  r \in Requests /\ n \in DOMAIN tried[r] /\ CountsNow(tried[r][n])
  BY <1>1 DEF CountedNow, CountsNow
<1>2. ASSUME NEW r \in Requests, NEW n \in DOMAIN tried[r], CountsNow(tried[r][n])
      PROVE  <<r, n>> \in CountedNow
  BY <1>2 DEF CountedNow, CountsNow
<1>3. \A z \in CountedNow : \E r, n : z = <<r, n>>  BY DEF CountedNow
<1>4. QED  BY <1>1, <1>2, <1>3

LEMMA DoneByFinite ==
    ASSUME NEW c PROVE IsFiniteSet(DoneBy(c)) /\ Cardinality(DoneBy(c)) \in Nat
<1>1. DoneBy(c) \in SUBSET Requests  BY DEF DoneBy
<1>2. QED  BY <1>1, FS_Subset, FS_CardinalityType, RequestsAssumption

Counted ==
    /\ IsFiniteSet(CountedNow)
    /\ SumFunctionOnSet(used, Credential) = Cardinality(CountedNow)
    /\ \A c \in Credential : Cardinality(DoneBy(c)) <= used[c]

LEMMA CountedSays == Counted <=> IsFiniteSet(CountedNow) /\ AnswersCountedOnce
BY Zenon DEF Counted, AnswersCountedOnce, DoneBy

\* Where no answer comes, no count changes.
LEMMA CountsKept ==
    ASSUME Counted, UNCHANGED <<window, used, tried>>,
           \A r \in Requests : req'[r].pc = "done" <=> req[r].pc = "done"
    PROVE  Counted'
<1>1. CountedNow' = CountedNow  BY DEF CountedNow
<1>2. ASSUME NEW c PROVE DoneBy(c)' = DoneBy(c)  BY <1>1 DEF DoneBy
<1>3. SumFunctionOnSet(used, Credential)' = SumFunctionOnSet(used, Credential)  OBVIOUS
<1>4. QED  BY <1>1, <1>2, <1>3 DEF Counted

\* A new window starts without answers.
LEMMA CountsRestart ==
    ASSUME CountersTyped, RequestsOK, Counted, window' = window + 1,
           used' = [c \in Credential |-> 0], UNCHANGED <<req, tried>>
    PROVE  Counted'
<1>1. CountedNow' = {}
  <2>1. SUFFICES ASSUME NEW z \in CountedNow' PROVE FALSE  OBVIOUS
  <2>2. PICK r \in Requests : \E n \in DOMAIN tried[r] : tried[r][n].window = window + 1
    BY <2>1 DEF CountedNow
  <2> PICK n \in DOMAIN tried[r] : tried[r][n].window = window + 1  BY <2>2
  <2>3. tried[r] \in Seq(Attempt) /\ \A k \in 1..Len(tried[r]) : tried[r][k].window <= window
    BY DEF RequestsOK, RequestOK, Typed
  <2>4. n \in 1..Len(tried[r])  BY <2>3
  <2>5. window \in Nat  BY MaxWindowAssumption DEF CountersTyped
  <2>6. QED  BY <2>2, <2>3, <2>4, <2>5
<1>2. IsFiniteSet({}) /\ Cardinality({}) = 0  BY FS_EmptySet
<1>3. SumFunctionOnSet(used', Credential) = 0
  <2>1. IsFiniteSet(Credential)  BY CredentialsFinite
  <2>2. \A c \in Credential : used'[c] = 0  OBVIOUS
  <2>3. QED  BY <2>1, <2>2, SumOfZeros
<1>4. ASSUME NEW c \in Credential PROVE Cardinality(DoneBy(c)') <= used'[c]
  <2>1. DoneBy(c)' = {}  BY <1>1 DEF DoneBy
  <2>2. QED  BY <1>2, <2>1
<1>5. QED  BY <1>1, <1>2, <1>3, <1>4 DEF Counted

\* What an answer x does to what is counted.
Appends(r, x, label) ==
    /\ r \in Requests /\ req[r].pc = "waiting"
    /\ tried' = [tried EXCEPT ![r] = Append(@, x)]
    /\ DOMAIN req' = Requests /\ req'[r].pc = label
    /\ \A q \in Requests \ {r} : req'[q] = req[q]
    /\ window' = window

LEMMA CountedAfter ==
    ASSUME CountersTyped, RequestsOK, NEW r, NEW x, NEW label, Appends(r, x, label)
    PROVE  /\ CountedNow' = CountedNow \cup
                  (IF CountsNow(x) THEN {<<r, Len(tried[r]) + 1>>} ELSE {})
           /\ <<r, Len(tried[r]) + 1>> \notin CountedNow
           /\ tried'[r] = Append(tried[r], x) /\ tried[r] \in Seq(Attempt)
           /\ \A q \in Requests \ {r} : tried'[q] = tried[q]
<1> DEFINE t == tried[r]
           k == Len(t)
<1>1. t \in Seq(Attempt) /\ k \in Nat /\ DOMAIN t = 1..k
  BY DEF Appends, RequestsOK, RequestOK, Typed
<1>2. tried'[r] = Append(t, x) /\ \A q \in Requests \ {r} : tried'[q] = tried[q]
  BY DEF Appends, CountersTyped
<1>3. /\ DOMAIN tried'[r] = 1..k + 1 /\ tried'[r][k + 1] = x
      /\ \A n \in 1..k : tried'[r][n] = t[n]
  BY <1>1, <1>2
<1>4. /\ \A q, n : <<q, n>> \in CountedNow <=>
             q \in Requests /\ n \in DOMAIN tried[q] /\ CountsNow(tried[q][n])
      /\ \A z \in CountedNow : \E q, n : z = <<q, n>>
  BY CountedMember
<1>5. /\ \A q, n : <<q, n>> \in CountedNow' <=>
             q \in Requests /\ n \in DOMAIN tried'[q] /\ CountsNow(tried'[q][n])
      /\ \A z \in CountedNow' : \E q, n : z = <<q, n>>
  <2>1. ASSUME NEW q, NEW n, <<q, n>> \in CountedNow'
        PROVE  q \in Requests /\ n \in DOMAIN tried'[q] /\ CountsNow(tried'[q][n])
    BY <2>1 DEF CountedNow, CountsNow, Appends
  <2>2. ASSUME NEW q \in Requests, NEW n \in DOMAIN tried'[q], CountsNow(tried'[q][n])
        PROVE  <<q, n>> \in CountedNow'
    BY <2>2 DEF CountedNow, CountsNow, Appends
  <2>3. \A z \in CountedNow' : \E q, n : z = <<q, n>>  BY DEF CountedNow
  <2>4. QED  BY <2>1, <2>2, <2>3
<1>6. <<r, k + 1>> \notin CountedNow  BY <1>1, <1>4
<1>7. r \in Requests  BY DEF Appends
<1> HIDE DEF t, k
<1>8. ASSUME NEW q, NEW n, <<q, n>> # <<r, k + 1>>
      PROVE  <<q, n>> \in CountedNow' <=> <<q, n>> \in CountedNow
  <2>1. CASE q # r  BY <1>2, <1>4, <1>5, <2>1
  <2>2. CASE q = r
    <3>1. n # k + 1  BY <1>8, <2>2
    <3>2. n \in 1..k + 1 <=> n \in 1..k  BY <1>1, <3>1
    <3>3. n \in DOMAIN tried[r] <=> n \in 1..k  BY <1>1 DEF t
    <3>4. n \in DOMAIN tried'[r] <=> n \in 1..k  BY <1>3, <3>2
    <3>5. n \in 1..k => tried'[r][n] = tried[r][n]  BY <1>3 DEF t
    <3>6. QED  BY <1>4, <1>5, <2>2, <3>3, <3>4, <3>5
  <2>3. QED  BY <2>1, <2>2
<1>9. <<r, k + 1>> \in CountedNow' <=> CountsNow(x)
  <2>1. k + 1 \in 1..k + 1  BY <1>1
  <2>2. QED  BY <1>3, <1>5, <1>7, <2>1
<1>10. CountedNow' = CountedNow \cup (IF CountsNow(x) THEN {<<r, k + 1>>} ELSE {})
  BY <1>4, <1>5, <1>6, <1>8, <1>9
<1>11. QED  BY <1>1, <1>2, <1>6, <1>10 DEF t, k

\* An answer that does not count changes no count.
LEMMA NotCounted ==
    ASSUME CountersTyped, RequestsOK, Counted, NEW r, NEW x, NEW label,
           Appends(r, x, label), ~CountsNow(x), used' = used
    PROVE  Counted'
<1>1. /\ CountedNow' = CountedNow /\ <<r, Len(tried[r]) + 1>> \notin CountedNow
      /\ tried'[r] = Append(tried[r], x) /\ tried[r] \in Seq(Attempt)
      /\ \A q \in Requests \ {r} : tried'[q] = tried[q]
  BY CountedAfter
<1>2. ASSUME NEW c PROVE DoneBy(c)' = DoneBy(c)
  <2>1. Len(tried'[r]) = Len(tried[r]) + 1  BY <1>1
  <2>2. r \notin DoneBy(c)' /\ r \notin DoneBy(c)  BY <1>1, <2>1 DEF DoneBy, Appends
  <2>3. \A q \in Requests \ {r} : q \in DoneBy(c)' <=> q \in DoneBy(c)
    BY <1>1 DEF DoneBy, Appends
  <2>4. DoneBy(c)' \subseteq Requests /\ DoneBy(c) \subseteq Requests  BY DEF DoneBy
  <2>5. QED  BY <2>2, <2>3, <2>4
<1>3. SumFunctionOnSet(used, Credential)' = SumFunctionOnSet(used, Credential)  OBVIOUS
<1>4. QED  BY <1>1, <1>2, <1>3 DEF Counted

\* An answer that counts is charged once, to a credential, and the last one to
\* the credential it is from.
LEMMA CountedOnce ==
    ASSUME CountersTyped, RequestsOK, Counted, NEW r, NEW x, NEW label,
           Appends(r, x, label), CountsNow(x),
           NEW d \in Credential, used' = [used EXCEPT ![d] = @ + 1],
           label = "done" /\ x.by \in Credential => x.by = d
    PROVE  Counted'
<1>1. /\ CountedNow' = CountedNow \cup {<<r, Len(tried[r]) + 1>>}
      /\ <<r, Len(tried[r]) + 1>> \notin CountedNow
      /\ tried'[r] = Append(tried[r], x) /\ tried[r] \in Seq(Attempt)
      /\ \A q \in Requests \ {r} : tried'[q] = tried[q]
  BY CountedAfter
<1>2. IsFiniteSet(CountedNow)  BY DEF Counted
<1>3. IsFiniteSet(CountedNow') /\ Cardinality(CountedNow') = Cardinality(CountedNow) + 1
  BY <1>1, <1>2, FS_AddElement
<1>4. SumFunctionOnSet(used', Credential) = SumFunctionOnSet(used, Credential) + 1
  <2> DEFINE h == used'
             rest == Credential \ {d}
  <2>1. IsFiniteSet(Credential) /\ IsFiniteSet(rest)  BY CredentialsFinite, FS_RemoveElement
  <2>2. \A c \in Credential : used[c] \in Nat /\ h[c] \in Nat  BY DEF CountersTyped
  <2>3. h[d] = used[d] + 1 /\ \A c \in rest : h[c] = used[c]  BY DEF CountersTyped
  <2> HIDE DEF h
  <2>4. /\ SumFunctionOnSet(used, Credential) = used[d] + SumFunctionOnSet(used, rest)
        /\ SumFunctionOnSet(used, rest) \in Int
    BY <2>1, <2>2, SumRemove
  <2>5. SumFunctionOnSet(h, Credential) = h[d] + SumFunctionOnSet(h, rest)
    BY <2>1, <2>2, SumRemove
  <2>6. SumFunctionOnSet(h, rest) = SumFunctionOnSet(used, rest)
    BY <2>1, <2>2, <2>3, SumSame
  <2>7. used[d] \in Nat  BY <2>2
  <2>8. SumFunctionOnSet(h, Credential) = SumFunctionOnSet(used, Credential) + 1
    BY <2>3, <2>4, <2>5, <2>6, <2>7
  <2>9. QED  BY <2>8 DEF h
<1>5. ASSUME NEW c \in Credential PROVE Cardinality(DoneBy(c)') <= used'[c]
  <2>1. Last(tried'[r]) = x
    <3>1. tried'[r] = Append(tried[r], x) /\ tried[r] \in Seq(Attempt) /\ Len(tried[r]) \in Nat  BY <1>1
    <3>2. Len(Append(tried[r], x)) = Len(tried[r]) + 1  BY <3>1
    <3>3. Append(tried[r], x)[Len(tried[r]) + 1] = x  BY <3>1
    <3>4. QED  BY <3>1, <3>2, <3>3 DEF Last
  <2>2. \A q \in Requests \ {r} : q \in DoneBy(c)' <=> q \in DoneBy(c)
    BY <1>1 DEF DoneBy, Appends
  <2>3. DoneBy(c)' \subseteq Requests /\ DoneBy(c) \subseteq Requests /\ r \notin DoneBy(c)
    BY DEF DoneBy, Appends
  <2>4. IsFiniteSet(DoneBy(c)) /\ Cardinality(DoneBy(c)) \in Nat  BY DoneByFinite
  <2>5. Cardinality(DoneBy(c)) <= used[c] /\ used[c] \in Nat  BY DEF Counted, CountersTyped
  <2>6. CASE r \in DoneBy(c)'
    <3>1. label = "done" /\ x.by = c  BY <2>1, <2>6 DEF DoneBy, Appends
    <3>2. c = d /\ used'[c] = used[c] + 1  BY <3>1 DEF CountersTyped
    <3>3. DoneBy(c)' = DoneBy(c) \cup {r}  BY <2>2, <2>3, <2>6
    <3>4. Cardinality(DoneBy(c)') = Cardinality(DoneBy(c)) + 1
      BY <2>3, <2>4, <3>3, FS_AddElement
    <3>5. QED  BY <2>4, <2>5, <3>2, <3>4
  <2>7. CASE r \notin DoneBy(c)'
    <3>1. DoneBy(c)' = DoneBy(c)  BY <2>2, <2>3, <2>7
    <3>2. used'[c] \in Nat /\ used'[c] >= used[c]  BY <2>5 DEF CountersTyped
    <3>3. QED  BY <2>4, <2>5, <3>1, <3>2
  <2>8. QED  BY <2>6, <2>7
<1>6. SumFunctionOnSet(used, Credential) = Cardinality(CountedNow)  BY DEF Counted
<1>7. SumFunctionOnSet(used', Credential) = Cardinality(CountedNow')  BY <1>3, <1>4, <1>6
<1>8. QED  BY <1>3, <1>5, <1>7 DEF Counted

-----------------------------------------------------------------------------
(* The steps of the gateway *)

IInv == CountersTyped /\ RequestsOK /\ KeyLimitsHold /\ Counted

\* Only r moves, to d.
Moves(r, d) ==
    /\ req' = [q \in Requests |-> req'[q]] /\ req'[r] = d
    /\ \A q \in Requests \ {r} : req'[q] = req[q]

LEMMA OthersOK ==
    ASSUME RequestsOK, NEW r \in Requests, NEW d, Moves(r, d), window' = window,
           RequestOK(d, tried'[r], admitted'[r], window),
           \A q \in Requests \ {r} : tried'[q] = tried[q] /\ admitted'[q] = admitted[q]
    PROVE  RequestsOK'
<1> SUFFICES ASSUME NEW q \in Requests
             PROVE  RequestOK(req'[q], tried'[q], admitted'[q], window')
  BY DEF RequestsOK
<1>1. CASE q = r  BY <1>1 DEF Moves
<1>2. CASE q # r  BY <1>2 DEF Moves, RequestsOK
<1>3. QED  BY <1>1, <1>2

\* A step of a request that neither is let in nor answered by it.
LEMMA QuietOK ==
    ASSUME IInv, NEW r \in Requests, NEW d, Moves(r, d),
           UNCHANGED <<window, keyUsed, used, cooling, tried, admitted>>,
           RequestOK(d, tried[r], admitted[r], window),
           d.cost = req[r].cost, d.pc # "done", req[r].pc # "done"
    PROVE  IInv'
<1>1. CountersTyped'  BY DEF IInv, CountersTyped, Moves
<1>2. RequestsOK'  BY OthersOK DEF IInv
<1>3. \A q \in Requests : req'[q].cost = req[q].cost  BY DEF Moves
<1>4. KeyLimitsHold'  BY <1>3, CostsKept DEF IInv
<1>5. \A q \in Requests : req'[q].pc = "done" <=> req[q].pc = "done"  BY DEF Moves
<1>6. Counted'  BY <1>5, CountsKept DEF IInv
<1>7. QED  BY <1>1, <1>2, <1>4, <1>6 DEF IInv

LEMMA Known ==
    ASSUME IInv, NEW r \in Requests
    PROVE  /\ RequestOK(req[r], tried[r], admitted[r], window) /\ window \in Nat
           /\ req[r] \in Entry /\ DOMAIN req = Requests
           /\ DOMAIN tried = Requests /\ DOMAIN admitted = Requests
<1>1. RequestOK(req[r], tried[r], admitted[r], window)  BY DEF IInv, RequestsOK
<1>2. window \in Nat  BY MaxWindowAssumption DEF IInv, CountersTyped
<1>3. QED  BY <1>1, <1>2 DEF IInv, CountersTyped, RequestOK, Typed

\* What becomes of the entry of a request that Arrive lets in.
Enters(r, cost, kind, incoming, ruled, fallback) ==
    \/ /\ kind = "message" /\ incoming # NoModel
       /\ req' = [req EXCEPT ![r].pc = IF CustomRouter THEN "custom" ELSE Unscripted,
                             ![r].kind = kind, ![r].cost = cost,
                             ![r].configured = Configured(incoming, ruled),
                             ![r].model = Configured(incoming, ruled),
                             ![r].fallback = fallback]
    \/ /\ kind # "message" /\ ruled = NoModel
       /\ kind \in {"raw", "bare"} => incoming = NoModel
       /\ req' = [req EXCEPT ![r].pc = "send", ![r].kind = kind, ![r].cost = cost,
                             ![r].source = "unrouted", ![r].model = incoming,
                             ![r].fallback = fallback]

LEMMA ArriveCases ==
    ASSUME NEW r \in Requests, Arrive(r)
    PROVE  \E cost \in Costs :
              \/ /\ WithinLimits(cost)
                 /\ keyUsed' = [rule \in Rules |-> keyUsed[rule] + cost[rule]]
                 /\ admitted' = [admitted EXCEPT ![r] = window]
                 /\ \E kind \in Kinds, incoming \in Target, ruled \in Target, fallback \in Fallbacks :
                       Enters(r, cost, kind, incoming, ruled, fallback)
              \/ /\ ~WithinLimits(cost)
                 /\ req' = [req EXCEPT ![r].pc = "refused"]
                 /\ UNCHANGED <<keyUsed, admitted>>
BY Zenon DEF Arrive, Enters

LEMMA EntersMoves ==
    ASSUME NEW r \in Requests, NEW cost \in Costs, DOMAIN req = Requests,
           req[r] \in Entry, req[r].source = "rules",
           NEW kind \in Kinds, NEW incoming \in Target, NEW ruled \in Target,
           NEW fallback \in Fallbacks, Enters(r, cost, kind, incoming, ruled, fallback)
    PROVE  \E d : Entered(req[r], d, cost) /\ Moves(r, d)
<1> DEFINE e == req[r]
<1>1. cost \in [Rules -> Nat] /\ fallback \in Fallback /\ kind \in Kind
  BY LimitsAssumption, FallbacksAssumption, KindsAssumption DEF Fallback
<1>2. CASE /\ kind = "message" /\ incoming # NoModel
           /\ req' = [req EXCEPT ![r].pc = IF CustomRouter THEN "custom" ELSE Unscripted,
                                 ![r].kind = kind, ![r].cost = cost,
                                 ![r].configured = Configured(incoming, ruled),
                                 ![r].model = Configured(incoming, ruled),
                                 ![r].fallback = fallback]
  <2> DEFINE m == Configured(incoming, ruled)
             label == IF CustomRouter THEN "custom" ELSE Unscripted
             d == [e EXCEPT !.pc = label, !.kind = kind, !.cost = cost,
                            !.configured = m, !.model = m, !.fallback = fallback]
  <2>1. m \in Models  BY <1>2 DEF Configured, Target
  <2>2. label \in {"custom", "asking", "send"}  BY DEF Unscripted
  <2>3. req' = [req EXCEPT ![r] = d]  BY <1>2
  <2> HIDE DEF m, label
  <2>4. /\ d \in Entry /\ d.cost = cost /\ d.pc = label /\ d.source = "rules"
        /\ d.model = m /\ d.configured = m
    BY <1>1, <2>1, <2>2 DEF Entry, Target
  <2> HIDE DEF d
  <2>5. Entered(e, d, cost)  BY <2>1, <2>2, <2>4 DEF Entered
  <2>6. Moves(r, d)  BY <2>3 DEF Moves
  <2>7. QED  BY <2>5, <2>6
<1>3. CASE /\ kind # "message"
           /\ req' = [req EXCEPT ![r].pc = "send", ![r].kind = kind, ![r].cost = cost,
                                 ![r].source = "unrouted", ![r].model = incoming,
                                 ![r].fallback = fallback]
  <2> DEFINE d == [e EXCEPT !.pc = "send", !.kind = kind, !.cost = cost,
                            !.source = "unrouted", !.model = incoming, !.fallback = fallback]
  <2>1. req' = [req EXCEPT ![r] = d]  BY <1>3
  <2>2. d \in Entry /\ d.cost = cost /\ d.pc = "send" /\ d.source = "unrouted"
    BY <1>1 DEF Entry
  <2> HIDE DEF d
  <2>3. Entered(e, d, cost)  BY <2>2 DEF Entered
  <2>4. Moves(r, d)  BY <2>1 DEF Moves
  <2>5. QED  BY <2>3, <2>4
<1>4. QED  BY <1>2, <1>3 DEF Enters

LEMMA ArriveKeeps ==
    ASSUME IInv, NEW r \in Requests, Arrive(r)
    PROVE  IInv'
<1>0. /\ RequestOK(req[r], tried[r], admitted[r], window) /\ window \in Nat
      /\ req[r] \in Entry /\ DOMAIN req = Requests
      /\ DOMAIN tried = Requests /\ DOMAIN admitted = Requests /\ req[r].pc = "idle"
  BY Known DEF Arrive
<1>1. PICK cost \in Costs :
          \/ /\ WithinLimits(cost)
             /\ keyUsed' = [rule \in Rules |-> keyUsed[rule] + cost[rule]]
             /\ admitted' = [admitted EXCEPT ![r] = window]
             /\ \E d : Entered(req[r], d, cost) /\ Moves(r, d)
          \/ /\ req' = [req EXCEPT ![r].pc = "refused"]
             /\ UNCHANGED <<keyUsed, admitted>>
  <2>1. req[r].source = "rules"  BY <1>0 DEF RequestOK, Staged
  <2>2. PICK cost \in Costs :
          \/ /\ WithinLimits(cost)
             /\ keyUsed' = [rule \in Rules |-> keyUsed[rule] + cost[rule]]
             /\ admitted' = [admitted EXCEPT ![r] = window]
             /\ \E kind \in Kinds, incoming \in Target, ruled \in Target, fallback \in Fallbacks :
                   Enters(r, cost, kind, incoming, ruled, fallback)
          \/ /\ ~WithinLimits(cost)
             /\ req' = [req EXCEPT ![r].pc = "refused"]
             /\ UNCHANGED <<keyUsed, admitted>>
    BY ArriveCases
  <2>3. CASE ~WithinLimits(cost)  BY <2>2, <2>3
  <2>4. CASE WithinLimits(cost)
    <3>1. PICK kind \in Kinds, incoming \in Target, ruled \in Target, fallback \in Fallbacks :
              Enters(r, cost, kind, incoming, ruled, fallback)
      BY <2>2, <2>4
    <3>2. \E d : Entered(req[r], d, cost) /\ Moves(r, d)
      BY <1>0, <2>1, <3>1, EntersMoves
    <3>3. QED  BY <2>2, <2>4, <3>2
  <2>5. QED  BY <2>3, <2>4
<1>2. UNCHANGED <<window, used, cooling, tried>>  BY DEF Arrive
<1>3. CASE /\ req' = [req EXCEPT ![r].pc = "refused"]
           /\ UNCHANGED <<keyUsed, admitted>>
  <2> DEFINE d == [req[r] EXCEPT !.pc = "refused"]
  <2>1. Moves(r, d)  BY <1>0, <1>3 DEF Moves
  <2>2. RequestOK(d, tried[r], admitted[r], window)  BY <1>0, RefusedOK
  <2>3. d.cost = req[r].cost /\ d.pc = "refused"  BY <1>0 DEF Entry
  <2> HIDE DEF d
  <2>4. QED  BY <1>0, <1>2, <1>3, <2>1, <2>2, <2>3, QuietOK
<1>4. CASE /\ WithinLimits(cost)
           /\ keyUsed' = [rule \in Rules |-> keyUsed[rule] + cost[rule]]
           /\ admitted' = [admitted EXCEPT ![r] = window]
           /\ \E d : Entered(req[r], d, cost) /\ Moves(r, d)
  <2>1. PICK d : Entered(req[r], d, cost) /\ Moves(r, d)  BY <1>4
  <2>2. RequestOK(d, tried[r], window, window)  BY <1>0, <2>1, EnteredOK
  <2>3. Moves(r, d)  BY <2>1
  <2>4. d.cost = cost /\ d.pc # "done"  BY <2>1 DEF Entered
  <2>5. admitted'[r] = window /\ \A q \in Requests \ {r} : admitted'[q] = admitted[q]
    BY <1>0, <1>4
  <2>6. RequestsOK'  BY <1>2, <2>2, <2>3, <2>5, OthersOK DEF IInv
  <2>7. KeyLimitsHold'
    <3>1. req'[r].cost = cost /\ \A q \in Requests \ {r} : req'[q] = req[q]
      BY <2>3, <2>4 DEF Moves
    <3>2. CountersTyped /\ RequestsOK /\ KeyLimitsHold  BY DEF IInv
    <3>3. /\ WithinLimits(cost) /\ window' = window /\ req[r].pc = "idle"
          /\ keyUsed' = [rule \in Rules |-> keyUsed[rule] + cost[rule]]
          /\ admitted' = [admitted EXCEPT ![r] = window]
      BY <1>0, <1>2, <1>4
    <3>4. QED  BY <3>1, <3>2, <3>3, CostCharged
  <2>8. \A q \in Requests : req'[q].pc = "done" <=> req[q].pc = "done"
    BY <1>0, <2>3, <2>4 DEF Moves
  <2>9. Counted'  BY <1>2, <2>8, CountsKept DEF IInv
  <2>10. CountersTyped'
    <3>1. cost \in [Rules -> Nat]  BY LimitsAssumption
    <3>2. keyUsed' \in [Rules -> Nat]  BY <1>4, <3>1 DEF IInv, CountersTyped
    <3>3. QED  BY <1>2, <1>4, <2>3, <3>2 DEF IInv, CountersTyped, Moves
  <2>11. QED  BY <2>6, <2>7, <2>9, <2>10 DEF IInv
<1>5. QED  BY <1>1, <1>3, <1>4

\* A step on the way to the first attempt.
LEMMA RoutingKeeps ==
    ASSUME IInv, NEW r \in Requests, NEW d \in Entry, Moves(r, d),
           UNCHANGED <<window, keyUsed, used, cooling, tried, admitted>>,
           req[r].pc \in {"custom", "asking", "reading"}, d.pc \in {"asking", "reading", "send"},
           d.cost = req[r].cost, d.configured = req[r].configured, d.model \in Models,
           d.pc # "send" => d.source = "rules",
           d.source = "rules" => d.model = d.configured,
           d.source = "router" => d.model \in Candidates
    PROVE  IInv'
<1>1. RequestOK(req[r], tried[r], admitted[r], window) /\ window \in Nat  BY Known
<1>2. RequestOK(d, tried[r], admitted[r], window)  BY <1>1, RoutingOK
<1>3. QED  BY <1>2, QuietOK

LEMMA RoutingStepsKeep ==
    ASSUME IInv, NEW r \in Requests,
           Custom(r) \/ RouterBegins(r) \/ RouterAnswers(r) \/ RouterFails(r)
    PROVE  IInv'
<1> DEFINE e == req[r]
<1>1. /\ RequestOK(e, tried[r], admitted[r], window)
      /\ e \in Entry /\ DOMAIN req = Requests /\ e.pc \in {"custom", "asking", "reading"}
      /\ UNCHANGED <<window, keyUsed, used, cooling, tried, admitted>>
  BY Known DEF Custom, RouterBegins, RouterAnswers, RouterFails
<1>2. e.source = "rules" /\ e.model = e.configured /\ e.model \in Models
  <2>1. e.source = "rules"  BY <1>1 DEF RequestOK, Staged
  <2>2. QED  BY <1>1, <2>1 DEF RequestOK, Staged, Routed
<1>3. ASSUME NEW label \in {"asking", "reading", "send"}, NEW m \in Models,
             NEW source \in {"rules", "custom", "router"},
             req' = [req EXCEPT ![r].pc = label, ![r].model = m, ![r].source = source],
             label # "send" => source = "rules", source = "rules" => m = e.configured,
             source = "router" => m \in Candidates
      PROVE  IInv'
  <2> DEFINE d == [e EXCEPT !.pc = label, !.model = m, !.source = source]
  <2>1. /\ d \in Entry /\ d.pc = label /\ d.model = m /\ d.source = source
        /\ d.configured = e.configured /\ d.cost = e.cost
    BY <1>1 DEF Entry, Target
  <2>2. Moves(r, d)  BY <1>1, <1>3 DEF Moves
  <2> HIDE DEF d
  <2>3. QED  BY <1>1, <1>3, <2>1, <2>2, RoutingKeeps
<1>4. CASE Custom(r)
  <2>1. ASSUME NEW m \in Models,
               req' = [req EXCEPT ![r].pc = "send", ![r].model = m, ![r].source = "custom"]
        PROVE  IInv'
    BY <1>3, <2>1
  <2>2. ASSUME NEW label \in {"asking", "send"}, req' = [req EXCEPT ![r].pc = label]
        PROVE  IInv'
    <3>1. req' = [req EXCEPT ![r].pc = label, ![r].model = e.model, ![r].source = "rules"]
      BY <1>1, <1>2, <2>2 DEF Entry
    <3>2. QED  BY <1>2, <1>3, <3>1
  <2>3. Unscripted \in {"asking", "send"}  BY DEF Unscripted
  <2>4. QED  BY <1>4, <2>1, <2>2, <2>3 DEF Custom
<1>5. CASE RouterBegins(r)
  <2>1. req' = [req EXCEPT ![r].pc = "reading", ![r].model = e.model, ![r].source = "rules"]
    BY <1>1, <1>2, <1>5 DEF Entry, RouterBegins
  <2>2. QED  BY <1>2, <1>3, <2>1
<1>6. CASE RouterAnswers(r)
  <2>1. PICK m \in Models \cup {NoModel} :
            req' = [req EXCEPT ![r].pc = "send", ![r].model = RouterChoice(m, r),
                               ![r].source = IF m \in Candidates THEN "router" ELSE @]
    BY <1>6 DEF RouterAnswers
  <2>2. CASE m \in Candidates
    <3>1. m \in Models  BY <2>2, CandidatesAssumption
    <3>2. req' = [req EXCEPT ![r].pc = "send", ![r].model = m, ![r].source = "router"]
      BY <2>1, <2>2 DEF RouterChoice
    <3>3. QED  BY <1>3, <2>2, <3>1, <3>2
  <2>3. CASE m \notin Candidates
    <3>1. req' = [req EXCEPT ![r].pc = "send", ![r].model = e.configured, ![r].source = "rules"]
      BY <1>2, <2>1, <2>3 DEF RouterChoice
    <3>2. QED  BY <1>2, <1>3, <3>1
  <2>4. QED  BY <2>2, <2>3
<1>7. CASE RouterFails(r)
  <2>1. req' = [req EXCEPT ![r].pc = "send", ![r].model = e.configured, ![r].source = "rules"]
    BY <1>1, <1>2, <1>7 DEF Entry, RouterFails
  <2>2. QED  BY <1>2, <1>3, <2>1
<1>8. QED  BY <1>4, <1>5, <1>6, <1>7

LEMMA SendKeepsAll ==
    ASSUME IInv, NEW r \in Requests, Send(r)
    PROVE  IInv'
<1> DEFINE left == IF tried[r] = <<>> THEN Attempts(req[r].kind, req[r].fallback, req[r].model)
                     ELSE req[r].left
           candidates == IF Head(left) \notin Candidates THEN {}
                         ELSE IF Available # {} THEN Available ELSE Credential
           queue == Queue(req[r], tried[r])
<1>1. PICK chain \in [1..Cardinality(candidates) -> candidates] :
          req' = [req EXCEPT ![r].pc = "waiting", ![r].target = Head(left),
                             ![r].left = Tail(left), ![r].chain = chain,
                             ![r].saturated = @ \/ (candidates # {} /\ Available = {})]
  BY DEF Send
<1>2. /\ RequestOK(req[r], tried[r], admitted[r], window) /\ window \in Nat
      /\ req[r] \in Entry /\ DOMAIN req = Requests /\ req[r].pc = "send"
      /\ UNCHANGED <<window, keyUsed, used, cooling, tried, admitted>>
  BY Known DEF Send
<1>3. left = queue  BY DEF Queue, Plan
<1>4. candidates \subseteq Credential  BY DEF Available
<1> DEFINE saturated == req[r].saturated \/ (candidates # {} /\ Available = {})
<1> HIDE DEF left, candidates
<1>5. chain \in Seq(Credential)
  <2>1. candidates \in SUBSET Credential  BY <1>4
  <2>2. Cardinality(candidates) \in Nat  BY <2>1, CredentialsFinite, FS_Subset, FS_CardinalityType
  <2>3. QED  BY <1>4, <2>2
<1>6. saturated \in BOOLEAN  OBVIOUS
<1> DEFINE d == [req[r] EXCEPT !.pc = "waiting", !.target = Head(queue), !.left = Tail(queue),
                               !.chain = chain, !.saturated = saturated]
<1>7. Moves(r, d)  BY <1>1, <1>2, <1>3 DEF Moves
<1> HIDE DEF saturated, queue
<1>8. d.cost = req[r].cost /\ d.pc = "waiting"  BY <1>2 DEF Entry
<1>9. RequestOK(d, tried[r], admitted[r], window)  BY <1>2, <1>5, <1>6, SentOK DEF queue
<1> HIDE DEF d
<1>10. QED  BY <1>2, <1>7, <1>8, <1>9, QuietOK

LEMMA AnsweredKeepsAll ==
    ASSUME IInv, NEW r \in Requests, Answered(r)
    PROVE  IInv'
<1> DEFINE e == req[r]
           t == tried[r]
<1>1. /\ RequestOK(e, t, admitted[r], window) /\ window \in Nat
      /\ e \in Entry /\ DOMAIN req = Requests /\ DOMAIN tried = Requests /\ e.pc = "waiting"
      /\ UNCHANGED <<window, keyUsed, admitted>>
  BY Known DEF Answered
<1>2. PICK outcome \in Outcomes, by \in ToSet(e.chain) \cup {"core", "nobody"} :
          LET final == LastAttempt(r) \/ ~GoesOn(outcome, e.fallback.mode)
              charged == IF final /\ by # "core" THEN by ELSE Head(e.chain) IN
          /\ (outcome = "network" \/ e.chain = <<>>) <=> by = "nobody"
          /\ tried' = [tried EXCEPT ![r] =
                Append(@, [model |-> e.target, by |-> by, outcome |-> outcome,
                           window |-> window])]
          /\ req' = [req EXCEPT ![r].pc = IF final THEN "done"
                                          ELSE IF outcome = "busy" THEN "pausing" ELSE "send"]
          /\ IF by = "nobody" THEN UNCHANGED <<used, cooling>>
             ELSE RecordOutcome(charged, outcome)
  BY DEF Answered
<1> DEFINE final == LastAttempt(r) \/ ~GoesOn(outcome, e.fallback.mode)
           charged == IF final /\ by # "core" THEN by ELSE Head(e.chain)
           x == [model |-> e.target, by |-> by, outcome |-> outcome, window |-> window]
           label == IF final THEN "done" ELSE IF outcome = "busy" THEN "pausing" ELSE "send"
           d == [e EXCEPT !.pc = label]
<1>3. e.chain \in Seq(Credential) /\ e.target \in Target  BY <1>1 DEF Entry
<1>4. ToSet(e.chain) \subseteq Credential  BY <1>3 DEF ToSet
<1>5. x \in Attempt
  <2>1. outcome \in Outcome /\ by \in Credential \cup {"core", "nobody"}
    BY <1>4, OutcomesAssumption
  <2>2. window \in 0..MaxWindow  BY DEF IInv, CountersTyped
  <2>3. QED  BY <1>3, <2>1, <2>2 DEF Attempt
<1>6. label \in {"done", "pausing", "send"}  OBVIOUS
<1>7. label = "done" => e.left = <<>> \/ ~GoesOn(outcome, e.fallback.mode)
  BY DEF LastAttempt
<1>8. label # "done" => e.left # <<>> /\ GoesOn(outcome, e.fallback.mode)
  BY DEF LastAttempt
<1>9. /\ tried' = [tried EXCEPT ![r] = Append(@, x)]
      /\ req' = [req EXCEPT ![r].pc = label]
  BY <1>2
<1>10. IF by = "nobody" THEN UNCHANGED <<used, cooling>> ELSE RecordOutcome(charged, outcome)
  BY <1>2
<1>11. (outcome = "network" \/ e.chain = <<>>) <=> by = "nobody"  BY <1>2
<1>12. x.model = e.target /\ x.window = window /\ x.by = by /\ x.outcome = outcome  OBVIOUS
<1>13. by # "nobody" => charged \in Credential
  <2> SUFFICES ASSUME by # "nobody" PROVE charged \in Credential  OBVIOUS
  <2>1. e.chain # <<>>  BY <1>11
  <2>2. Head(e.chain) \in Credential  BY <1>3, <2>1
  <2>3. QED  BY <1>4, <2>2
<1>14. label = "done" /\ by \in Credential => by = charged
  <2>1. by \in Credential => by # "core"  BY CredentialsAssumption
  <2>2. QED  BY <2>1
<1> HIDE DEF x, label, charged, final
<1>15. RequestOK(d, Append(t, x), admitted[r], window)
  BY <1>1, <1>5, <1>6, <1>7, <1>8, <1>12, AnsweredOK
<1>16. Moves(r, d) /\ tried'[r] = Append(t, x) /\ \A q \in Requests \ {r} : tried'[q] = tried[q]
  BY <1>1, <1>9 DEF Moves
<1>17. d.cost = e.cost /\ d.pc = label  BY <1>1 DEF Entry
<1> HIDE DEF d
<1>18. RequestsOK'  BY <1>1, <1>15, <1>16, OthersOK DEF IInv
<1>19. KeyLimitsHold'
  <2>1. \A q \in Requests : req'[q].cost = req[q].cost  BY <1>16, <1>17 DEF Moves
  <2>2. QED  BY <1>1, <2>1, CostsKept DEF IInv
<1>20. Appends(r, x, label)  BY <1>1, <1>9, <1>16, <1>17 DEF Appends, Moves
<1>21. Counted'
  <2>1. CASE CountsNow(x)
    <3>1. by # "nobody" /\ Counts(outcome)  BY <1>12, <2>1 DEF CountsNow
    <3>2. used' = [used EXCEPT ![charged] = @ + 1]  BY <1>10, <3>1 DEF RecordOutcome
    <3>3. QED  BY <1>12, <1>13, <1>14, <1>20, <2>1, <3>1, <3>2, CountedOnce DEF IInv
  <2>2. CASE ~CountsNow(x)
    <3>1. by = "nobody" \/ ~Counts(outcome)  BY <1>12, <2>2 DEF CountsNow
    <3>2. used' = used  BY <1>10, <3>1 DEF RecordOutcome
    <3>3. QED  BY <1>20, <2>2, <3>2, NotCounted DEF IInv
  <2>3. QED  BY <2>1, <2>2
<1>22. CountersTyped'
  <2>1. used \in [Credential -> Nat] /\ cooling \subseteq Credential  BY DEF IInv, CountersTyped
  <2>2. used' \in [Credential -> Nat] /\ cooling' \subseteq Credential
    <3>1. CASE by = "nobody"  BY <1>10, <2>1, <3>1
    <3>2. CASE by # "nobody"
      <4>1. RecordOutcome(charged, outcome) /\ charged \in Credential  BY <1>10, <1>13, <3>2
      <4>2. used' \in [Credential -> Nat]  BY <2>1, <4>1 DEF RecordOutcome
      <4>3. cooling' \subseteq Credential  BY <2>1, <4>1 DEF RecordOutcome
      <4>4. QED  BY <4>2, <4>3
    <3>3. QED  BY <3>1, <3>2
  <2>3. QED  BY <1>1, <1>9, <1>16, <2>2 DEF IInv, CountersTyped, Moves
<1>23. QED  BY <1>18, <1>19, <1>21, <1>22 DEF IInv

LEMMA PausesKeeps ==
    ASSUME IInv, NEW r \in Requests, Pauses(r)
    PROVE  IInv'
<1> DEFINE d == [req[r] EXCEPT !.pc = "send"]
<1>1. /\ RequestOK(req[r], tried[r], admitted[r], window) /\ window \in Nat
      /\ req[r] \in Entry /\ DOMAIN req = Requests /\ req[r].pc = "pausing"
      /\ UNCHANGED <<window, keyUsed, used, cooling, tried, admitted>>
  BY Known DEF Pauses
<1>2. Moves(r, d)  BY <1>1 DEF Moves, Pauses
<1>3. RequestOK(d, tried[r], admitted[r], window)  BY <1>1, PausedOK
<1>4. d.cost = req[r].cost /\ d.pc = "send"  BY <1>1 DEF Entry
<1> HIDE DEF d
<1>5. QED  BY <1>1, <1>2, <1>3, <1>4, QuietOK

LEMMA TickKeepsAll ==
    ASSUME IInv, Tick
    PROVE  IInv'
<1>1. /\ window < MaxWindow /\ window' = window + 1 /\ window \in 0..MaxWindow
      /\ keyUsed' = [rule \in Rules |-> 0] /\ used' = [c \in Credential |-> 0]
      /\ UNCHANGED <<cooling, req, tried, admitted>>
  BY DEF Tick, IInv, CountersTyped
<1>2. CountersTyped'
  <2>1. window' \in 0..MaxWindow  BY <1>1, MaxWindowAssumption
  <2>2. QED  BY <1>1, <2>1 DEF IInv, CountersTyped
<1>3. RequestsOK'
  <2>1. window \in Nat  BY <1>1, MaxWindowAssumption
  <2>2. ASSUME NEW r \in Requests PROVE RequestOK(req[r], tried[r], admitted[r], window + 1)
    <3>1. RequestOK(req[r], tried[r], admitted[r], window)  BY DEF IInv, RequestsOK
    <3>2. QED  BY <2>1, <3>1, LaterOK
  <2>3. QED  BY <1>1, <2>2 DEF RequestsOK
<1>4. KeyLimitsHold'
  <2>1. Admitted' = {}
    <3>1. ASSUME NEW r \in Requests PROVE admitted[r] # window + 1
      <4>1. admitted[r] \in {-1} \cup (0..window)  BY DEF IInv, RequestsOK, RequestOK, Typed
      <4>2. QED  BY <1>1, <4>1, MaxWindowAssumption
    <3>2. QED  BY <1>1, <3>1 DEF Admitted
  <2>2. ASSUME NEW rule \in Rules PROVE SumFunctionOnSet(CostOf(rule)', Admitted') = 0
    <3>1. IsFiniteSet({})  BY FS_EmptySet
    <3>2. \A x \in {} : CostOf(rule)'[x] = 0  OBVIOUS
    <3> DEFINE h == CostOf(rule)'
    <3> HIDE DEF h
    <3>3. SumFunctionOnSet(h, {}) = 0  BY <3>1, SumOfZeros
    <3>4. QED  BY <2>1, <3>3 DEF h
  <2>3. \A rule \in Rules : keyUsed'[rule] = 0 /\ KeyLimit[rule] \in Nat
    BY <1>1, LimitsAssumption
  <2>4. ASSUME NEW rule \in Rules
        PROVE  /\ keyUsed'[rule] = SumFunctionOnSet(CostOf(rule)', Admitted')
               /\ keyUsed'[rule] <= KeyLimit[rule]
    BY <2>2, <2>3
  <2>5. QED  BY <2>4, Zenon DEF KeyLimitsHold, CostOf, Admitted
<1>5. Counted'  BY <1>1, CountsRestart DEF IInv
<1>6. QED  BY <1>2, <1>3, <1>4, <1>5 DEF IInv

LEMMA NothingCounts ==
    ASSUME IInv, UNCHANGED <<window, keyUsed, used, req, tried, admitted>>,
           cooling' \subseteq Credential
    PROVE  IInv'
<1>1. CountersTyped'  BY DEF IInv, CountersTyped
<1>2. RequestsOK'  BY DEF IInv, RequestsOK
<1>3. KeyLimitsHold'  BY CostsKept DEF IInv
<1>4. Counted'  BY CountsKept DEF IInv
<1>5. QED  BY <1>1, <1>2, <1>3, <1>4 DEF IInv

LEMMA IInvInit == Init => IInv
<1> SUFFICES ASSUME Init PROVE IInv  OBVIOUS
<1>1. CountersTyped  BY MaxWindowAssumption DEF Init, CountersTyped
<1>2. ASSUME NEW r \in Requests PROVE RequestOK(req[r], tried[r], admitted[r], window)
  <2>1. /\ tried[r] = <<>> /\ admitted[r] = -1 /\ window = 0
        /\ req[r] = [pc |-> "idle", kind |-> "message", cost |-> [rule \in Rules |-> 0],
                     configured |-> NoModel, model |-> NoModel, target |-> NoModel,
                     source |-> "rules",
                     fallback |-> [mode |-> "off", retries |-> 0, models |-> <<>>],
                     left |-> <<>>, chain |-> <<>>, saturated |-> FALSE]
    BY DEF Init
  <2>2. [mode |-> "off", retries |-> 0, models |-> <<>>] \in Fallback  BY DEF Fallback
  <2>3. req[r] \in Entry  BY <2>1, <2>2 DEF Entry, Kind, Target
  <2>4. Typed(req[r], tried[r], admitted[r], window)  BY <2>1, <2>3 DEF Typed
  <2>5. req[r].pc = "idle" /\ req[r].source = "rules"  BY <2>1
  <2>6. Staged(req[r], tried[r], admitted[r]) /\ Routed(req[r])
        /\ OnPlan(req[r], tried[r])
    BY <2>1, <2>5 DEF Staged, Routed, OnPlan, Unsent
  <2>7. QED  BY <2>4, <2>6 DEF RequestOK
<1>3. RequestsOK  BY <1>2 DEF RequestsOK
<1>4. IsFiniteSet({}) /\ Cardinality({}) = 0  BY FS_EmptySet
<1>5. KeyLimitsHold
  <2>1. Admitted = {}  BY DEF Init, Admitted
  <2>2. ASSUME NEW rule \in Rules PROVE SumFunctionOnSet(CostOf(rule), Admitted) = 0
    <3> DEFINE h == CostOf(rule)
    <3>1. \A x \in {} : h[x] = 0  OBVIOUS
    <3> HIDE DEF h
    <3>2. SumFunctionOnSet(h, {}) = 0  BY <1>4, <3>1, SumOfZeros
    <3>3. QED  BY <2>1, <3>2 DEF h
  <2>3. \A rule \in Rules : keyUsed[rule] = 0 /\ KeyLimit[rule] \in Nat
    BY LimitsAssumption DEF Init
  <2>4. QED  BY <2>2, <2>3, KeyLimitsExpanded
<1>6. Counted
  <2>1. CountedNow = {}
    <3>1. \A r \in Requests : DOMAIN tried[r] = {}  BY DEF Init
    <3>2. \A r, n : <<r, n>> \notin CountedNow  BY <3>1, CountedMember
    <3>3. QED  BY <3>2, CountedMember
  <2>2. SumFunctionOnSet(used, Credential) = 0
    <3>1. IsFiniteSet(Credential)  BY CredentialsFinite
    <3>2. \A c \in Credential : used[c] = 0  BY DEF Init
    <3>3. QED  BY <3>1, <3>2, SumOfZeros
  <2>3. ASSUME NEW c \in Credential PROVE Cardinality(DoneBy(c)) <= used[c]
    <3>1. DoneBy(c) = {}  BY <2>1 DEF DoneBy
    <3>2. used[c] = 0  BY DEF Init
    <3>3. QED  BY <1>4, <3>1, <3>2
  <2>4. QED  BY <1>4, <2>1, <2>2, <2>3 DEF Counted
<1>7. QED  BY <1>1, <1>3, <1>5, <1>6 DEF IInv

LEMMA IInvNext == IInv /\ [Next]_vars => IInv'
<1> SUFFICES ASSUME IInv, [Next]_vars PROVE IInv'  OBVIOUS
<1>1. CASE Tick  BY <1>1, TickKeepsAll
<1>2. CASE CooldownEnds
  <2>1. cooling' \subseteq Credential  BY <1>2 DEF CooldownEnds, IInv, CountersTyped
  <2>2. QED  BY <1>2, <2>1, NothingCounts DEF CooldownEnds
<1>3. ASSUME NEW r \in Requests, Arrive(r) PROVE IInv'  BY <1>3, ArriveKeeps
<1>4. ASSUME NEW r \in Requests,
             Custom(r) \/ RouterBegins(r) \/ RouterAnswers(r) \/ RouterFails(r)
      PROVE  IInv'
  BY <1>4, RoutingStepsKeep
<1>5. ASSUME NEW r \in Requests, Send(r) PROVE IInv'  BY <1>5, SendKeepsAll
<1>6. ASSUME NEW r \in Requests, Answered(r) PROVE IInv'  BY <1>6, AnsweredKeepsAll
<1>7. ASSUME NEW r \in Requests, Pauses(r) PROVE IInv'  BY <1>7, PausesKeeps
<1>8. CASE UNCHANGED vars
  <2>1. cooling' \subseteq Credential  BY <1>8 DEF vars, IInv, CountersTyped
  <2>2. QED  BY <1>8, <2>1, NothingCounts DEF vars
<1>9. QED  BY <1>1, <1>2, <1>3, <1>4, <1>5, <1>6, <1>7, <1>8 DEF Next

LEMMA Inductive == Spec => []IInv
BY IInvInit, IInvNext, PTL DEF Spec

LEMMA TypesEnough == IInv => TypeOK
<1> SUFFICES ASSUME IInv PROVE TypeOK  OBVIOUS
<1>1. window \in 0..MaxWindow  BY DEF IInv, CountersTyped
<1>2. ASSUME NEW r \in Requests
      PROVE  /\ req[r] \in Entry /\ tried[r] \in Seq(Attempt)
             /\ admitted[r] \in {-1} \cup (0..MaxWindow)
  <2>1. /\ req[r] \in Entry /\ tried[r] \in Seq(Attempt)
        /\ admitted[r] \in {-1} \cup (0..window)
    BY DEF IInv, RequestsOK, RequestOK, Typed
  <2>2. QED  BY <1>1, <2>1, MaxWindowAssumption
<1>3. ASSUME NEW r \in Requests, req[r].model = NoModel
      PROVE  req[r].pc \in {"idle", "refused"} \/ req[r].source = "unrouted"
  BY <1>3, CandidatesAssumption DEF IInv, RequestsOK, RequestOK, Staged
<1>4. QED  BY <1>2, <1>3 DEF IInv, CountersTyped, TypeOK

LEMMA RoutesEnough == IInv => RouterFailureKeepsRoute
<1> SUFFICES ASSUME IInv, NEW r \in Requests, tried[r] # <<>>
             PROVE  /\ req[r].source = "rules" => tried[r][1].model = req[r].configured
                    /\ req[r].source = "router" => tried[r][1].model \in Candidates
  BY DEF RouterFailureKeepsRoute
<1>1. RequestOK(req[r], tried[r], admitted[r], window)  BY DEF IInv, RequestsOK
<1>2. req[r].pc \notin Unsent  BY <1>1 DEF RequestOK, Staged
<1>3. Follows(req[r], tried[r], Plan(req[r]))  BY <1>1, <1>2 DEF RequestOK, OnPlan
<1>4. /\ tried[r] \in Seq(Attempt)
      /\ req[r].model \in Models => Plan(req[r])[1] = req[r].model
  BY <1>1, PlanTyped
<1>5. req[r].model \in Models => tried[r][1].model = req[r].model  BY <1>3, <1>4 DEF Follows
<1>6. req[r].source # "unrouted" => req[r].model \in Models
  BY <1>1, <1>2 DEF RequestOK, Staged, Unsent
<1>7. QED  BY <1>1, <1>2, <1>5, <1>6 DEF RequestOK, Routed, Unsent

LEMMA FallbackEnough == IInv => FallbackAsEntitled
<1> SUFFICES ASSUME IInv, NEW r \in Requests, req[r].pc = "done"
             PROVE  WentOn(r, Entitled(r))
  BY DEF FallbackAsEntitled
<1> DEFINE t == tried[r]
           k == Len(t)
           f == req[r].fallback
           kind == req[r].kind
           plan == Plan(req[r])
           targets == TargetsOf(f, req[r].model)
<1>1. RequestOK(req[r], t, admitted[r], window)  BY DEF IInv, RequestsOK
<1>2. t # <<>>  BY <1>1 DEF RequestOK, Staged
<1>3. req[r] \in Entry /\ t \in Seq(Attempt) /\ plan \in Seq(Target)  BY <1>1, PlanTyped
<1>4. f \in Fallback /\ kind \in Kind /\ req[r].model \in Target  BY <1>3 DEF Entry
<1>5. Follows(req[r], t, plan)  BY <1>1 DEF RequestOK, OnPlan, Unsent
<1>6. /\ Single(kind, f) => Len(plan) = 1
      /\ ~Single(kind, f) /\ f.mode = "retry" => Len(plan) = Retries(f) + 1
      /\ ~Single(kind, f) /\ f.mode = "model-chain" =>
             IF targets = {} THEN Len(plan) = 1 ELSE Spreads(plan, targets)
  BY <1>4, AttemptsPlanned DEF Plan
<1> HIDE DEF plan
<1>7. /\ k <= Len(plan)
      /\ \A n \in 1..k : t[n].model = plan[n]
      /\ \A n \in 1..k : n < k => GoesOn(t[n].outcome, f.mode)
      /\ k = Len(plan) \/ ~GoesOn(t[k].outcome, f.mode)
  BY <1>5 DEF Follows
<1>8. f.mode \in {"off", "retry", "model-chain"}  BY <1>4 DEF Fallback
<1>9. f.mode = "off" => Len(plan) = 1  BY <1>6 DEF Single
<1>10. k \in Nat /\ k >= 1 /\ Len(plan) \in Nat /\ \A n \in 1..k : t[n] \in Attempt
  BY <1>2, <1>3
<1>11. \A n \in 1..k : t[n].outcome \in Outcome  BY <1>10 DEF Attempt
<1>12. ASSUME NEW outcome \in Outcome, f.mode # "off"
       PROVE  Triggers(f.mode, outcome) <=> GoesOn(outcome, f.mode)
  BY <1>8, <1>12 DEF Triggers, GoesOn, Outcome
<1>13. targets = FallbackTargets(r)  BY DEF TargetsOf, FallbackTargets
<1> HIDE DEF targets
<1>14. Entitled(r) = IF Single(kind, f) THEN 1
                     ELSE IF f.mode = "retry" THEN Retries(f) + 1
                     ELSE IF targets = {} THEN 1 ELSE Cardinality(targets)
  BY <1>13 DEF Entitled, Single
<1>15. Len(plan) = Entitled(r)
  <2>1. CASE ~Single(kind, f) /\ f.mode = "model-chain" /\ targets # {}
    <3>1. PICK first : Lists(plan, first, targets)  BY <1>6, <2>1 DEF Spreads
    <3>2. Len(plan) = Cardinality(targets)  BY <3>1, ListsCounted
    <3>3. QED  BY <1>14, <2>1, <3>2
  <2>2. CASE ~(~Single(kind, f) /\ f.mode = "model-chain" /\ targets # {})
    <3>1. f.mode = "off" => Single(kind, f)  BY DEF Single
    <3>2. QED  BY <1>6, <1>8, <1>14, <2>2, <3>1
  <2>3. QED  BY <2>1, <2>2
<1>16. f.mode = "model-chain" => \A i, j \in 1..Len(plan) : plan[i] = plan[j] => i = j
  <2> SUFFICES ASSUME f.mode = "model-chain", NEW i \in 1..Len(plan), NEW j \in 1..Len(plan),
                      plan[i] = plan[j]
               PROVE  i = j
    OBVIOUS
  <2>1. CASE Len(plan) = 1  BY <2>1
  <2>2. CASE Len(plan) # 1
    <3>1. Spreads(plan, targets)  BY <1>6, <2>2
    <3>2. PICK first : Lists(plan, first, targets)  BY <3>1 DEF Spreads
    <3>3. QED  BY <3>2 DEF Lists
  <2>3. QED  BY <2>1, <2>2
<1>17. t = tried[r] /\ k = Len(tried[r]) /\ f.mode = req[r].fallback.mode  OBVIOUS
<1> HIDE DEF t, k, f, kind
<1>18. ASSUME NEW n \in 1..k - 1 PROVE Triggers(f.mode, t[n].outcome)
  <2>1. n \in 1..k /\ n < k  BY <1>10
  <2>2. f.mode # "off"  BY <1>7, <1>9, <1>10, <2>1
  <2>3. QED  BY <1>7, <1>11, <1>12, <2>1, <2>2
<1>19. ASSUME Triggers(f.mode, t[k].outcome) PROVE k = Entitled(r)
  <2>1. f.mode # "off"  BY <1>19 DEF Triggers
  <2>2. k \in 1..k  BY <1>10
  <2>3. GoesOn(t[k].outcome, f.mode)  BY <1>11, <1>12, <1>19, <2>1, <2>2
  <2>4. QED  BY <1>7, <1>15, <2>3
<1>20. ASSUME f.mode = "model-chain" PROVE IsInjective([n \in DOMAIN t |-> t[n].model])
  <2>1. DOMAIN t = 1..k  BY <1>3 DEF k
  <2>2. \A i, j \in 1..k : t[i].model = t[j].model => i = j
    <3>1. \A i \in 1..k : i \in 1..Len(plan) /\ t[i].model = plan[i]  BY <1>7, <1>10
    <3>2. QED  BY <1>16, <1>20, <3>1
  <2>3. QED  BY <2>1, <2>2 DEF IsInjective
<1>21. QED  BY <1>17, <1>18, <1>19, <1>20, Zenon DEF WentOn

\* Every variable keeps to its type: in particular what a request has left to
\* try is a sequence of models, never read past its end.
THEOREM TypeCorrect == Spec => []TypeOK
BY Inductive, TypesEnough, PTL

\* However many requests of a key arrive together, in each window they are let in
\* only within its limits, and what is charged is what the admitted ones cost.
THEOREM KeyLimits == Spec => []KeyLimitsHold
<1>1. IInv => KeyLimitsHold  BY DEF IInv
<1>2. QED  BY <1>1, Inductive, PTL

\* For any number of requests and credentials, the charges of a window are the
\* answers of it that count, and each last answer is charged to its credential.
THEOREM AnswersCounted == Spec => []AnswersCountedOnce
<1>1. IInv => AnswersCountedOnce  BY CountedSays DEF IInv, Counted
<1>2. QED  BY <1>1, Inductive, PTL

\* A router model that fails, is late or names no candidate never changes the
\* model the rules gave a request.
THEOREM RouteSurvivesRouter == Spec => []RouterFailureKeepsRoute
BY Inductive, RoutesEnough, PTL

\* For every kind of request and every configured fallback, of any length and with
\* repetitions, a request goes on after the answers the documentation names, for
\* as many attempts as it is entitled to, and tries no target twice.
THEOREM FallbackFollowsTable == Spec => []FallbackAsEntitled
BY Inductive, FallbackEnough, PTL

-----------------------------------------------------------------------------
(* A credential's limit: the inductive invariant *)

Field == {"pc", "kind", "cost", "configured", "model", "target", "source", "fallback",
          "left", "chain", "saturated"}

\* What the argument needs of the types.
Shape ==
    /\ used \in [Credential -> Nat]
    /\ DOMAIN req = Requests
    /\ \A r \in Requests :
          /\ DOMAIN req[r] = Field
          /\ req[r].saturated \in BOOLEAN
          /\ req[r].pc = "waiting" => req[r].chain \in Seq(Credential)

\* The requests whose answer may be charged to c.
Waiting(c) == {r \in Requests : req[r].pc = "waiting" /\ c \in ToSet(req[r].chain)}

NoneSaturated == \A r \in Requests : ~req[r].saturated

\* A request that waits with c in its chain stands for a charge to come.
WithinAllowance(c) == used[c] + Cardinality(Waiting(c)) <= Limit[c] + Cardinality(Requests) - 1

ChargesInv == Shape /\ (NoneSaturated => \A c \in Credential : WithinAllowance(c))

-----------------------------------------------------------------------------
(* A credential's limit: counting *)

LEMMA WaitingCounted ==
    ASSUME NEW c
    PROVE  /\ IsFiniteSet(Waiting(c))
           /\ Cardinality(Waiting(c)) \in Nat
           /\ Cardinality(Requests) \in Nat
           /\ Cardinality(Waiting(c)) <= Cardinality(Requests)
<1>1. Waiting(c) \in SUBSET Requests  BY DEF Waiting
<1>2. IsFiniteSet(Waiting(c)) /\ Cardinality(Waiting(c)) <= Cardinality(Requests)
  BY <1>1, FS_Subset, RequestsAssumption
<1>3. Cardinality(Waiting(c)) \in Nat /\ Cardinality(Requests) \in Nat
  BY <1>2, FS_CardinalityType, RequestsAssumption
<1>4. QED  BY <1>2, <1>3

\* Where fewer requests wait and nothing is charged, the allowance holds on.
LEMMA FewerWait ==
    ASSUME NEW c \in Credential, Shape, WithinAllowance(c), used' = used,
           Waiting(c)' \subseteq Waiting(c)
    PROVE  WithinAllowance(c)'
<1>1. IsFiniteSet(Waiting(c)) /\ Cardinality(Waiting(c)) \in Nat /\ Cardinality(Requests) \in Nat
  BY WaitingCounted
<1>2. Cardinality(Waiting(c)') <= Cardinality(Waiting(c)) /\ Cardinality(Waiting(c)') \in Nat
  BY <1>1, FS_Subset, FS_CardinalityType
<1>3. used[c] \in Nat /\ Limit[c] \in Nat  BY CredentialsAssumption DEF Shape
<1>4. QED  BY <1>1, <1>2, <1>3 DEF WithinAllowance

-----------------------------------------------------------------------------
(* A credential's limit: the steps *)

\* A step that neither starts nor ends a call, nor charges.
LEMMA Elsewhere ==
    ASSUME ChargesInv, NEW r \in Requests, used' = used,
           DOMAIN req' = Requests, DOMAIN req'[r] = Field,
           req'[r].saturated = req[r].saturated, req'[r].pc # "waiting",
           \A q \in Requests \ {r} : req'[q] = req[q]
    PROVE  ChargesInv'
<1>1. Shape'  BY DEF ChargesInv, Shape
<1>2. ASSUME NEW c PROVE Waiting(c)' \subseteq Waiting(c)  BY DEF Waiting
<1>3. NoneSaturated' => NoneSaturated  BY DEF NoneSaturated
<1>4. QED  BY <1>1, <1>2, <1>3, FewerWait DEF ChargesInv

LEMMA SmallSteps ==
    ASSUME ChargesInv, NEW r \in Requests,
           Arrive(r) \/ Custom(r) \/ RouterBegins(r) \/ RouterAnswers(r) \/ RouterFails(r)
           \/ Pauses(r)
    PROVE  ChargesInv'
<1> DEFINE Small == /\ used' = used /\ DOMAIN req' = Requests /\ DOMAIN req'[r] = Field
                    /\ req'[r].saturated = req[r].saturated /\ req'[r].pc # "waiting"
                    /\ \A q \in Requests \ {r} : req'[q] = req[q]
<1>1. DOMAIN req = Requests /\ DOMAIN req[r] = Field  BY DEF ChargesInv, Shape
<1>2. CASE Arrive(r)
  <2>1. used' = used  BY <1>2 DEF Arrive
  <2>2. CASE req' = [req EXCEPT ![r].pc = "refused"]
    <3>1. Small  BY <1>1, <2>1, <2>2 DEF Field
    <3>2. QED  BY <3>1, Elsewhere
  <2>3. (IF CustomRouter THEN "custom" ELSE Unscripted) # "waiting"  BY DEF Unscripted
  <2>4. PICK cost \in Costs :
            \/ \E kind \in Kinds, incoming \in Target, ruled \in Target, fallback \in Fallbacks :
                  Enters(r, cost, kind, incoming, ruled, fallback)
            \/ req' = [req EXCEPT ![r].pc = "refused"]
    BY <1>2, ArriveCases
  <2>5. ASSUME NEW kind, NEW incoming, NEW ruled, NEW fallback,
               Enters(r, cost, kind, incoming, ruled, fallback)
        PROVE  ChargesInv'
    <3>1. Small  BY <1>1, <2>1, <2>3, <2>5 DEF Field, Enters
    <3>2. QED  BY <3>1, Elsewhere
  <2>6. QED  BY <2>2, <2>4, <2>5
<1>3. CASE Custom(r)
  <2>1. used' = used  BY <1>3 DEF Custom
  <2>2. ASSUME NEW m,
               req' = [req EXCEPT ![r].pc = "send", ![r].model = m, ![r].source = "custom"]
        PROVE  ChargesInv'
    <3>1. Small  BY <1>1, <2>1, <2>2 DEF Field
    <3>2. QED  BY <3>1, Elsewhere
  <2>3. ASSUME NEW label \in {"asking", "send"}, req' = [req EXCEPT ![r].pc = label]
        PROVE  ChargesInv'
    <3>1. Small  BY <1>1, <2>1, <2>3 DEF Field
    <3>2. QED  BY <3>1, Elsewhere
  <2>4. Unscripted \in {"asking", "send"}  BY DEF Unscripted
  <2>5. QED  BY <1>3, <2>2, <2>3, <2>4 DEF Custom
<1>4. CASE RouterBegins(r)
  <2>1. Small  BY <1>1, <1>4 DEF RouterBegins, Field
  <2>2. QED  BY <2>1, Elsewhere
<1>5. CASE RouterAnswers(r)
  <2> PICK m \in Models \cup {NoModel} :
          req' = [req EXCEPT ![r].pc = "send", ![r].model = RouterChoice(m, r),
                             ![r].source = IF m \in Candidates THEN "router" ELSE @]
    BY <1>5 DEF RouterAnswers
  <2>1. Small  BY <1>1, <1>5 DEF RouterAnswers, Field
  <2>2. QED  BY <2>1, Elsewhere
<1>6. CASE RouterFails(r)
  <2>1. Small  BY <1>1, <1>6 DEF RouterFails, Field
  <2>2. QED  BY <2>1, Elsewhere
<1>7. CASE Pauses(r)
  <2>1. Small  BY <1>1, <1>7 DEF Pauses, Field
  <2>2. QED  BY <2>1, Elsewhere
<1>8. QED  BY <1>2, <1>3, <1>4, <1>5, <1>6, <1>7

\* What a call needs of its chain.
Sent(r, candidates, chain) ==
    /\ candidates \subseteq Available \/ (candidates # {} /\ Available = {})
    /\ ToSet(chain) = candidates
    /\ DOMAIN req' = Requests /\ DOMAIN req'[r] = Field
    /\ req'[r].chain = chain
    /\ req'[r].saturated = (req[r].saturated \/ (candidates # {} /\ Available = {}))
    /\ \A q \in Requests \ {r} : req'[q] = req[q]
    /\ req[r].pc = "send" /\ used' = used

\* A call starts only with credentials below their limits, unless all are barred.
LEMMA SendKeeps ==
    ASSUME ChargesInv, NEW r \in Requests, Send(r)
    PROVE  ChargesInv'
<1>1. PICK candidates \in SUBSET Credential :
          \E chain \in [1..Cardinality(candidates) -> candidates] : Sent(r, candidates, chain)
  <2> DEFINE left == IF tried[r] = <<>> THEN Attempts(req[r].kind, req[r].fallback, req[r].model)
                     ELSE req[r].left
             candidates == IF Head(left) \notin Candidates THEN {}
                           ELSE IF Available # {} THEN Available ELSE Credential
  <2>1. PICK chain \in [1..Cardinality(candidates) -> candidates] :
            /\ ToSet(chain) = candidates
            /\ req' = [req EXCEPT ![r].pc = "waiting", ![r].target = Head(left),
                                  ![r].left = Tail(left), ![r].chain = chain,
                                  ![r].saturated = @ \/ (candidates # {} /\ Available = {})]
    BY DEF Send
  <2>2. candidates \in SUBSET Credential  BY DEF Available
  <2>3. candidates \subseteq Available \/ (candidates # {} /\ Available = {})  OBVIOUS
  <2> HIDE DEF candidates, left
  <2>4. DOMAIN req = Requests /\ DOMAIN req[r] = Field  BY DEF ChargesInv, Shape
  <2>5. /\ DOMAIN req' = Requests /\ DOMAIN req'[r] = Field
        /\ req'[r].chain = chain
        /\ req'[r].saturated = (req[r].saturated \/ (candidates # {} /\ Available = {}))
        /\ \A q \in Requests \ {r} : req'[q] = req[q]
    BY <2>1, <2>4 DEF Field
  <2>6. req[r].pc = "send" /\ used' = used  BY DEF Send
  <2>7. Sent(r, candidates, chain)  BY <2>1, <2>3, <2>5, <2>6 DEF Sent
  <2>8. QED  BY <2>2, <2>7
<1>2. PICK chain \in [1..Cardinality(candidates) -> candidates] : Sent(r, candidates, chain)
  BY <1>1
<1>3. Shape'
  <2>1. IsFiniteSet(candidates) /\ Cardinality(candidates) \in Nat
    BY FS_Subset, FS_CardinalityType, CredentialsFinite
  <2>2. chain \in Seq(Credential)  BY <2>1
  <2>3. req'[r].saturated \in BOOLEAN  BY <1>2 DEF ChargesInv, Shape, Sent
  <2>4. QED  BY <1>2, <2>2, <2>3 DEF ChargesInv, Shape, Sent
<1>4. ASSUME NoneSaturated', NEW c \in Credential PROVE WithinAllowance(c)'
  <2>1. NoneSaturated /\ ~(candidates # {} /\ Available = {})
    <3>1. ~req'[r].saturated  BY <1>4 DEF NoneSaturated
    <3>2. ~req[r].saturated /\ ~(candidates # {} /\ Available = {})
      BY <1>2, <3>1 DEF ChargesInv, Shape, Sent
    <3>3. QED  BY <1>2, <1>4, <3>2 DEF NoneSaturated, Sent
  <2>2. WithinAllowance(c)  BY <2>1 DEF ChargesInv
  <2>3. CASE c \in candidates
    <3>1. ~Blocked(c)  BY <1>2, <2>1, <2>3 DEF Available, Sent
    <3>2. used[c] \in Nat /\ Limit[c] \in Nat  BY CredentialsAssumption DEF ChargesInv, Shape
    <3>3. used[c] + 1 <= Limit[c]  BY <3>1, <3>2 DEF Blocked
    <3>4. /\ Cardinality(Waiting(c)') \in Nat /\ Cardinality(Requests) \in Nat
          /\ Cardinality(Waiting(c)') <= Cardinality(Requests)
      <4>1. Waiting(c)' \in SUBSET Requests  BY DEF Waiting
      <4>2. QED  BY <4>1, FS_Subset, FS_CardinalityType, RequestsAssumption
    <3>5. QED  BY <1>2, <3>2, <3>3, <3>4 DEF WithinAllowance, Sent
  <2>4. CASE c \notin candidates
    <3>1. Waiting(c)' \subseteq Waiting(c)  BY <1>2, <2>4 DEF Waiting, Sent
    <3>2. QED  BY <1>2, <2>2, <3>1, FewerWait DEF ChargesInv, Sent
  <2>5. QED  BY <2>3, <2>4
<1>5. QED  BY <1>3, <1>4 DEF ChargesInv

\* What a call is charged is what its request stood for.
LEMMA AnsweredKeeps ==
    ASSUME ChargesInv, NEW r \in Requests, Answered(r)
    PROVE  ChargesInv'
<1>1. DOMAIN req = Requests /\ DOMAIN req[r] = Field  BY DEF ChargesInv, Shape
<1>2. /\ DOMAIN req' = Requests /\ DOMAIN req'[r] = Field
      /\ req'[r].saturated = req[r].saturated /\ req'[r].pc # "waiting"
      /\ \A q \in Requests \ {r} : req'[q] = req[q]
      /\ req[r].pc = "waiting"
  BY <1>1 DEF Answered, Field
<1>3. CASE used' = used
  BY <1>2, <1>3, Elsewhere
<1>4. CASE \E d \in ToSet(req[r].chain) : used' = [used EXCEPT ![d] = @ + 1]
  <2>1. PICK d \in ToSet(req[r].chain) : used' = [used EXCEPT ![d] = @ + 1]  BY <1>4
  <2>2. d \in Credential  BY <1>2 DEF ChargesInv, Shape, ToSet
  <2>3. used' \in [Credential -> Nat]  BY <2>1, <2>2 DEF ChargesInv, Shape
  <2>4. Shape'  BY <1>2, <2>3 DEF ChargesInv, Shape
  <2>5. ASSUME NoneSaturated', NEW c \in Credential PROVE WithinAllowance(c)'
    <3>1. NoneSaturated  BY <1>2, <2>5 DEF NoneSaturated
    <3>2. WithinAllowance(c)  BY <3>1 DEF ChargesInv
    <3>3. Waiting(c)' = Waiting(c) \ {r}  BY <1>2 DEF Waiting
    <3>4. /\ IsFiniteSet(Waiting(c)) /\ Cardinality(Waiting(c)) \in Nat
          /\ Cardinality(Requests) \in Nat
      BY WaitingCounted
    <3>5. Cardinality(Waiting(c)') = IF r \in Waiting(c) THEN Cardinality(Waiting(c)) - 1
                                     ELSE Cardinality(Waiting(c))
      BY <3>3, <3>4, FS_RemoveElement
    <3>6. used[c] \in Nat /\ Limit[c] \in Nat  BY CredentialsAssumption DEF ChargesInv, Shape
    <3>7. CASE c = d
      <4>1. r \in Waiting(c)  BY <1>2, <2>1, <3>7 DEF Waiting
      <4>2. used'[c] = used[c] + 1  BY <2>1, <2>2, <3>7 DEF ChargesInv, Shape
      <4>3. QED  BY <3>2, <3>4, <3>5, <3>6, <4>1, <4>2 DEF WithinAllowance
    <3>8. CASE c # d
      <4>1. used'[c] = used[c]  BY <2>1, <3>8 DEF ChargesInv, Shape
      <4>2. QED  BY <3>2, <3>4, <3>5, <3>6, <4>1 DEF WithinAllowance
    <3>9. QED  BY <3>7, <3>8
  <2>6. QED  BY <2>4, <2>5 DEF ChargesInv
<1>5. used' = used \/ \E d \in ToSet(req[r].chain) : used' = [used EXCEPT ![d] = @ + 1]
  <2> DEFINE chain == req[r].chain
  <2>1. PICK outcome \in Outcomes, by \in ToSet(chain) \cup {"core", "nobody"}, final \in BOOLEAN :
            /\ (outcome = "network" \/ chain = <<>>) <=> by = "nobody"
            /\ IF by = "nobody" THEN UNCHANGED <<used, cooling>>
               ELSE RecordOutcome(IF final /\ by # "core" THEN by ELSE Head(chain), outcome)
    BY DEF Answered
  <2>2. CASE by = "nobody"  BY <2>1, <2>2
  <2>3. CASE by # "nobody"
    <3> DEFINE charged == IF final /\ by # "core" THEN by ELSE Head(chain)
    <3>1. chain \in Seq(Credential) /\ chain # <<>>
      BY <1>2, <2>1, <2>3 DEF ChargesInv, Shape
    <3>2. Head(chain) \in ToSet(chain)  BY <3>1 DEF ToSet
    <3>3. charged \in ToSet(chain)  BY <2>1, <2>3, <3>2
    <3>4. RecordOutcome(charged, outcome)  BY <2>1, <2>3
    <3>5. used' = used \/ used' = [used EXCEPT ![charged] = @ + 1]
      BY <3>4 DEF RecordOutcome
    <3>6. QED  BY <3>3, <3>5
  <2>4. QED  BY <2>2, <2>3
<1>6. QED  BY <1>3, <1>4, <1>5

\* A new window starts at nothing.
LEMMA TickKeeps ==
    ASSUME ChargesInv, Tick
    PROVE  ChargesInv'
<1>1. Shape'  BY DEF Tick, ChargesInv, Shape
<1>2. ASSUME NEW c \in Credential PROVE WithinAllowance(c)'
  <2>1. Waiting(c)' = Waiting(c)  BY DEF Tick, Waiting
  <2>2. /\ Cardinality(Waiting(c)) \in Nat /\ Cardinality(Requests) \in Nat
        /\ Cardinality(Waiting(c)) <= Cardinality(Requests)
    BY WaitingCounted
  <2>3. used'[c] = 0 /\ Limit[c] \in Nat \ {0}  BY CredentialsAssumption DEF Tick
  <2>4. QED  BY <2>1, <2>2, <2>3 DEF WithinAllowance
<1>3. QED  BY <1>1, <1>2 DEF ChargesInv

LEMMA NothingMoves ==
    ASSUME ChargesInv, UNCHANGED <<req, used>>
    PROVE  ChargesInv'
BY DEF ChargesInv, Shape, NoneSaturated, WithinAllowance, Waiting

-----------------------------------------------------------------------------
LEMMA ChargesInit == Init => ChargesInv
<1> SUFFICES ASSUME Init PROVE ChargesInv  OBVIOUS
<1>1. Shape  BY DEF Init, Shape, Field
<1>2. ASSUME NEW c \in Credential PROVE WithinAllowance(c)
  <2>1. Waiting(c) = {}  BY DEF Init, Waiting
  <2>2. Cardinality(Waiting(c)) = 0 /\ Cardinality(Requests) \in Nat
    BY <2>1, FS_EmptySet, FS_CardinalityType, RequestsAssumption
  <2>3. used[c] = 0 /\ Limit[c] \in Nat \ {0}  BY CredentialsAssumption DEF Init
  <2>4. QED  BY <2>2, <2>3 DEF WithinAllowance
<1>3. QED  BY <1>1, <1>2 DEF ChargesInv

LEMMA ChargesNext == ChargesInv /\ [Next]_vars => ChargesInv'
<1> SUFFICES ASSUME ChargesInv, [Next]_vars PROVE ChargesInv'  OBVIOUS
<1>1. CASE Tick  BY <1>1, TickKeeps
<1>2. CASE CooldownEnds  BY <1>2, NothingMoves DEF CooldownEnds
<1>3. ASSUME NEW r \in Requests,
             Arrive(r) \/ Custom(r) \/ RouterBegins(r) \/ RouterAnswers(r) \/ RouterFails(r)
             \/ Pauses(r)
      PROVE  ChargesInv'
  BY <1>3, SmallSteps
<1>4. ASSUME NEW r \in Requests, Send(r) PROVE ChargesInv'  BY <1>4, SendKeeps
<1>5. ASSUME NEW r \in Requests, Answered(r) PROVE ChargesInv'  BY <1>5, AnsweredKeeps
<1>6. CASE UNCHANGED vars  BY <1>6, NothingMoves DEF vars
<1>7. QED  BY <1>1, <1>2, <1>3, <1>4, <1>5, <1>6 DEF Next

LEMMA ChargesEnough == ChargesInv => OvershootBounded
<1> SUFFICES ASSUME ChargesInv, NoneSaturated, NEW c \in Credential
             PROVE  used[c] <= Limit[c] + Cardinality(Requests) - 1
  BY DEF OvershootBounded, NoneSaturated
<1>1. WithinAllowance(c)  BY DEF ChargesInv
<1>2. Cardinality(Waiting(c)) \in Nat /\ Cardinality(Requests) \in Nat  BY WaitingCounted
<1>3. used[c] \in Nat /\ Limit[c] \in Nat  BY CredentialsAssumption DEF ChargesInv, Shape
<1>4. QED  BY <1>1, <1>2, <1>3 DEF WithinAllowance

\* A credential's limit, checked by a request before its call and charged after
\* it, is exceeded by no more than the number of the other requests, for any
\* number of requests, credentials, limits and outcomes.
THEOREM Overshoot == Spec => []OvershootBounded
<1>1. Init => ChargesInv  BY ChargesInit
<1>2. ChargesInv /\ [Next]_vars => ChargesInv'  BY ChargesNext
<1>3. ChargesInv => OvershootBounded  BY ChargesEnough
<1>4. QED  BY <1>1, <1>2, <1>3, PTL DEF Spec
=============================================================================
