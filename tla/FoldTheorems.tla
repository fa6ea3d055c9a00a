---------------------------- MODULE FoldTheorems ----------------------------
(* What the folds of the community modules compute, by induction on finite   *)
(* sets: sums over a set, and sequences built from left to right.            *)
EXTENDS Integers, Sequences, FiniteSets, SequencesExt, FiniteSetsExt, FiniteSetTheorems, TLAPS

-----------------------------------------------------------------------------
(* Induction on the subsets of a finite set *)

LEMMA SubsetInduction ==
    ASSUME NEW S, IsFiniteSet(S), NEW Good,
           \A T \in SUBSET S : (\A U \in SUBSET T : U # T => U \in Good) => T \in Good
    PROVE  \A T \in SUBSET S : T \in Good
<1> DEFINE Bad == {T \in SUBSET S : T \notin Good}
<1> SUFFICES ASSUME Bad # {} PROVE FALSE  OBVIOUS
<1>1. IsWellFoundedOn(StrictSubsetOrdering(S), SUBSET S)
  <2>1. FiniteSubsetsOf(S) = SUBSET S  BY FS_FiniteSubsetsOfFinite
  <2>2. IsWellFoundedOn(StrictSubsetOrdering(S), FiniteSubsetsOf(S))
    BY FS_StrictSubsetOrderingWellFounded
  <2>3. QED  BY <2>1, <2>2
<1>2. Bad \subseteq SUBSET S  OBVIOUS
<1> HIDE DEF Bad
<1>3. PICK T \in Bad : \A U \in Bad : <<U, T>> \notin StrictSubsetOrdering(S)
  BY <1>1, <1>2, WFMin
<1>4. ASSUME NEW U \in SUBSET T, U # T PROVE U \in Good
  <2>1. U \in SUBSET S /\ T \in SUBSET S  BY <1>2
  <2>2. <<U, T>> \in StrictSubsetOrdering(S)  BY <1>4, <2>1 DEF StrictSubsetOrdering
  <2>3. QED  BY <1>3, <2>1, <2>2 DEF Bad
<1>5. QED  BY <1>2, <1>4 DEF Bad

-----------------------------------------------------------------------------
(* Definition by recursion: one element, the choice, is taken away at a time *)

\* The value at s, from the value at s without its choice.
Peel(g, base, P, F, s) == IF s = {} THEN base ELSE F[s][g[s \ {P[s]}]]

Solves(g, base, P, F, S) == \A s \in SUBSET S : g[s] = Peel(g, base, P, F, s)

Chooses(P, S) == \A s \in SUBSET S : s # {} => P[s] \in s

LEMMA SolutionsAgree ==
    ASSUME NEW S, IsFiniteSet(S), NEW base, NEW P, NEW F, Chooses(P, S),
           NEW g, NEW h, Solves(g, base, P, F, S), Solves(h, base, P, F, S)
    PROVE  \A s \in SUBSET S : g[s] = h[s]
<1> DEFINE Good == {s \in SUBSET S : g[s] = h[s]}
<1>1. ASSUME NEW T \in SUBSET S, \A U \in SUBSET T : U # T => U \in Good
      PROVE  T \in Good
  <2>1. CASE T = {}  BY <2>1 DEF Solves, Peel
  <2>2. CASE T # {}
    <3>1. P[T] \in T  BY <2>2 DEF Chooses
    <3>2. T \ {P[T]} \in Good  BY <1>1, <3>1
    <3>3. QED  BY <3>2 DEF Solves, Peel
  <2>3. QED  BY <2>1, <2>2
<1> HIDE DEF Good
<1>2. \A T \in SUBSET S : T \in Good  BY <1>1, SubsetInduction
<1>3. QED  BY <1>2 DEF Good

LEMMA SolutionExists ==
    ASSUME NEW S, IsFiniteSet(S), NEW V, NEW base \in V, NEW P, Chooses(P, S),
           NEW F, \A s \in SUBSET S : \A v \in V : F[s][v] \in V
    PROVE  \E g \in [SUBSET S -> V] : Solves(g, base, P, F, S)
<1> DEFINE Good == {s \in SUBSET S : \E g \in [SUBSET s -> V] : Solves(g, base, P, F, s)}
           Sol(s) == CHOOSE g \in [SUBSET s -> V] : Solves(g, base, P, F, s)
<1>1. ASSUME NEW T \in SUBSET S, \A U \in SUBSET T : U # T => U \in Good
      PROVE  T \in Good
  <2> DEFINE top == IF T = {} THEN base ELSE F[T][Sol(T \ {P[T]})[T \ {P[T]}]]
             g == [s \in SUBSET T |-> IF s = T THEN top ELSE Sol(s)[s]]
  <2>1. ASSUME NEW s \in SUBSET T, s # T
        PROVE  Sol(s) \in [SUBSET s -> V] /\ Solves(Sol(s), base, P, F, s)
    BY <1>1, <2>1
  <2> HIDE DEF Sol
  <2>2. ASSUME NEW s \in SUBSET T, s # {} PROVE P[s] \in s /\ s \ {P[s]} \in SUBSET T /\ s \ {P[s]} # T
    BY <2>2 DEF Chooses
  <2>3. top \in V
    <3>1. CASE T = {}  BY <3>1
    <3>2. CASE T # {}
      <4> DEFINE t == T \ {P[T]}
      <4>1. t \in SUBSET T /\ t # T  BY <2>2, <3>2
      <4> HIDE DEF t
      <4>2. Sol(t) \in [SUBSET t -> V] /\ t \in SUBSET t  BY <2>1, <4>1
      <4>3. Sol(t)[t] \in V  BY <4>2
      <4>4. F[T][Sol(t)[t]] \in V  BY <4>3
      <4>5. QED  BY <3>2, <4>4 DEF t
    <3>3. QED  BY <3>1, <3>2
  <2>4. g \in [SUBSET T -> V]  BY <2>1, <2>3
  <2>5. ASSUME NEW s \in SUBSET T PROVE g[s] = Peel(g, base, P, F, s)
    <3>1. CASE s = {} /\ s = T  BY <3>1 DEF Peel
    <3>2. CASE s = {} /\ s # T
      <4>1. Sol(s)[s] = base  BY <2>1, <3>2 DEF Solves, Peel
      <4>2. QED  BY <3>2, <4>1 DEF Peel
    <3>3. CASE s # {} /\ s = T  BY <2>2, <3>3 DEF Peel
    <3>4. CASE s # {} /\ s # T
      <4> DEFINE t == s \ {P[s]}
      <4>1. t \in SUBSET T /\ t # T /\ t \in SUBSET s /\ t # s  BY <2>2, <3>4
      <4>2. Sol(s)[s] = F[s][Sol(s)[t]]  BY <2>1, <3>4 DEF Solves, Peel
      <4>3. Solves(Sol(s), base, P, F, t)  BY <2>1, <3>4, <4>1 DEF Solves
      <4>4. Solves(Sol(t), base, P, F, t)  BY <2>1, <4>1
      <4>5. IsFiniteSet(t) /\ Chooses(P, t)  BY <4>1, FS_Subset DEF Chooses
      <4> HIDE DEF t
      <4>6. t \in SUBSET t  OBVIOUS
      <4>7. Sol(s)[t] = Sol(t)[t]  BY <4>3, <4>4, <4>5, <4>6, SolutionsAgree
      <4>8. g[s] = F[s][g[t]]  BY <3>4, <4>1, <4>2, <4>7
      <4>9. QED  BY <3>4, <4>8 DEF Peel, t
    <3>5. QED  BY <3>1, <3>2, <3>3, <3>4
  <2>6. Solves(g, base, P, F, T)  BY <2>5 DEF Solves
  <2> HIDE DEF g
  <2>7. QED  BY <2>4, <2>6
<1> HIDE DEF Good
<1>2. \A T \in SUBSET S : T \in Good  BY <1>1, SubsetInduction
<1>3. S \in Good  BY <1>2
<1>4. QED  BY <1>3 DEF Good

-----------------------------------------------------------------------------
(* Sums *)

Pick(s) == CHOOSE x \in s : TRUE

\* The function SumFunctionOnSet chooses.
SumRec(g, f, S) ==
    g = [s \in SUBSET S |-> IF s = {} THEN 0 ELSE f[Pick(s)] + g[s \ {Pick(s)}]]

LEMMA SumExpanded ==
    ASSUME NEW f, NEW S
    PROVE  SumFunctionOnSet(f, S) = (CHOOSE g : SumRec(g, f, S))[S]
BY Zenon DEF SumFunctionOnSet, FoldFunctionOnSet, MapThenFoldSet, SumRec, Pick

\* What is known of it.
SumGraph(g, f, S) ==
    /\ g[{}] = 0
    /\ \A s \in SUBSET S : s # {} => g[s] = f[Pick(s)] + g[s \ {Pick(s)}]
    /\ \A T \in SUBSET S : SumFunctionOnSet(f, T) = g[T]

LEMMA SumSolved ==
    ASSUME NEW S, IsFiniteSet(S), NEW f, \A x \in S : f[x] \in Int
    PROVE  \E g \in [SUBSET S -> Int] : SumGraph(g, f, S)
<1> DEFINE P == [s \in SUBSET S |-> Pick(s)]
           F == [s \in SUBSET S |-> [v \in Int |-> IF s = {} THEN 0 ELSE f[Pick(s)] + v]]
<1>1. ASSUME NEW s \in SUBSET S, s # {} PROVE Pick(s) \in s  BY <1>1 DEF Pick
<1>2. Chooses(P, S)  BY <1>1 DEF Chooses
<1>3. ASSUME NEW s \in SUBSET S, NEW v \in Int PROVE F[s][v] \in Int
  <2>1. CASE s = {}  BY <2>1
  <2>2. CASE s # {}
    <3>1. f[Pick(s)] \in Int  BY <1>1, <2>2
    <3>2. QED  BY <2>2, <3>1
  <2>3. QED  BY <2>1, <2>2
<1> HIDE DEF P, F
<1>4. PICK g \in [SUBSET S -> Int] : Solves(g, 0, P, F, S)
  <2>1. 0 \in Int  OBVIOUS
  <2>2. \E g \in [SUBSET S -> Int] : Solves(g, 0, P, F, S)
    BY <1>2, <1>3, <2>1, SolutionExists
  <2>3. QED  BY <2>2
<1>5. g[{}] = 0  BY <1>4 DEF Solves, Peel
<1>6. ASSUME NEW s \in SUBSET S, s # {} PROVE g[s] = f[Pick(s)] + g[s \ {Pick(s)}]
  <2>1. g[s] = F[s][g[s \ {P[s]}]]  BY <1>4, <1>6 DEF Solves, Peel
  <2>2. P[s] = Pick(s) /\ g[s \ {Pick(s)}] \in Int  BY <1>4 DEF P
  <2>3. QED  BY <1>6, <2>1, <2>2 DEF F
<1>7. ASSUME NEW T \in SUBSET S PROVE SumFunctionOnSet(f, T) = g[T]
  <2> DEFINE h == CHOOSE k : SumRec(k, f, T)
             gT == [s \in SUBSET T |-> g[s]]
             Good == {s \in SUBSET T : h[s] = g[s]}
  <2>1. SumRec(gT, f, T)
    <3>1. ASSUME NEW s \in SUBSET T
          PROVE  gT[s] = IF s = {} THEN 0 ELSE f[Pick(s)] + gT[s \ {Pick(s)}]
      BY <1>5, <1>6
    <3>2. gT = [s \in SUBSET T |-> gT[s]]  OBVIOUS
    <3> HIDE DEF gT
    <3>3. QED  BY <3>1, <3>2 DEF SumRec
  <2> HIDE DEF gT
  <2>2. SumRec(h, f, T)  BY <2>1
  <2> HIDE DEF h
  <2>3. ASSUME NEW s \in SUBSET T
        PROVE  h[s] = IF s = {} THEN 0 ELSE f[Pick(s)] + h[s \ {Pick(s)}]
    BY <2>2 DEF SumRec
  <2>4. ASSUME NEW s \in SUBSET T, \A U \in SUBSET s : U # s => U \in Good
        PROVE  s \in Good
    <3>1. CASE s = {}  BY <1>5, <2>3, <3>1
    <3>2. CASE s # {}
      <4>1. s \ {Pick(s)} \in Good  BY <1>1, <2>4, <3>2
      <4>2. h[s] = f[Pick(s)] + h[s \ {Pick(s)}]  BY <2>3, <3>2
      <4>3. g[s] = f[Pick(s)] + g[s \ {Pick(s)}]  BY <1>6, <3>2
      <4>4. QED  BY <4>1, <4>2, <4>3
    <3>3. QED  BY <3>1, <3>2
  <2> HIDE DEF Good
  <2>5. IsFiniteSet(T)  BY FS_Subset
  <2>6. T \in Good  BY <2>4, <2>5, SubsetInduction
  <2>7. h[T] = g[T]  BY <2>6 DEF Good
  <2>8. QED  BY <2>7, SumExpanded DEF h
<1>8. QED  BY <1>5, <1>6, <1>7 DEF SumGraph

LEMMA SumPick ==
    ASSUME NEW S, IsFiniteSet(S), NEW f, \A x \in S : f[x] \in Int
    PROVE  /\ SumFunctionOnSet(f, {}) = 0
           /\ SumFunctionOnSet(f, S) \in Int
           /\ S # {} => /\ Pick(S) \in S
                        /\ SumFunctionOnSet(f, S)
                             = f[Pick(S)] + SumFunctionOnSet(f, S \ {Pick(S)})
<1>1. PICK g \in [SUBSET S -> Int] : SumGraph(g, f, S)  BY SumSolved
<1>2. SumFunctionOnSet(f, {}) = 0 /\ SumFunctionOnSet(f, S) \in Int  BY <1>1 DEF SumGraph
<1>3. ASSUME S # {}
      PROVE  SumFunctionOnSet(f, S) = f[Pick(S)] + SumFunctionOnSet(f, S \ {Pick(S)})
  <2>1. S \ {Pick(S)} \in SUBSET S /\ S \in SUBSET S  OBVIOUS
  <2>2. QED  BY <1>1, <1>3, <2>1 DEF SumGraph
<1>4. S # {} => Pick(S) \in S  BY DEF Pick
<1>5. QED  BY <1>2, <1>3, <1>4

\* Any element may be counted first.
LEMMA SumRemove ==
    ASSUME NEW S, IsFiniteSet(S), NEW f, \A x \in S : f[x] \in Int, NEW a \in S
    PROVE  /\ SumFunctionOnSet(f, S) = f[a] + SumFunctionOnSet(f, S \ {a})
           /\ SumFunctionOnSet(f, S \ {a}) \in Int
<1> DEFINE Good == {T \in SUBSET S : \A b \in T :
                        SumFunctionOnSet(f, T) = f[b] + SumFunctionOnSet(f, T \ {b})}
<1>1. ASSUME NEW T \in SUBSET S
      PROVE  IsFiniteSet(T) /\ (\A x \in T : f[x] \in Int) /\ SumFunctionOnSet(f, T) \in Int
  <2>1. IsFiniteSet(T) /\ (\A x \in T : f[x] \in Int)  BY FS_Subset
  <2>2. QED  BY <2>1, SumPick
<1>2. ASSUME NEW T \in SUBSET S, \A U \in SUBSET T : U # T => U \in Good
      PROVE  T \in Good
  <2> SUFFICES ASSUME NEW b \in T
               PROVE  SumFunctionOnSet(f, T) = f[b] + SumFunctionOnSet(f, T \ {b})
    OBVIOUS
  <2> DEFINE p == Pick(T)
  <2>1. p \in T /\ SumFunctionOnSet(f, T) = f[p] + SumFunctionOnSet(f, T \ {p})
    <3>1. T # {}  OBVIOUS
    <3>2. QED  BY <1>1, <3>1, SumPick
  <2> HIDE DEF p
  <2>2. CASE b = p  BY <2>1, <2>2
  <2>3. CASE b # p
    <3>1. T \ {p} \in Good /\ T \ {b} \in Good  BY <1>2, <2>1
    <3>2. b \in T \ {p} /\ p \in T \ {b}  BY <2>1, <2>3
    <3>3. SumFunctionOnSet(f, T \ {p}) = f[b] + SumFunctionOnSet(f, (T \ {p}) \ {b})
      BY <3>1, <3>2
    <3>4. SumFunctionOnSet(f, T \ {b}) = f[p] + SumFunctionOnSet(f, (T \ {b}) \ {p})
      BY <3>1, <3>2
    <3>5. (T \ {p}) \ {b} = (T \ {b}) \ {p}  OBVIOUS
    <3>6. (T \ {p}) \ {b} \in SUBSET S  OBVIOUS
    <3>7. SumFunctionOnSet(f, (T \ {p}) \ {b}) \in Int  BY <1>1, <3>6
    <3>8. f[b] \in Int /\ f[p] \in Int  BY <2>1
    <3> DEFINE rest == SumFunctionOnSet(f, (T \ {p}) \ {b})
    <3>9. rest \in Int  BY <3>7
    <3>10. /\ SumFunctionOnSet(f, T) = f[p] + (f[b] + rest)
           /\ SumFunctionOnSet(f, T \ {b}) = f[p] + rest
      BY <2>1, <3>3, <3>4, <3>5
    <3> HIDE DEF rest
    <3>11. f[p] + (f[b] + rest) = f[b] + (f[p] + rest)  BY <3>8, <3>9
    <3>12. QED  BY <3>10, <3>11
  <2>4. QED  BY <2>2, <2>3
<1> HIDE DEF Good
<1>3. \A T \in SUBSET S : T \in Good  BY <1>2, SubsetInduction
<1>4. S \in Good  BY <1>3
<1>5. SumFunctionOnSet(f, S) = f[a] + SumFunctionOnSet(f, S \ {a})  BY <1>4 DEF Good
<1>6. SumFunctionOnSet(f, S \ {a}) \in Int  BY <1>1
<1>7. QED  BY <1>5, <1>6

\* A sum depends on what is summed.
LEMMA SumSame ==
    ASSUME NEW S, IsFiniteSet(S), NEW f, NEW h, \A x \in S : f[x] \in Int /\ h[x] = f[x]
    PROVE  SumFunctionOnSet(h, S) = SumFunctionOnSet(f, S)
<1> DEFINE Good == {T \in SUBSET S : SumFunctionOnSet(h, T) = SumFunctionOnSet(f, T)}
<1>1. ASSUME NEW T \in SUBSET S, \A U \in SUBSET T : U # T => U \in Good
      PROVE  T \in Good
  <2>1. IsFiniteSet(T)  BY FS_Subset
  <2>2. (\A x \in T : f[x] \in Int) /\ (\A x \in T : h[x] \in Int)  OBVIOUS
  <2>3. CASE T = {}
    <3>1. SumFunctionOnSet(f, {}) = 0  BY <2>1, <2>2, SumPick
    <3>2. SumFunctionOnSet(h, {}) = 0  BY <2>1, <2>2, SumPick
    <3>3. QED  BY <2>3, <3>1, <3>2
  <2>4. CASE T # {}
    <3> DEFINE p == Pick(T)
    <3>1. p \in T /\ SumFunctionOnSet(f, T) = f[p] + SumFunctionOnSet(f, T \ {p})
      BY <2>1, <2>2, <2>4, SumPick
    <3>2. SumFunctionOnSet(h, T) = h[p] + SumFunctionOnSet(h, T \ {p})
      BY <2>1, <2>2, <2>4, SumPick
    <3> HIDE DEF p
    <3>3. T \ {p} \in Good  BY <1>1, <3>1
    <3>4. h[p] = f[p]  BY <3>1
    <3>5. QED  BY <3>1, <3>2, <3>3, <3>4
  <2>5. QED  BY <2>3, <2>4
<1> HIDE DEF Good
<1>2. \A T \in SUBSET S : T \in Good  BY <1>1, SubsetInduction
<1>3. S \in Good  BY <1>2
<1>4. QED  BY <1>3 DEF Good

LEMMA SumOfZeros ==
    ASSUME NEW S, IsFiniteSet(S), NEW f, \A x \in S : f[x] = 0
    PROVE  SumFunctionOnSet(f, S) = 0
<1> DEFINE Good == {T \in SUBSET S : SumFunctionOnSet(f, T) = 0}
<1>1. ASSUME NEW T \in SUBSET S, \A U \in SUBSET T : U # T => U \in Good
      PROVE  T \in Good
  <2>1. IsFiniteSet(T)  BY FS_Subset
  <2>2. \A x \in T : f[x] \in Int  OBVIOUS
  <2>3. CASE T = {}  BY <2>1, <2>2, <2>3, SumPick
  <2>4. CASE T # {}
    <3> DEFINE p == Pick(T)
    <3>1. p \in T /\ SumFunctionOnSet(f, T) = f[p] + SumFunctionOnSet(f, T \ {p})
      BY <2>1, <2>2, <2>4, SumPick
    <3> HIDE DEF p
    <3>2. T \ {p} \in Good  BY <1>1, <3>1
    <3>3. f[p] = 0  BY <3>1
    <3>4. QED  BY <3>1, <3>2, <3>3
  <2>5. QED  BY <2>3, <2>4
<1> HIDE DEF Good
<1>2. \A T \in SUBSET S : T \in Good  BY <1>1, SubsetInduction
<1>3. S \in Good  BY <1>2
<1>4. QED  BY <1>3 DEF Good

-----------------------------------------------------------------------------
(* The greatest and the least element of a finite set of numbers *)

LEMMA MaxIsMember ==
    ASSUME NEW S, IsFiniteSet(S), S \subseteq Nat, S # {}
    PROVE  Max(S) \in S /\ \A x \in S : x <= Max(S)
<1> DEFINE Good == {T \in SUBSET S : T # {} => \E x \in T : \A y \in T : x >= y}
<1>1. ASSUME NEW T \in SUBSET S, \A U \in SUBSET T : U # T => U \in Good
      PROVE  T \in Good
  <2> SUFFICES ASSUME NEW a \in T PROVE \E x \in T : \A y \in T : x >= y  OBVIOUS
  <2>1. CASE T = {a}  BY <2>1
  <2>2. CASE T # {a}
    <3>1. T \ {a} \in Good /\ T \ {a} # {}
      <4>1. T \ {a} \in SUBSET T /\ T \ {a} # T  OBVIOUS
      <4>2. T \ {a} # {}  BY <2>2
      <4> HIDE DEF Good
      <4>3. T \ {a} \in Good  BY <1>1, <4>1
      <4>4. QED  BY <4>2, <4>3
    <3>2. PICK x \in T \ {a} : \A y \in T \ {a} : x >= y  BY <3>1
    <3>3. CASE x >= a  BY <3>2, <3>3
    <3>4. CASE ~(x >= a)
      <4>1. \A y \in T : y \in Nat  OBVIOUS
      <4>2. \A y \in T : a >= y  BY <3>2, <3>4, <4>1
      <4>3. QED  BY <4>2
    <3>5. QED  BY <3>3, <3>4
  <2>3. QED  BY <2>1, <2>2
<1> HIDE DEF Good
<1>2. \A T \in SUBSET S : T \in Good  BY <1>1, SubsetInduction
<1>3. S \in Good  BY <1>2
<1>4. \E x \in S : \A y \in S : x >= y  BY <1>3 DEF Good
<1>5. Max(S) \in S /\ \A y \in S : Max(S) >= y  BY <1>4 DEF Max
<1>6. QED  BY <1>5

LEMMA HasLeast ==
    ASSUME NEW S, IsFiniteSet(S), S \subseteq Nat, S # {}
    PROVE  \E x \in S : \A y \in S : x <= y
<1> DEFINE Good == {T \in SUBSET S : T # {} => \E x \in T : \A y \in T : x <= y}
<1>1. ASSUME NEW T \in SUBSET S, \A U \in SUBSET T : U # T => U \in Good
      PROVE  T \in Good
  <2> SUFFICES ASSUME NEW a \in T PROVE \E x \in T : \A y \in T : x <= y  OBVIOUS
  <2>1. CASE T = {a}  BY <2>1
  <2>2. CASE T # {a}
    <3>1. T \ {a} \in Good /\ T \ {a} # {}
      <4>1. T \ {a} \in SUBSET T /\ T \ {a} # T  OBVIOUS
      <4>2. T \ {a} # {}  BY <2>2
      <4> HIDE DEF Good
      <4>3. T \ {a} \in Good  BY <1>1, <4>1
      <4>4. QED  BY <4>2, <4>3
    <3>2. PICK x \in T \ {a} : \A y \in T \ {a} : x <= y  BY <3>1
    <3>3. CASE x <= a  BY <3>2, <3>3
    <3>4. CASE ~(x <= a)
      <4>1. \A y \in T : y \in Nat  OBVIOUS
      <4>2. \A y \in T : a <= y  BY <3>2, <3>4, <4>1
      <4>3. QED  BY <4>2
    <3>5. QED  BY <3>3, <3>4
  <2>3. QED  BY <2>1, <2>2
<1> HIDE DEF Good
<1>2. \A T \in SUBSET S : T \in Good  BY <1>1, SubsetInduction
<1>3. S \in Good  BY <1>2
<1>4. QED  BY <1>3 DEF Good
=============================================================================
