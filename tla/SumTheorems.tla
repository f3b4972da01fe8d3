---------------------------- MODULE SumTheorems ----------------------------
(***************************************************************************)
(* Induction over the natural numbers, stated with a set in place of a     *)
(* predicate, and what it shows of the community modules' SumFunctionOnSet *)
(* and of functions that recurse over an interval.                         *)
(***************************************************************************)
EXTENDS FiniteSetsExt, FiniteSetTheorems, TLAPS

-----------------------------------------------------------------------------
(***************************************************************************)
(* Induction                                                               *)
(***************************************************************************)
\* Every set of natural numbers has a least element.
LEMMA LeastNat ==
    ASSUME NEW T, T \subseteq Nat, T # {}
    PROVE  \E n \in T : \A m \in T : n <= m
<1>1. PICK n \in T : \A m \in T : ~ (<<m, n>> \in OpToRel(<, Nat))
  BY NatLessThanWellFounded, WFMin, Zenon
<1>2. \A m \in T : <<m, n>> \in Nat \X Nat /\ <<m, n>>[1] = m /\ <<m, n>>[2] = n
  OBVIOUS
<1>3. \A m \in T : ~(m < n)
  BY <1>1, <1>2 DEF OpToRel
<1> QED
  BY <1>3

\* A set with 0 and, with every number, the next, has all natural numbers.
LEMMA SetInduction ==
    ASSUME NEW S, 0 \in S, \A n \in Nat : n \in S => n + 1 \in S
    PROVE  Nat \subseteq S
<1> DEFINE T == Nat \ S
<1>1. SUFFICES ASSUME T # {} PROVE FALSE
  OBVIOUS
<1>2. PICK n \in T : \A m \in T : n <= m
  BY <1>1, LeastNat
<1>3. n # 0 /\ n \in Nat
  OBVIOUS
<1>4. n - 1 \in Nat /\ n - 1 \notin T
  BY <1>2, <1>3
<1> QED
  BY <1>3, <1>4

\* The same up to a bound.
LEMMA BoundedInduction ==
    ASSUME NEW n \in Nat, NEW S, 0 \in S, \A k \in 0 .. n - 1 : k \in S => k + 1 \in S
    PROVE  0 .. n \subseteq S
<1> DEFINE T == {k \in Nat : k <= n => k \in S}
<1>1. 0 \in T /\ \A k \in Nat : k \in T => k + 1 \in T
  OBVIOUS
<1> HIDE DEF T
<1>2. Nat \subseteq T
  BY <1>1, SetInduction
<1> QED
  BY <1>2 DEF T

-----------------------------------------------------------------------------
(***************************************************************************)
(* Sums                                                                    *)
(***************************************************************************)
First(s) == CHOOSE x \in s : TRUE

Summable(F, S) == IsFiniteSet(S) /\ \A x \in S : F[x] \in Int

\* What a summable set consists of.
LEMMA SummableParts ==
    ASSUME NEW S, NEW F, Summable(F, S), NEW s \in SUBSET S
    PROVE  Summable(F, s)
  BY FS_Subset DEF Summable

\* g is the sum of F over each set of D, built as MapThenFoldSet builds it, and
\* over each subset of S.
AddsOn(F, D, g) ==
    \A s \in D : g[s] = IF s = {} THEN 0 ELSE F[First(s)] + g[s \ {First(s)}]
Adds(F, S, g) == AddsOn(F, SUBSET S, g)

\* The first of a set of numbers is not above the others.
LEMMA FirstLess ==
    ASSUME NEW S, IsFiniteSet(S), NEW s \in SUBSET S, s # {}
    PROVE  /\ First(s) \in s
           /\ Cardinality(s) \in Nat
           /\ Cardinality(s \ {First(s)}) = Cardinality(s) - 1
<1>1. First(s) \in s
  BY DEF First
<1> QED
  BY <1>1, FS_Subset, FS_CardinalityType, FS_RemoveElement

\* There is a sum over every finite set.
LEMMA SumExists ==
    ASSUME NEW S, NEW F, Summable(F, S)
    PROVE  \E g \in [SUBSET S -> Int] : Adds(F, S, g)
<1> DEFINE D(n) == {s \in SUBSET S : Cardinality(s) <= n}
           N == {n \in Nat : \E g \in [D(n) -> Int] : AddsOn(F, D(n), g)}
<1>1. \A s \in SUBSET S : IsFiniteSet(s) /\ Cardinality(s) \in Nat
  BY FS_Subset, FS_CardinalityType DEF Summable
<1>2. 0 \in N
  <2> DEFINE g == [s \in D(0) |-> 0]
  <2>1. \A s \in D(0) : s = {}
    BY <1>1, FS_EmptySet
  <2>2. g \in [D(0) -> Int] /\ AddsOn(F, D(0), g)
    BY <2>1 DEF AddsOn
  <2> QED
    BY <2>2
<1>3. ASSUME NEW n \in Nat, n \in N PROVE n + 1 \in N
  <2>1. PICK g \in [D(n) -> Int] : AddsOn(F, D(n), g)
    BY <1>3
  <2> DEFINE h == [s \in D(n + 1) |->
                      IF s = {} THEN 0 ELSE F[First(s)] + g[s \ {First(s)}]]
  <2>2. ASSUME NEW s \in D(n + 1), s # {}
        PROVE  /\ First(s) \in S
               /\ s \ {First(s)} \in D(n) /\ s \ {First(s)} \in D(n + 1)
    BY <2>2, FirstLess DEF Summable
  <2>3. h \in [D(n + 1) -> Int]
    BY <2>2 DEF Summable
  <2>4. \A s \in D(n) : s \in D(n + 1) /\ h[s] = g[s]
    <3>1. \A s \in D(n) : s \in D(n + 1)
      BY <1>1
    <3> QED
      BY <2>1, <3>1 DEF AddsOn
  <2>5. AddsOn(F, D(n + 1), h)
    <3> SUFFICES ASSUME NEW s \in D(n + 1)
                 PROVE  h[s] = IF s = {} THEN 0 ELSE F[First(s)] + h[s \ {First(s)}]
      BY DEF AddsOn
    <3> QED
      BY <2>2, <2>4
  <2> HIDE DEF D, h
  <2> QED
    BY <2>3, <2>5
<1>4. Cardinality(S) \in N
  <2> HIDE DEF N
  <2> QED
    BY <1>2, <1>3, SetInduction, FS_CardinalityType DEF Summable
<1>5. D(Cardinality(S)) = SUBSET S
  BY FS_Subset DEF Summable
<1> QED
  BY <1>4, <1>5 DEF Adds

\* There is only one such function, and it takes the values of the operator.
LEMMA SumIs ==
    ASSUME NEW S, NEW F, Summable(F, S)
    PROVE  \E g : Adds(F, S, g) /\ SumFunctionOnSet(F, S) = g[S]
<1> DEFINE Eqn(g) == g = [s \in SUBSET S |->
                            IF s = {} THEN 0 ELSE F[First(s)] + g[s \ {First(s)}]]
           G == CHOOSE g : Eqn(g)
<1>1. \E g : Eqn(g)
  <2>1. PICK g \in [SUBSET S -> Int] : Adds(F, S, g)
    BY SumExists
  <2>2. Eqn(g)
    BY <2>1 DEF Adds, AddsOn
  <2> QED
    BY <2>2
<1>2. SumFunctionOnSet(F, S) = G[S]
  BY DEF SumFunctionOnSet, FoldFunctionOnSet, MapThenFoldSet, First
<1>3. Eqn(G)
  <2> HIDE DEF Eqn
  <2> QED
    BY <1>1
<1>4. Adds(F, S, G)
  <2> HIDE DEF G
  <2>1. G = [t \in SUBSET S |-> IF t = {} THEN 0 ELSE F[First(t)] + G[t \ {First(t)}]]
    BY <1>3
  <2> QED
    BY <2>1 DEF Adds, AddsOn
<1> HIDE DEF Eqn
<1> QED
  BY <1>2, <1>4

\* A sum is its first term and the sum of the rest.
LEMMA SumAt ==
    ASSUME NEW S, NEW F, Summable(F, S),
           NEW g, Adds(F, S, g), NEW s \in SUBSET S
    PROVE  g[s] = SumFunctionOnSet(F, s)
<1>1. Summable(F, s) /\ IsFiniteSet(s)
  BY SummableParts DEF Summable
<1>2. PICK h : Adds(F, s, h) /\ SumFunctionOnSet(F, s) = h[s]
  BY <1>1, SumIs
<1> DEFINE N == {n \in Nat : \A t \in SUBSET s : Cardinality(t) = n => g[t] = h[t]}
<1>3. \A t \in SUBSET s : IsFiniteSet(t) /\ Cardinality(t) \in Nat /\ t \in SUBSET S
  BY <1>1, FS_Subset, FS_CardinalityType
<1>4. 0 \in N
  <2>1. \A t \in SUBSET s : Cardinality(t) = 0 => t = {}
    BY <1>3, FS_EmptySet
  <2>2. g[{}] = 0 /\ h[{}] = 0
    BY <1>2 DEF Adds, AddsOn
  <2> QED
    BY <2>1, <2>2
<1>5. ASSUME NEW n \in Nat, n \in N PROVE n + 1 \in N
  <2> SUFFICES ASSUME NEW t \in SUBSET s, Cardinality(t) = n + 1
               PROVE  g[t] = h[t]
    OBVIOUS
  <2>1. t # {}
    BY FS_EmptySet
  <2>2. First(t) \in t /\ Cardinality(t \ {First(t)}) = n
    BY <1>1, <2>1, FirstLess
  <2>3. g[t \ {First(t)}] = h[t \ {First(t)}]
    BY <1>5, <2>2
  <2> QED
    BY <1>2, <1>3, <2>1, <2>3 DEF Adds, AddsOn
<1> HIDE DEF N
<1>6. Cardinality(s) \in N
  BY <1>3, <1>4, <1>5, SetInduction
<1> QED
  BY <1>2, <1>6 DEF N

\* A sum over nothing is 0.
LEMMA SumEmpty ==
    ASSUME NEW F
    PROVE  SumFunctionOnSet(F, {}) = 0
<1>1. Summable(F, {})
  BY FS_EmptySet DEF Summable
<1> QED
  BY <1>1, SumIs DEF Adds, AddsOn

\* A sum of natural numbers is one.
LEMMA SumType ==
    ASSUME NEW S, NEW F, Summable(F, S)
    PROVE  SumFunctionOnSet(F, S) \in Int
<1>1. PICK g \in [SUBSET S -> Int] : Adds(F, S, g)
  BY SumExists
<1> QED
  BY <1>1, SumAt

\* The first term taken out of a sum.
LEMMA SumFirst ==
    ASSUME NEW S, NEW F, Summable(F, S), S # {}
    PROVE  SumFunctionOnSet(F, S)
             = F[First(S)] + SumFunctionOnSet(F, S \ {First(S)})
<1>1. PICK g : Adds(F, S, g) /\ SumFunctionOnSet(F, S) = g[S]
  BY SumIs
<1>2. g[S \ {First(S)}] = SumFunctionOnSet(F, S \ {First(S)})
  BY <1>1, SumAt
<1> QED
  BY <1>1, <1>2 DEF Adds, AddsOn

\* Any term taken out of a sum.
LEMMA SumWithout ==
    ASSUME NEW S, NEW F, Summable(F, S), NEW e \in S
    PROVE  SumFunctionOnSet(F, S) = F[e] + SumFunctionOnSet(F, S \ {e})
<1> DEFINE sum(s) == SumFunctionOnSet(F, s)
           N == {n \in Nat : \A s \in SUBSET S : \A x \in s :
                    Cardinality(s) = n => sum(s) = F[x] + sum(s \ {x})}
<1>1. \A s \in SUBSET S :
        Summable(F, s) /\ IsFiniteSet(s) /\ Cardinality(s) \in Nat
  BY SummableParts, FS_CardinalityType DEF Summable
<1>2. 0 \in N
  BY <1>1, FS_EmptySet
<1>3. ASSUME NEW n \in Nat, n \in N PROVE n + 1 \in N
  <2> SUFFICES ASSUME NEW s \in SUBSET S, NEW x \in s, Cardinality(s) = n + 1
               PROVE  sum(s) = F[x] + sum(s \ {x})
    OBVIOUS
  <2> DEFINE f == First(s)
  <2>1. f \in s /\ Cardinality(s \ {f}) = n
    BY <1>1, FirstLess
  <2>2. sum(s) = F[f] + sum(s \ {f})
    BY <1>1, SumFirst
  <2> HIDE DEF f
  <2>3. CASE f = x
    BY <2>2, <2>3
  <2>4. CASE f # x
    <3>1. Cardinality(s \ {x}) = n
      <4>1. Cardinality(s \ {x}) = Cardinality(s) - 1
        BY <1>1, FS_RemoveElement
      <4> QED
        BY <4>1
    <3>2. sum(s \ {f}) = F[x] + sum((s \ {f}) \ {x})
      BY <1>3, <2>1, <2>4
    <3>3. sum(s \ {x}) = F[f] + sum((s \ {x}) \ {f})
      BY <1>3, <2>1, <2>4, <3>1
    <3>4. (s \ {x}) \ {f} = (s \ {f}) \ {x}
      OBVIOUS
    <3>5. F[f] \in Int /\ F[x] \in Int
      BY <2>1 DEF Summable
    <3>6. sum((s \ {f}) \ {x}) \in Int
      BY <1>1, SumType
    <3> HIDE DEF sum
    <3>7. sum(s) = F[f] + (F[x] + sum((s \ {f}) \ {x}))
      BY <2>2, <3>2
    <3>8. sum(s \ {x}) = F[f] + sum((s \ {f}) \ {x})
      BY <3>3, <3>4
    <3> QED
      BY <3>5, <3>6, <3>7, <3>8
  <2> QED
    BY <2>3, <2>4
<1> HIDE DEF N
<1>4. Cardinality(S) \in N
  BY <1>1, <1>2, <1>3, SetInduction
<1> QED
  BY <1>4 DEF N

\* Sums of equal terms are equal.
LEMMA SumSame ==
    ASSUME NEW S, NEW F, Summable(F, S), NEW G, \A x \in S : F[x] = G[x]
    PROVE  SumFunctionOnSet(F, S) = SumFunctionOnSet(G, S)
<1>1. PICK g : Adds(F, S, g) /\ SumFunctionOnSet(F, S) = g[S]
  BY SumIs
<1>2. Adds(G, S, g)
  <2>1. \A s \in SUBSET S : s # {} => First(s) \in S
    BY FirstLess DEF Summable
  <2> QED
    BY <1>1, <2>1 DEF Adds, AddsOn
<1>3. Summable(G, S)
  BY DEF Summable
<1> QED
  BY <1>1, <1>2, <1>3, SumAt

\* A sum of zeros.
LEMMA SumZero ==
    ASSUME NEW S, IsFiniteSet(S), NEW F, \A x \in S : F[x] = 0
    PROVE  SumFunctionOnSet(F, S) = 0
<1> DEFINE N == {n \in Nat : \A s \in SUBSET S :
                    Cardinality(s) = n => SumFunctionOnSet(F, s) = 0}
<1>1. \A s \in SUBSET S :
        Summable(F, s) /\ IsFiniteSet(s) /\ Cardinality(s) \in Nat
  BY FS_Subset, FS_CardinalityType DEF Summable
<1>2. 0 \in N
  BY <1>1, FS_EmptySet, SumEmpty
<1>3. ASSUME NEW n \in Nat, n \in N PROVE n + 1 \in N
  <2> SUFFICES ASSUME NEW s \in SUBSET S, Cardinality(s) = n + 1
               PROVE  SumFunctionOnSet(F, s) = 0
    OBVIOUS
  <2>1. s # {}
    BY FS_EmptySet
  <2>2. /\ First(s) \in s /\ Cardinality(s \ {First(s)}) = n
        /\ s \ {First(s)} \in SUBSET S
    BY <1>1, <2>1, FirstLess
  <2>3. SumFunctionOnSet(F, s \ {First(s)}) = 0
    BY <1>3, <2>2
  <2>4. SumFunctionOnSet(F, s) = F[First(s)] + SumFunctionOnSet(F, s \ {First(s)})
    BY <1>1, <2>1, SumFirst
  <2>5. F[First(s)] = 0
    BY <2>2
  <2> QED
    BY <2>3, <2>4, <2>5
<1> HIDE DEF N
<1>4. Cardinality(S) \in N
  BY <1>1, <1>2, <1>3, SetInduction
<1> QED
  BY <1>1, <1>4 DEF N

\* A sum over an interval, from its upper end.
LEMMA SumInterval ==
    ASSUME NEW n \in Nat, NEW F, \A k \in 0 .. n : F[k] \in Int
    PROVE  SumFunctionOnSet(F, 0 .. n) = SumFunctionOnSet(F, 0 .. n - 1) + F[n]
<1>1. Summable(F, 0 .. n) /\ Summable(F, 0 .. n - 1)
  BY FS_Interval DEF Summable
<1>2. (0 .. n) \ {n} = 0 .. n - 1 /\ n \in 0 .. n
  OBVIOUS
<1>3. SumFunctionOnSet(F, 0 .. n) = F[n] + SumFunctionOnSet(F, 0 .. n - 1)
  BY <1>1, <1>2, SumWithout
<1>4. SumFunctionOnSet(F, 0 .. n - 1) \in Int
  BY <1>1, SumType
<1> QED
  BY <1>3, <1>4

-----------------------------------------------------------------------------
(***************************************************************************)
(* Recursion                                                               *)
(***************************************************************************)
\* f[k] is the state after k of the n passes of a loop.
Loop(f, base, n, pass) ==
    f[0] = base /\ \A k \in 1 .. n : f[k] = pass[k][f[k - 1]]

\* A loop whose passes are functions of the state can be run n times.
LEMMA LoopRuns ==
    ASSUME NEW S, NEW base \in S, NEW n \in Nat, NEW pass \in [1 .. n -> [S -> S]]
    PROVE  \E f \in [0 .. n -> S] : Loop(f, base, n, pass)
<1> USE DEF Loop
<1> DEFINE N == {m \in Nat : \E f \in [0 .. m -> S] : Loop(f, base, m, pass)}
<1>1. 0 \in N
  <2>1. [k \in 0 .. 0 |-> base] \in [0 .. 0 -> S] /\ Loop([k \in 0 .. 0 |-> base], base, 0, pass)
    OBVIOUS
  <2> QED
    BY <2>1
<1>2. ASSUME NEW m \in 0 .. n - 1, m \in N PROVE m + 1 \in N
  <2>1. PICK f \in [0 .. m -> S] : Loop(f, base, m, pass)
    BY <1>2
  <2> DEFINE g == [k \in 0 .. m + 1 |-> IF k = m + 1 THEN pass[m + 1][f[m]] ELSE f[k]]
  <2>2. pass[m + 1][f[m]] \in S
    <3>1. m + 1 \in 1 .. n /\ m \in 0 .. m
      OBVIOUS
    <3> QED
      BY <2>1, <3>1
  <2>3. g \in [0 .. m + 1 -> S]
    BY <2>2
  <2>4. Loop(g, base, m + 1, pass)
    BY <2>1
  <2> HIDE DEF g, Loop
  <2> QED
    BY <2>3, <2>4
<1> HIDE DEF N
<1>3. n \in N
  <2>1. \A k \in 0 .. n - 1 : k \in N => k + 1 \in N
    BY <1>2
  <2>2. 0 .. n \subseteq N
    BY <1>1, <2>1, BoundedInduction, Zenon
  <2> QED
    BY <2>2
<1> QED
  BY <1>3 DEF N
=============================================================================
