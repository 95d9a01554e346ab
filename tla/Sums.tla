-------------------------------- MODULE Sums --------------------------------
(***************************************************************************)
(* Facts about natural numbers and about sums over finite sets that the    *)
(* proofs of several components need.  SumFunctionOnSet unfolds to a       *)
(* function on subsets that takes one chosen element away at a time; what  *)
(* it computes is shown by looking at a least counterexample.              *)
(***************************************************************************)
EXTENDS Functions, FiniteSetTheorems, WellFoundedInduction, TLAPS

\* Every non-empty set of natural numbers has a least element.
LEMMA LeastNatural ==
    ASSUME NEW T \in SUBSET Nat, T # {} PROVE \E n \in T : \A m \in T : n <= m
<1> DEFINE R == OpToRel(<, Nat)
<1>1. PICK n \in T : \A m \in T : ~(<<m, n>> \in R)
  <2>1. IsWellFoundedOn(R, Nat) BY NatLessThanWellFounded
  <2> HIDE DEF R
  <2> QED BY <2>1, WFMin
<1>2. \A m \in T : m < n => <<m, n>> \in R BY DEF OpToRel
<1> HIDE DEF R
<1>3. \A m \in T : m \in Nat /\ n \in Nat /\ ~(m < n) BY <1>1, <1>2
<1> QED BY <1>3

First(s) == CHOOSE x \in s : TRUE

\* g sums f over every subset of S.
IsSum(g, f, S) ==
    g = [s \in SUBSET S |-> IF s = {} THEN 0 ELSE f[First(s)] + g[s \ {First(s)}]]

\* Taking the chosen element away leaves a smaller subset.
LEMMA Smaller ==
    ASSUME NEW S, IsFiniteSet(S), NEW s \in SUBSET S, NEW y \in s
    PROVE  /\ s \ {y} \in SUBSET S /\ IsFiniteSet(s)
           /\ Cardinality(s) \in Nat /\ Cardinality(s \ {y}) \in Nat
           /\ Cardinality(s \ {y}) = Cardinality(s) - 1
<1>1. IsFiniteSet(s) BY FS_Subset
<1>2. Cardinality(s) \in Nat BY <1>1, FS_CardinalityType
<1>3. IsFiniteSet(s \ {y}) /\ Cardinality(s \ {y}) = Cardinality(s) - 1 BY <1>1, FS_RemoveElement
<1>4. Cardinality(s \ {y}) \in Nat BY <1>3, FS_CardinalityType
<1> QED BY <1>1, <1>2, <1>3, <1>4

\* A set of subsets that is not empty has a member of least cardinality.
LEMMA LeastSubset ==
    ASSUME NEW S, IsFiniteSet(S), NEW C \in SUBSET SUBSET S, C # {}
    PROVE  \E s \in C : \A t \in C : Cardinality(s) <= Cardinality(t)
<1> DEFINE T == {Cardinality(s) : s \in C}
<1>1. \A s \in C : Cardinality(s) \in Nat BY FS_Subset, FS_CardinalityType
<1>2. T \in SUBSET Nat /\ T # {} BY <1>1
<1>3. PICK n \in T : \A m \in T : n <= m BY <1>2, LeastNatural
<1> QED BY <1>3

\* The chosen element is one of the set's.
LEMMA FirstIn == ASSUME NEW s, s # {} PROVE First(s) \in s
BY DEF First

\* There is such a function: it can be given for subsets of any size.
LEMMA SumExists ==
    ASSUME NEW S, IsFiniteSet(S), NEW f PROVE \E g : IsSum(g, f, S)
<1> DEFINE Upto(n) == {s \in SUBSET S : Cardinality(s) <= n}
           Good(n) == \E g : g = [s \in Upto(n) |->
                          IF s = {} THEN 0 ELSE f[First(s)] + g[s \ {First(s)}]]
           Bad == {n \in Nat : ~Good(n)}
<1>0. \A s \in SUBSET S : Cardinality(s) \in Nat BY FS_Subset, FS_CardinalityType
<1>1. Good(0)
  <2> DEFINE g == [s \in Upto(0) |-> 0]
  <2>1. ASSUME NEW s \in Upto(0) PROVE s = {}
    <3>1. IsFiniteSet(s) BY FS_Subset
    <3>2. Cardinality(s) = 0 BY <1>0
    <3> QED BY <3>1, <3>2, FS_EmptySet
  <2> HIDE DEF Upto
  <2>2. g = [s \in Upto(0) |-> IF s = {} THEN 0 ELSE f[First(s)] + g[s \ {First(s)}]]
    BY <2>1
  <2> QED BY <2>2
<1>2. ASSUME NEW n \in Nat, Good(n) PROVE Good(n + 1)
  <2> DEFINE F(g, s) == IF s = {} THEN 0 ELSE f[First(s)] + g[s \ {First(s)}]
  <2>1. PICK g : g = [s \in Upto(n) |-> F(g, s)] BY <1>2
  <2> DEFINE h == [s \in Upto(n + 1) |-> F(g, s)]
  <2>2. ASSUME NEW s \in Upto(n + 1), s # {} PROVE s \ {First(s)} \in Upto(n)
    <3>1. First(s) \in s BY <2>2, FirstIn
    <3>2. Cardinality(s \ {First(s)}) = Cardinality(s) - 1 /\ s \ {First(s)} \in SUBSET S
      BY <3>1, Smaller
    <3>3. Cardinality(s) \in Nat /\ Cardinality(s) <= n + 1 BY <1>0
    <3> QED BY <3>2, <3>3
  <2>3. Upto(n) \subseteq Upto(n + 1) BY <1>0
  <2> HIDE DEF Upto
  <2>4. ASSUME NEW s \in Upto(n) PROVE h[s] = g[s] BY <2>1, <2>3
  <2>5. ASSUME NEW s \in Upto(n + 1) PROVE F(g, s) = F(h, s) BY <2>2, <2>4
  <2>6. h = [s \in Upto(n + 1) |-> F(h, s)]
    <3> HIDE DEF F
    <3> QED BY <2>5
  <2> QED BY <2>6
<1>3. Bad = {}
  <2> SUFFICES ASSUME Bad # {} PROVE FALSE OBVIOUS
  <2> HIDE DEF Good
  <2>1. PICK n \in Bad : \A m \in Bad : n <= m BY LeastNatural
  <2>2. n # 0 /\ n - 1 \in Nat BY <1>1, <2>1
  <2>3. Good(n - 1) BY <2>1, <2>2
  <2>4. Good(n - 1 + 1) BY <1>2, <2>2, <2>3
  <2>5. n - 1 + 1 = n BY <2>1
  <2> QED BY <2>4, <2>5
<1>4. Cardinality(S) \in Nat BY FS_CardinalityType
<1>5. Good(Cardinality(S))
  <2> HIDE DEF Good
  <2> QED BY <1>3, <1>4
<1>6. Upto(Cardinality(S)) = SUBSET S BY FS_Subset
<1> HIDE DEF Upto
<1> QED BY <1>5, <1>6 DEF IsSum

\* Sums of integers are integers.
LEMMA SumIsInt ==
    ASSUME NEW S, IsFiniteSet(S), NEW f, \A x \in S : f[x] \in Int, NEW g, IsSum(g, f, S)
    PROVE  \A s \in SUBSET S : g[s] \in Int
<1> DEFINE C == {s \in SUBSET S : g[s] \notin Int}
<1> SUFFICES ASSUME C # {} PROVE FALSE OBVIOUS
<1>1. PICK s \in C : \A t \in C : Cardinality(s) <= Cardinality(t) BY LeastSubset
<1>2. g[s] = IF s = {} THEN 0 ELSE f[First(s)] + g[s \ {First(s)}] BY <1>1 DEF IsSum
<1>3. s # {} BY <1>1, <1>2
<1>4. First(s) \in s BY <1>3, FirstIn
<1>5. s \ {First(s)} \in SUBSET S /\ Cardinality(s \ {First(s)}) = Cardinality(s) - 1
        /\ Cardinality(s) \in Nat
  BY <1>1, <1>4, Smaller
<1>6. s \ {First(s)} \notin C BY <1>1, <1>5
<1>7. g[s \ {First(s)}] \in Int /\ f[First(s)] \in Int BY <1>1, <1>4, <1>5, <1>6
<1> QED BY <1>1, <1>2, <1>3, <1>7

\* It does not matter which element is taken away.
LEMMA SumRemove ==
    ASSUME NEW S, IsFiniteSet(S), NEW f, \A x \in S : f[x] \in Int, NEW g, IsSum(g, f, S)
    PROVE  \A s \in SUBSET S : \A y \in s : g[s] = f[y] + g[s \ {y}]
<1> DEFINE C == {s \in SUBSET S : \E y \in s : g[s] # f[y] + g[s \ {y}]}
<1> SUFFICES ASSUME C # {} PROVE FALSE OBVIOUS
<1>0. \A s \in SUBSET S : g[s] \in Int BY SumIsInt
<1>1. PICK s \in C : \A t \in C : Cardinality(s) <= Cardinality(t) BY LeastSubset
<1>2. PICK y \in s : g[s] # f[y] + g[s \ {y}] BY <1>1
<1> DEFINE x == First(s)
<1>3. x \in s BY <1>2, FirstIn
<1>4. g[s] = f[x] + g[s \ {x}] BY <1>1, <1>2 DEF IsSum
<1> HIDE DEF x
<1>5. x # y BY <1>2, <1>4
<1>6. s \ {x} \in SUBSET S /\ Cardinality(s \ {x}) = Cardinality(s) - 1 /\ Cardinality(s) \in Nat
  BY <1>1, <1>3, Smaller
<1>7. s \ {y} \in SUBSET S /\ Cardinality(s \ {y}) = Cardinality(s) - 1
  BY <1>1, <1>2, Smaller
<1>8. s \ {x} \notin C /\ s \ {y} \notin C
  <2>1. \A t \in C : ~(Cardinality(t) = Cardinality(s) - 1) BY <1>1, <1>6
  <2> HIDE DEF C
  <2> QED BY <1>6, <1>7, <2>1
<1>9. g[s \ {x}] = f[y] + g[(s \ {x}) \ {y}] BY <1>2, <1>5, <1>6, <1>8
<1>10. g[s \ {y}] = f[x] + g[(s \ {y}) \ {x}] BY <1>3, <1>5, <1>7, <1>8
<1>11. (s \ {x}) \ {y} = (s \ {y}) \ {x} /\ (s \ {y}) \ {x} \in SUBSET S BY <1>1
<1>12. f[x] \in Int /\ f[y] \in Int /\ g[(s \ {y}) \ {x}] \in Int
  BY <1>0, <1>1, <1>2, <1>3, <1>11
<1>13. PICK a \in Int, b \in Int, z \in Int : a = f[x] /\ b = f[y] /\ z = g[(s \ {y}) \ {x}]
  BY <1>12
<1>14. g[s] = a + (b + z)
  <2>1. g[s \ {x}] = b + z BY <1>9, <1>11, <1>13
  <2> QED BY <1>4, <1>13, <2>1
<1>15. f[y] + g[s \ {y}] = b + (a + z)
  <2>1. g[s \ {y}] = a + z BY <1>10, <1>13
  <2> QED BY <1>13, <2>1
<1>16. a + (b + z) = b + (a + z) OBVIOUS
<1> QED BY <1>2, <1>14, <1>15, <1>16

\* A sum depends on the values that are summed, and on nothing else.
LEMMA SumsAgree ==
    ASSUME NEW S, NEW T, IsFiniteSet(T), S \subseteq T, NEW f, NEW e,
           \A x \in S : f[x] = e[x],
           NEW g, IsSum(g, f, S), NEW h, IsSum(h, e, T)
    PROVE  g[S] = h[S]
<1>0. IsFiniteSet(S) BY FS_Subset
<1> DEFINE C == {s \in SUBSET S : g[s] # h[s]}
<1> SUFFICES ASSUME C # {} PROVE FALSE OBVIOUS
<1>1. PICK s \in C : \A t \in C : Cardinality(s) <= Cardinality(t) BY <1>0, LeastSubset
<1>2. g[s] = IF s = {} THEN 0 ELSE f[First(s)] + g[s \ {First(s)}] BY <1>1 DEF IsSum
<1>3. h[s] = IF s = {} THEN 0 ELSE e[First(s)] + h[s \ {First(s)}] BY <1>1 DEF IsSum
<1>4. s # {} BY <1>1, <1>2, <1>3
<1>5. First(s) \in s BY <1>4, FirstIn
<1>6. s \ {First(s)} \in SUBSET S /\ Cardinality(s \ {First(s)}) = Cardinality(s) - 1
        /\ Cardinality(s) \in Nat
  BY <1>0, <1>1, <1>5, Smaller
<1>7. s \ {First(s)} \notin C BY <1>1, <1>6
<1>8. g[s \ {First(s)}] = h[s \ {First(s)}] /\ f[First(s)] = e[First(s)]
  BY <1>1, <1>5, <1>6, <1>7
<1> QED BY <1>1, <1>2, <1>3, <1>4, <1>8

-----------------------------------------------------------------------------
\* The library's sum is one of these functions, applied to the whole set.
LEMMA SumIs ==
    ASSUME NEW f, NEW S, IsFiniteSet(S)
    PROVE  \E g : IsSum(g, f, S) /\ SumFunctionOnSet(f, S) = g[S]
<1> DEFINE G == CHOOSE g : IsSum(g, f, S)
<1>1. IsSum(G, f, S) BY SumExists
<1>2. SumFunctionOnSet(f, S) = G[S]
  BY Zenon DEF SumFunctionOnSet, FoldFunctionOnSet, MapThenFoldSet, IsSum, First
<1> QED BY <1>1, <1>2

\* The empty sum.
LEMMA SumEmpty == ASSUME NEW f PROVE SumFunctionOnSet(f, {}) = 0
<1>1. PICK g : IsSum(g, f, {}) /\ SumFunctionOnSet(f, {}) = g[{}] BY FS_EmptySet, SumIs
<1>2. g[{}] = 0 BY <1>1 DEF IsSum
<1> QED BY <1>1, <1>2

\* A sum of integers with one element more.
LEMMA SumAdd ==
    ASSUME NEW f, NEW S, IsFiniteSet(S), NEW y, y \notin S, f[y] \in Int,
           \A x \in S : f[x] \in Int
    PROVE  /\ SumFunctionOnSet(f, S) \in Int
           /\ SumFunctionOnSet(f, S \cup {y}) = SumFunctionOnSet(f, S) + f[y]
<1> DEFINE T == S \cup {y}
<1>1. IsFiniteSet(T) BY FS_AddElement
<1>2. PICK g : IsSum(g, f, S) /\ SumFunctionOnSet(f, S) = g[S] BY SumIs
<1>3. PICK h : IsSum(h, f, T) /\ SumFunctionOnSet(f, T) = h[T] BY <1>1, SumIs
<1>4. \A x \in T : f[x] \in Int OBVIOUS
<1>5. T \ {y} = S /\ y \in T /\ S \subseteq T OBVIOUS
<1> HIDE DEF T
<1>6. h[T] = f[y] + h[T \ {y}] BY <1>1, <1>3, <1>4, <1>5, SumRemove
<1>7. g[S] = h[S] BY <1>1, <1>2, <1>3, <1>5, SumsAgree
<1>8. g[S] \in Int BY <1>2, SumIsInt
<1>9. SumFunctionOnSet(f, T) = SumFunctionOnSet(f, S) + f[y]
  <2>1. PICK a \in Int, b \in Int : a = f[y] /\ b = g[S] BY <1>8
  <2>2. h[T] = a + b BY <1>5, <1>6, <1>7, <2>1
  <2>3. a + b = b + a OBVIOUS
  <2> QED BY <1>2, <1>3, <2>1, <2>2, <2>3
<1> QED BY <1>2, <1>8, <1>9 DEF T

\* Functions that agree on the set have the same sum.
LEMMA SumSame ==
    ASSUME NEW f, NEW e, NEW S, IsFiniteSet(S), \A x \in S : f[x] = e[x]
    PROVE  SumFunctionOnSet(f, S) = SumFunctionOnSet(e, S)
<1>1. PICK g : IsSum(g, f, S) /\ SumFunctionOnSet(f, S) = g[S] BY SumIs
<1>2. PICK h : IsSum(h, e, S) /\ SumFunctionOnSet(e, S) = h[S] BY SumIs
<1>3. g[S] = h[S] BY <1>1, <1>2, SumsAgree
<1> QED BY <1>1, <1>2, <1>3
=============================================================================
