------------------------------ MODULE SumTheorems ------------------------------
(***************************************************************************)
(* Facts about the sum of an integer function over a finite set: what      *)
(* SumFunctionOnSet of the module Functions returns, which the modules add *)
(* amounts, sizes and shares with.  It is a recursive function on the      *)
(* subsets of the set that takes away an element of its own choosing; a    *)
(* fact holds of every subset because it holds of the smallest one it      *)
(* might fail for.                                                         *)
(***************************************************************************)
EXTENDS FiniteSetsExt, Functions, FiniteSetTheorems, TLAPS

\* The least of some numbers.
LEMMA LeastNumber ==
  ASSUME NEW T, T \subseteq Nat, T # {}
  PROVE  \E n \in T : \A m \in T : n <= m
<1>1. PICK n \in T : \A m \in T : <<m, n>> \notin {ss \in Nat \X Nat : ss[1] < ss[2]}
  BY NatLessThanWellFounded, WFMin DEF OpToRel
<1>2. ASSUME NEW m \in T PROVE n <= m
  <2>1. m \in Nat /\ n \in Nat
    OBVIOUS
  <2>2. ~(m < n)
    BY <1>1, <2>1
  <2> QED
    BY <2>1, <2>2
<1> QED
  BY <1>2

\* A smallest one of some subsets of a finite set.
LEMMA SmallestSubset ==
  ASSUME NEW S, IsFiniteSet(S), NEW T, T \subseteq SUBSET S, T # {}
  PROVE  \E X \in T : \A Y \in T : Y \subseteq X => Y = X
<1>1. IsWellFoundedOn(StrictSubsetOrdering(S), SUBSET S)
  BY FS_StrictSubsetOrderingWellFounded, FS_FiniteSubsetsOfFinite
<1>2. PICK X \in T : \A Y \in T : ~(<<Y, X>> \in StrictSubsetOrdering(S))
  BY <1>1, WFMin
<1>3. ASSUME NEW Y \in T, Y \subseteq X PROVE Y = X
  BY <1>2, <1>3 DEF StrictSubsetOrdering
<1> QED
  BY <1>3

------------------------------------------------------------------------------
(* The recursion *)

Added(f, g, t) == IF t = {} THEN 0 ELSE f[CHOOSE x \in t : TRUE] + g[t \ {CHOOSE x \in t : TRUE}]

\* g adds f up over every subset of S.
Adds(g, f, S) == g = [t \in SUBSET S |-> Added(f, g, t)]

Integral(f, S) == \A x \in S : f[x] \in Int

LEMMA SumIsFold ==
  ASSUME NEW f, NEW S
  PROVE  SumFunctionOnSet(f, S) = (CHOOSE g : Adds(g, f, S))[S]
BY DEF SumFunctionOnSet, FoldFunctionOnSet, MapThenFoldSet, Adds, Added

LEMMA AddsAt ==
  ASSUME NEW g, NEW f, NEW S, Adds(g, f, S), NEW t \in SUBSET S
  PROVE  /\ t = {} => g[t] = 0
         /\ t # {} => \E x \in t : x = (CHOOSE y \in t : TRUE) /\ g[t] = f[x] + g[t \ {x}]
BY DEF Adds, Added

\* The recursion is well defined: it is for sets of at most n elements, whatever n.
LEMMA AddsExists ==
  ASSUME NEW f, NEW S, IsFiniteSet(S), Integral(f, S)
  PROVE  \E g : Adds(g, f, S)
<1> DEFINE UpTo(g, n) == \A t \in SUBSET S : Cardinality(t) <= n => g[t] = Added(f, g, t)
           Bad == {n \in Nat : ~ \E g \in [SUBSET S -> Int] : UpTo(g, n)}
<1>1. \A t \in SUBSET S : Cardinality(t) \in Nat /\ (Cardinality(t) = 0 <=> t = {})
  <2> TAKE t \in SUBSET S
  <2>1. IsFiniteSet(t)
    BY FS_Subset
  <2> QED
    BY <2>1, FS_CardinalityType, FS_EmptySet
<1>2. \A t \in SUBSET S : \A x \in t : Cardinality(t \ {x}) = Cardinality(t) - 1
  <2> TAKE t \in SUBSET S
  <2>1. IsFiniteSet(t)
    BY FS_Subset
  <2> QED
    BY <2>1, FS_RemoveElement
<1>3. Bad = {}
  <2> SUFFICES ASSUME Bad # {} PROVE FALSE
    OBVIOUS
  <2>1. PICK n \in Bad : \A m \in Bad : n <= m
    BY LeastNumber
  <2>2. n # 0
    <3> DEFINE zero == [t \in SUBSET S |-> 0]
    <3>1. zero \in [SUBSET S -> Int]
      OBVIOUS
    <3>2. UpTo(zero, 0)
      BY <1>1 DEF Added
    <3> QED
      BY <3>1, <3>2
  <2>3. n - 1 \in Nat /\ n - 1 \notin Bad
    <3>1. n \in Nat
      OBVIOUS
    <3>2. n - 1 \in Nat /\ ~(n <= n - 1)
      BY <2>2, <3>1
    <3> QED
      BY <2>1, <3>2
  <2>4. PICK g \in [SUBSET S -> Int] : UpTo(g, n - 1)
    BY <2>3
  <2> DEFINE h == [t \in SUBSET S |-> IF Cardinality(t) <= n - 1 THEN g[t] ELSE Added(f, g, t)]
  <2>5. \A t \in SUBSET S : Added(f, g, t) \in Int
    <3> TAKE t \in SUBSET S
    <3>1. CASE t = {}
      BY <3>1 DEF Added
    <3>2. CASE t # {}
      <4>1. PICK x \in t : x = CHOOSE y \in t : TRUE
        BY <3>2
      <4>2. t \ {x} \in SUBSET S /\ f[x] \in Int
        BY DEF Integral
      <4> QED
        BY <3>2, <4>1, <4>2 DEF Added
    <3> QED
      BY <3>1, <3>2
  <2>6. h \in [SUBSET S -> Int]
    BY <2>5
  <2>7. UpTo(h, n)
    <3> SUFFICES ASSUME NEW t \in SUBSET S, Cardinality(t) <= n PROVE h[t] = Added(f, h, t)
      OBVIOUS
    <3>1. h[t] = Added(f, g, t)
      BY <2>4
    <3>2. CASE t = {}
      BY <3>1, <3>2 DEF Added
    <3>3. CASE t # {}
      <4>1. PICK x \in t : x = CHOOSE y \in t : TRUE
        BY <3>3
      <4>2. t \ {x} \in SUBSET S /\ Cardinality(t \ {x}) <= n - 1
        BY <1>1, <1>2
      <4>3. h[t \ {x}] = g[t \ {x}]
        BY <4>2
      <4> HIDE DEF h
      <4> QED
        BY <3>1, <3>3, <4>1, <4>3 DEF Added
    <3> QED
      BY <3>2, <3>3
  <2> QED
    BY <2>1, <2>6, <2>7
<1>4. PICK g \in [SUBSET S -> Int] : UpTo(g, Cardinality(S))
  BY <1>1, <1>3
<1>5. \A t \in SUBSET S : Cardinality(t) <= Cardinality(S)
  BY FS_Subset
<1>6. g = [t \in SUBSET S |-> Added(f, g, t)]
  BY <1>4, <1>5
<1> QED
  BY <1>6 DEF Adds

\* Two functions that agree are added up to the same, whatever sets the recursion runs on.
LEMMA AddsAgree ==
  ASSUME NEW S, NEW T, IsFiniteSet(S), NEW f, NEW h, NEW g, NEW k, Adds(g, f, S), Adds(k, h, T),
         Integral(f, S), NEW t \in SUBSET (S \cap T), \A x \in t : f[x] = h[x]
  PROVE  g[t] = k[t] /\ g[t] \in Int
<1> DEFINE Bad == {u \in SUBSET t : ~(g[u] = k[u] /\ g[u] \in Int)}
<1> SUFFICES ASSUME Bad # {} PROVE FALSE
  OBVIOUS
<1>1. IsFiniteSet(t)
  BY FS_Subset
<1>2. PICK u \in Bad : \A v \in Bad : v \subseteq u => v = u
  <2>1. Bad \subseteq SUBSET t
    OBVIOUS
  <2> HIDE DEF Bad
  <2> QED
    BY <1>1, <2>1, SmallestSubset
<1>3. u \in SUBSET S /\ u \in SUBSET T
  OBVIOUS
<1>4. u # {}
  BY <1>3, AddsAt
<1>5. PICK x \in u : x = (CHOOSE y \in u : TRUE) /\ g[u] = f[x] + g[u \ {x}]
  BY <1>3, <1>4, AddsAt
<1>6. PICK y \in u : y = (CHOOSE z \in u : TRUE) /\ k[u] = h[y] + k[u \ {y}]
  BY <1>3, <1>4, AddsAt
<1>7. x = y
  BY <1>5, <1>6
<1>8. u \ {x} \notin Bad
  BY <1>2
<1>9. g[u \ {x}] = k[u \ {x}] /\ g[u \ {x}] \in Int
  BY <1>8
<1>10. f[x] = h[x] /\ f[x] \in Int
  BY <1>3 DEF Integral
<1> QED
  BY <1>2, <1>5, <1>6, <1>7, <1>9, <1>10

LEMMA AddsInt ==
  ASSUME NEW S, IsFiniteSet(S), NEW f, NEW g, Adds(g, f, S), Integral(f, S), NEW t \in SUBSET S
  PROVE  g[t] \in Int
<1>1. t \in SUBSET (S \cap S) /\ \A x \in t : f[x] = f[x]
  OBVIOUS
<1> QED
  BY <1>1, AddsAgree

\* The order in which the elements are taken away does not matter.
LEMMA AddsAnyOrder ==
  ASSUME NEW S, IsFiniteSet(S), NEW f, NEW g, Adds(g, f, S), Integral(f, S), NEW t \in SUBSET S, NEW x \in t
  PROVE  g[t] = f[x] + g[t \ {x}]
<1> DEFINE Bad == {u \in SUBSET S : \E y \in u : g[u] # f[y] + g[u \ {y}]}
<1> SUFFICES ASSUME Bad # {} PROVE FALSE
  OBVIOUS
<1>1. PICK u \in Bad : \A v \in Bad : v \subseteq u => v = u
  <2>1. Bad \subseteq SUBSET S
    OBVIOUS
  <2> HIDE DEF Bad
  <2> QED
    BY <2>1, SmallestSubset
<1>2. PICK y \in u : g[u] # f[y] + g[u \ {y}]
  OBVIOUS
<1>3. PICK z \in u : g[u] = f[z] + g[u \ {z}]
  BY AddsAt
<1>4. y # z
  BY <1>2, <1>3
<1>5. u \ {y} \notin Bad /\ u \ {z} \notin Bad
  BY <1>1
<1>6. z \in u \ {y} /\ y \in u \ {z}
  BY <1>4
<1>7. PICK w \in SUBSET S : w = (u \ {y}) \ {z} /\ w = (u \ {z}) \ {y}
  OBVIOUS
<1>8. g[u \ {y}] = f[z] + g[w]
  BY <1>5, <1>6, <1>7
<1>9. g[u \ {z}] = f[y] + g[w]
  BY <1>5, <1>6, <1>7
<1>10. g[w] \in Int /\ f[y] \in Int /\ f[z] \in Int
  BY AddsInt DEF Integral
<1>11. f[z] + (f[y] + g[w]) = f[y] + (f[z] + g[w])
  BY <1>10
<1> QED
  BY <1>2, <1>3, <1>8, <1>9, <1>11

------------------------------------------------------------------------------
(* Sums *)

LEMMA SumIsAdded ==
  ASSUME NEW S, IsFiniteSet(S), NEW f, Integral(f, S)
  PROVE  \E g : Adds(g, f, S) /\ \A t \in SUBSET S : SumFunctionOnSet(f, t) = g[t]
<1> DEFINE G(t) == CHOOSE g : Adds(g, f, t)
<1>1. \A t \in SUBSET S : Adds(G(t), f, t)
  <2> TAKE t \in SUBSET S
  <2>1. IsFiniteSet(t) /\ Integral(f, t)
    BY FS_Subset DEF Integral
  <2>2. \E g : Adds(g, f, t)
    BY <2>1, AddsExists
  <2> QED
    BY <2>2
<1>2. \A t \in SUBSET S : SumFunctionOnSet(f, t) = G(t)[t]
  BY SumIsFold
<1> HIDE DEF G
<1>3. Adds(G(S), f, S)
  BY <1>1
<1>4. ASSUME NEW t \in SUBSET S PROVE G(S)[t] = G(t)[t]
  <2>1. Adds(G(t), f, t) /\ t \in SUBSET (S \cap t)
    BY <1>1
  <2> QED
    BY <1>3, <2>1, AddsAgree
<1> QED
  BY <1>2, <1>3, <1>4

THEOREM SumOfFunction ==
  ASSUME NEW f
  PROVE  SumFunction(f) = SumFunctionOnSet(f, DOMAIN f)
BY DEF SumFunction, FoldFunction, SumFunctionOnSet

THEOREM SumOfNone ==
  ASSUME NEW f
  PROVE  SumFunctionOnSet(f, {}) = 0
<1>1. IsFiniteSet({}) /\ Integral(f, {})
  BY FS_EmptySet DEF Integral
<1>2. PICK g : Adds(g, f, {}) /\ SumFunctionOnSet(f, {}) = g[{}]
  BY <1>1, SumIsAdded
<1> QED
  BY <1>2, AddsAt

THEOREM SumIsInt ==
  ASSUME NEW S, IsFiniteSet(S), NEW f, Integral(f, S)
  PROVE  SumFunctionOnSet(f, S) \in Int
<1>1. PICK g : Adds(g, f, S) /\ SumFunctionOnSet(f, S) = g[S]
  BY SumIsAdded
<1> QED
  BY <1>1, AddsInt

\* Any element may be counted apart.
THEOREM SumWith ==
  ASSUME NEW S, IsFiniteSet(S), NEW f, Integral(f, S), NEW x \in S
  PROVE  SumFunctionOnSet(f, S) = f[x] + SumFunctionOnSet(f, S \ {x})
<1>1. PICK g : Adds(g, f, S) /\ \A t \in SUBSET S : SumFunctionOnSet(f, t) = g[t]
  BY SumIsAdded
<1>2. g[S] = f[x] + g[S \ {x}]
  BY <1>1, AddsAnyOrder
<1> QED
  BY <1>1, <1>2

\* Only the values on the set count.
THEOREM SumSame ==
  ASSUME NEW S, IsFiniteSet(S), NEW f, NEW h, Integral(f, S), \A x \in S : f[x] = h[x]
  PROVE  SumFunctionOnSet(f, S) = SumFunctionOnSet(h, S)
<1>1. Integral(h, S)
  BY DEF Integral
<1>2. PICK g : Adds(g, f, S) /\ SumFunctionOnSet(f, S) = g[S]
  BY SumIsAdded
<1>3. PICK k : Adds(k, h, S) /\ SumFunctionOnSet(h, S) = k[S]
  BY <1>1, SumIsAdded
<1>4. S \in SUBSET (S \cap S)
  OBVIOUS
<1>5. g[S] = k[S]
  BY <1>2, <1>3, <1>4, AddsAgree
<1> QED
  BY <1>2, <1>3, <1>5

\* One value changes.
THEOREM SumChanged ==
  ASSUME NEW S, IsFiniteSet(S), NEW f, NEW h, Integral(f, S), NEW x \in S, h[x] \in Int,
         \A y \in S \ {x} : h[y] = f[y]
  PROVE  SumFunctionOnSet(h, S) = SumFunctionOnSet(f, S) - f[x] + h[x]
<1>1. Integral(h, S) /\ Integral(f, S \ {x}) /\ IsFiniteSet(S \ {x}) /\ f[x] \in Int
  BY FS_Subset DEF Integral
<1>2. SumFunctionOnSet(f, S) = f[x] + SumFunctionOnSet(f, S \ {x})
  BY SumWith
<1>3. SumFunctionOnSet(h, S) = h[x] + SumFunctionOnSet(h, S \ {x})
  BY <1>1, SumWith
<1>4. SumFunctionOnSet(f, S \ {x}) = SumFunctionOnSet(h, S \ {x})
  BY <1>1, SumSame
<1>5. SumFunctionOnSet(f, S \ {x}) \in Int
  BY <1>1, SumIsInt
<1> QED
  BY <1>1, <1>2, <1>3, <1>4, <1>5

\* An element joins the set.
THEOREM SumJoined ==
  ASSUME NEW S, IsFiniteSet(S), NEW x, x \notin S, NEW f, Integral(f, S \cup {x})
  PROVE  SumFunctionOnSet(f, S \cup {x}) = f[x] + SumFunctionOnSet(f, S)
<1>1. IsFiniteSet(S \cup {x}) /\ (S \cup {x}) \ {x} = S
  BY FS_AddElement
<1> QED
  BY <1>1, SumWith

\* Values that are not negative have a sum that is not.
THEOREM SumNotNegative ==
  ASSUME NEW S, IsFiniteSet(S), NEW f, \A x \in S : f[x] \in Nat
  PROVE  SumFunctionOnSet(f, S) \in Nat
<1>1. \A t \in SUBSET S : IsFiniteSet(t) /\ Integral(f, t)
  BY FS_Subset DEF Integral
<1> DEFINE Bad == {t \in SUBSET S : SumFunctionOnSet(f, t) \notin Nat}
<1> SUFFICES ASSUME Bad # {} PROVE FALSE
  OBVIOUS
<1>2. PICK t \in Bad : \A u \in Bad : u \subseteq t => u = t
  <2>1. Bad \subseteq SUBSET S
    OBVIOUS
  <2> HIDE DEF Bad
  <2> QED
    BY <2>1, SmallestSubset
<1>3. t # {}
  BY SumOfNone
<1>4. PICK x \in t : TRUE
  BY <1>3
<1>5. t \ {x} \in SUBSET S /\ t \ {x} \notin Bad
  BY <1>2
<1>6. SumFunctionOnSet(f, t) = f[x] + SumFunctionOnSet(f, t \ {x})
  BY <1>1, SumWith
<1>7. f[x] \in Nat /\ SumFunctionOnSet(f, t \ {x}) \in Nat
  BY <1>5
<1> QED
  BY <1>6, <1>7

\* Zeros add up to nothing.
THEOREM SumOfZeros ==
  ASSUME NEW S, IsFiniteSet(S), NEW f, \A x \in S : f[x] = 0
  PROVE  SumFunctionOnSet(f, S) = 0
<1>1. \A t \in SUBSET S : IsFiniteSet(t) /\ Integral(f, t)
  BY FS_Subset DEF Integral
<1> DEFINE Bad == {t \in SUBSET S : SumFunctionOnSet(f, t) # 0}
<1> SUFFICES ASSUME Bad # {} PROVE FALSE
  OBVIOUS
<1>2. PICK t \in Bad : \A u \in Bad : u \subseteq t => u = t
  <2>1. Bad \subseteq SUBSET S
    OBVIOUS
  <2> HIDE DEF Bad
  <2> QED
    BY <2>1, SmallestSubset
<1>3. t # {}
  BY SumOfNone
<1>4. PICK x \in t : TRUE
  BY <1>3
<1>5. t \ {x} \in SUBSET S /\ t \ {x} \notin Bad
  BY <1>2
<1>6. SumFunctionOnSet(f, t) = f[x] + SumFunctionOnSet(f, t \ {x})
  BY <1>1, SumWith
<1>7. f[x] = 0 /\ SumFunctionOnSet(f, t \ {x}) = 0
  BY <1>5
<1> QED
  BY <1>6, <1>7

\* What may fail of a subset fails first of one that holds without one of its elements.
LEMMA SmallestFailure ==
  ASSUME NEW S, IsFiniteSet(S), NEW Bad, Bad \subseteq SUBSET S, {} \notin Bad, Bad # {}
  PROVE  \E t \in Bad : \E x \in t : t \ {x} \in SUBSET S /\ t \ {x} \notin Bad
<1>1. PICK t \in Bad : \A u \in Bad : u \subseteq t => u = t
  BY SmallestSubset
<1>2. PICK x \in t : TRUE
  OBVIOUS
<1>3. t \ {x} \in SUBSET S /\ t \ {x} \subseteq t /\ t \ {x} # t
  OBVIOUS
<1> QED
  BY <1>1, <1>3

\* Values that are sums have the sum of the sums.
THEOREM SumOfSums ==
  ASSUME NEW S, IsFiniteSet(S), NEW f, NEW g, NEW h, Integral(f, S), Integral(g, S),
         \A x \in S : h[x] = f[x] + g[x]
  PROVE  SumFunctionOnSet(h, S) = SumFunctionOnSet(f, S) + SumFunctionOnSet(g, S)
<1> DEFINE Bad == {t \in SUBSET S : SumFunctionOnSet(h, t) # SumFunctionOnSet(f, t) + SumFunctionOnSet(g, t)}
<1> SUFFICES ASSUME Bad # {} PROVE FALSE
  OBVIOUS
<1>1. {} \notin Bad
  BY SumOfNone
<1>2. PICK t \in Bad : \E x \in t : t \ {x} \in SUBSET S /\ t \ {x} \notin Bad
  <2>1. Bad \subseteq SUBSET S
    OBVIOUS
  <2> HIDE DEF Bad
  <2> QED
    BY <1>1, <2>1, SmallestFailure
<1>3. PICK x \in t : t \ {x} \in SUBSET S /\ t \ {x} \notin Bad
  BY <1>2
<1>4. t \in SUBSET S /\ x \in S
  OBVIOUS
<1>5. \A u \in SUBSET S : IsFiniteSet(u) /\ Integral(f, u) /\ Integral(g, u) /\ Integral(h, u)
  BY FS_Subset DEF Integral
<1>6. /\ SumFunctionOnSet(f, t) = f[x] + SumFunctionOnSet(f, t \ {x})
      /\ SumFunctionOnSet(g, t) = g[x] + SumFunctionOnSet(g, t \ {x})
      /\ SumFunctionOnSet(h, t) = h[x] + SumFunctionOnSet(h, t \ {x})
  BY <1>4, <1>5, SumWith
<1>7. /\ SumFunctionOnSet(f, t \ {x}) \in Int /\ SumFunctionOnSet(g, t \ {x}) \in Int
      /\ f[x] \in Int /\ g[x] \in Int /\ h[x] = f[x] + g[x]
  BY <1>3, <1>4, <1>5, SumIsInt DEF Integral
<1>8. SumFunctionOnSet(h, t \ {x}) = SumFunctionOnSet(f, t \ {x}) + SumFunctionOnSet(g, t \ {x})
  BY <1>3
<1>9. SumFunctionOnSet(h, t) # SumFunctionOnSet(f, t) + SumFunctionOnSet(g, t)
  OBVIOUS
<1> QED
  BY <1>6, <1>7, <1>8, <1>9

\* A common factor.
THEOREM SumScaled ==
  ASSUME NEW S, IsFiniteSet(S), NEW f, NEW h, Integral(f, S), NEW k \in Int,
         \A x \in S : h[x] = k * f[x]
  PROVE  SumFunctionOnSet(h, S) = k * SumFunctionOnSet(f, S)
<1> DEFINE Bad == {t \in SUBSET S : SumFunctionOnSet(h, t) # k * SumFunctionOnSet(f, t)}
<1> SUFFICES ASSUME Bad # {} PROVE FALSE
  OBVIOUS
<1>1. {} \notin Bad
  BY SumOfNone
<1>2. PICK t \in Bad : \E x \in t : t \ {x} \in SUBSET S /\ t \ {x} \notin Bad
  <2>1. Bad \subseteq SUBSET S
    OBVIOUS
  <2> HIDE DEF Bad
  <2> QED
    BY <1>1, <2>1, SmallestFailure
<1>3. PICK x \in t : t \ {x} \in SUBSET S /\ t \ {x} \notin Bad
  BY <1>2
<1>4. t \in SUBSET S /\ x \in S
  OBVIOUS
<1>5. \A u \in SUBSET S : IsFiniteSet(u) /\ Integral(f, u) /\ Integral(h, u)
  BY FS_Subset DEF Integral
<1>6. /\ SumFunctionOnSet(f, t) = f[x] + SumFunctionOnSet(f, t \ {x})
      /\ SumFunctionOnSet(h, t) = h[x] + SumFunctionOnSet(h, t \ {x})
  BY <1>4, <1>5, SumWith
<1>7. /\ SumFunctionOnSet(f, t \ {x}) \in Int /\ f[x] \in Int /\ h[x] = k * f[x]
  BY <1>3, <1>4, <1>5, SumIsInt DEF Integral
<1>8. SumFunctionOnSet(h, t \ {x}) = k * SumFunctionOnSet(f, t \ {x})
  BY <1>3
<1>9. SumFunctionOnSet(h, t) # k * SumFunctionOnSet(f, t)
  OBVIOUS
<1>10. \A a, b \in Int : k * (a + b) = k * a + k * b
  OBVIOUS
<1> QED
  BY <1>6, <1>7, <1>8, <1>9, <1>10

\* Values that are at most k have at most k times as many as there are.
THEOREM SumBounded ==
  ASSUME NEW S, IsFiniteSet(S), NEW f, Integral(f, S), NEW k \in Int, \A x \in S : f[x] <= k
  PROVE  SumFunctionOnSet(f, S) <= k * Cardinality(S)
<1> DEFINE Bad == {t \in SUBSET S : ~(SumFunctionOnSet(f, t) <= k * Cardinality(t))}
<1> SUFFICES ASSUME Bad # {} PROVE FALSE
  OBVIOUS
<1>1. {} \notin Bad
  <2>1. SumFunctionOnSet(f, {}) = 0 /\ Cardinality({}) = 0 /\ k * 0 = 0
    BY SumOfNone, FS_EmptySet
  <2> QED
    BY <2>1
<1>2. PICK t \in Bad : \E x \in t : t \ {x} \in SUBSET S /\ t \ {x} \notin Bad
  <2>1. Bad \subseteq SUBSET S
    OBVIOUS
  <2> HIDE DEF Bad
  <2> QED
    BY <1>1, <2>1, SmallestFailure
<1>3. PICK x \in t : t \ {x} \in SUBSET S /\ t \ {x} \notin Bad
  BY <1>2
<1>4. t \in SUBSET S /\ x \in S
  OBVIOUS
<1>5. \A u \in SUBSET S : IsFiniteSet(u) /\ Integral(f, u)
  BY FS_Subset DEF Integral
<1>6. SumFunctionOnSet(f, t) = f[x] + SumFunctionOnSet(f, t \ {x})
  BY <1>4, <1>5, SumWith
<1>7. SumFunctionOnSet(f, t \ {x}) \in Int /\ f[x] \in Int /\ f[x] <= k
  BY <1>3, <1>4, <1>5, SumIsInt DEF Integral
<1>8. Cardinality(t) \in Nat /\ Cardinality(t \ {x}) = Cardinality(t) - 1
  BY <1>4, <1>5, FS_CardinalityType, FS_RemoveElement
<1>9. SumFunctionOnSet(f, t \ {x}) <= k * Cardinality(t \ {x})
  BY <1>3
<1>10. ~(SumFunctionOnSet(f, t) <= k * Cardinality(t))
  OBVIOUS
<1>11. \A n \in Nat : k * (n - 1) = k * n - k /\ k * n \in Int
  OBVIOUS
<1> QED
  BY <1>6, <1>7, <1>8, <1>9, <1>10, <1>11

\* A sum of ones counts.
THEOREM SumOfOnes ==
  ASSUME NEW S, IsFiniteSet(S), NEW f, \A x \in S : f[x] = 1
  PROVE  SumFunctionOnSet(f, S) = Cardinality(S)
<1> DEFINE Bad == {t \in SUBSET S : SumFunctionOnSet(f, t) # Cardinality(t)}
<1> SUFFICES ASSUME Bad # {} PROVE FALSE
  OBVIOUS
<1>1. {} \notin Bad
  BY SumOfNone, FS_EmptySet
<1>2. PICK t \in Bad : \E x \in t : t \ {x} \in SUBSET S /\ t \ {x} \notin Bad
  <2>1. Bad \subseteq SUBSET S
    OBVIOUS
  <2> HIDE DEF Bad
  <2> QED
    BY <1>1, <2>1, SmallestFailure
<1>3. PICK x \in t : t \ {x} \in SUBSET S /\ t \ {x} \notin Bad
  BY <1>2
<1>4. t \in SUBSET S /\ x \in S
  OBVIOUS
<1>5. \A u \in SUBSET S : IsFiniteSet(u) /\ Integral(f, u)
  BY FS_Subset DEF Integral
<1>6. SumFunctionOnSet(f, t) = f[x] + SumFunctionOnSet(f, t \ {x}) /\ f[x] = 1
  BY <1>4, <1>5, SumWith
<1>7. Cardinality(t) \in Nat /\ Cardinality(t \ {x}) = Cardinality(t) - 1
  BY <1>4, <1>5, FS_CardinalityType, FS_RemoveElement
<1>8. SumFunctionOnSet(f, t \ {x}) = Cardinality(t \ {x})
  BY <1>3
<1>9. SumFunctionOnSet(f, t) # Cardinality(t)
  OBVIOUS
<1> QED
  BY <1>6, <1>7, <1>8, <1>9

\* A sum over two parts of a set.
THEOREM SumSplit ==
  ASSUME NEW S, IsFiniteSet(S), NEW f, Integral(f, S), NEW T \in SUBSET S
  PROVE  SumFunctionOnSet(f, S) = SumFunctionOnSet(f, T) + SumFunctionOnSet(f, S \ T)
<1> DEFINE Bad == {t \in SUBSET T : SumFunctionOnSet(f, S \ (T \ t)) # SumFunctionOnSet(f, t) + SumFunctionOnSet(f, S \ T)}
<1>1. \A u \in SUBSET S : IsFiniteSet(u) /\ Integral(f, u) /\ SumFunctionOnSet(f, u) \in Int
  <2> TAKE u \in SUBSET S
  <2>1. IsFiniteSet(u) /\ Integral(f, u)
    BY FS_Subset DEF Integral
  <2> QED
    BY <2>1, SumIsInt
<1>2. Bad = {}
  <2> SUFFICES ASSUME Bad # {} PROVE FALSE
    OBVIOUS
  <2>1. {} \notin Bad
    <3>1. S \ (T \ {}) = S \ T /\ S \ T \in SUBSET S
      OBVIOUS
    <3>2. SumFunctionOnSet(f, S \ T) = 0 + SumFunctionOnSet(f, S \ T)
      BY <1>1, <3>1
    <3> QED
      BY <3>1, <3>2, SumOfNone
  <2>2. PICK t \in Bad : \E x \in t : t \ {x} \in SUBSET T /\ t \ {x} \notin Bad
    <3>1. Bad \subseteq SUBSET T /\ IsFiniteSet(T)
      BY <1>1
    <3> HIDE DEF Bad
    <3> QED
      BY <2>1, <3>1, SmallestFailure
  <2>3. PICK x \in t : t \ {x} \in SUBSET T /\ t \ {x} \notin Bad
    BY <2>2
  <2> DEFINE A == S \ (T \ t)
             B == S \ (T \ (t \ {x}))
  <2>4. /\ t \in SUBSET S /\ A \in SUBSET S /\ B \in SUBSET S /\ x \in A /\ x \in S
        /\ B = A \ {x} /\ S \ T \in SUBSET S /\ t \ {x} \in SUBSET S
    OBVIOUS
  <2>5. SumFunctionOnSet(f, B) = SumFunctionOnSet(f, t \ {x}) + SumFunctionOnSet(f, S \ T)
    BY <2>3
  <2>6. SumFunctionOnSet(f, A) # SumFunctionOnSet(f, t) + SumFunctionOnSet(f, S \ T)
    OBVIOUS
  <2> HIDE DEF A, B
  <2>7. /\ SumFunctionOnSet(f, A) = f[x] + SumFunctionOnSet(f, B)
        /\ SumFunctionOnSet(f, t) = f[x] + SumFunctionOnSet(f, t \ {x})
    BY <1>1, <2>4, SumWith
  <2>8. /\ SumFunctionOnSet(f, t \ {x}) \in Int /\ SumFunctionOnSet(f, S \ T) \in Int /\ f[x] \in Int
    BY <1>1, <2>4 DEF Integral
  <2> QED
    BY <2>5, <2>6, <2>7, <2>8
<1>3. S \ (T \ T) = S /\ T \in SUBSET T
  OBVIOUS
<1> QED
  BY <1>2, <1>3

\* A value is no more than the sum it is part of, when none is negative.
THEOREM PartOfSum ==
  ASSUME NEW S, IsFiniteSet(S), NEW f, \A x \in S : f[x] \in Nat, NEW x \in S
  PROVE  f[x] <= SumFunctionOnSet(f, S)
<1>1. Integral(f, S) /\ IsFiniteSet(S \ {x})
  BY FS_Subset DEF Integral
<1>2. SumFunctionOnSet(f, S) = f[x] + SumFunctionOnSet(f, S \ {x})
  BY <1>1, SumWith
<1>3. SumFunctionOnSet(f, S \ {x}) \in Nat
  BY <1>1, SumNotNegative
<1> QED
  BY <1>2, <1>3

------------------------------------------------------------------------------
(* Sums of the amounts of a set of rows *)

AmountsOf(S) == MapThenSumSet(LAMBDA e : e.amount, S)

LEMMA AmountsAreSum ==
  ASSUME NEW S
  PROVE  AmountsOf(S) = SumFunctionOnSet([e \in S |-> e.amount], S)
<1>1. MapThenSumSet(LAMBDA e : e.amount, S) = (CHOOSE g : Adds(g, [e \in S |-> e.amount], S))[S]
  BY DEF MapThenSumSet, MapThenFoldSet, Adds, Added
<1> QED
  BY <1>1, SumIsFold DEF AmountsOf

THEOREM AmountsAreInt ==
  ASSUME NEW S, IsFiniteSet(S), \A e \in S : e.amount \in Int
  PROVE  AmountsOf(S) \in Int
BY AmountsAreSum, SumIsInt DEF Integral

THEOREM AmountsJoined ==
  ASSUME NEW S, IsFiniteSet(S), NEW x, x \notin S, \A e \in S \cup {x} : e.amount \in Int
  PROVE  AmountsOf(S \cup {x}) = x.amount + AmountsOf(S)
<1> DEFINE f == [e \in S \cup {x} |-> e.amount]
           h == [e \in S |-> e.amount]
<1>1. Integral(f, S \cup {x}) /\ Integral(f, S) /\ \A e \in S : f[e] = h[e]
  BY DEF Integral
<1>2. f[x] = x.amount
  OBVIOUS
<1> HIDE DEF f, h
<1>3. SumFunctionOnSet(f, S \cup {x}) = f[x] + SumFunctionOnSet(f, S)
  BY <1>1, SumJoined
<1>4. SumFunctionOnSet(f, S) = SumFunctionOnSet(h, S)
  BY <1>1, SumSame
<1> QED
  BY <1>2, <1>3, <1>4, AmountsAreSum DEF f, h

THEOREM NoAmounts == AmountsOf({}) = 0
BY AmountsAreSum, SumOfNone
====
