-------------------------------- MODULE Sums --------------------------------
(***************************************************************************)
(* The sum of a function over a finite set, as the community modules fold  *)
(* it, and the laws of addition it obeys.                                  *)
(*                                                                         *)
(* A fold recurses over the subsets of a set.  What it comes to is proved  *)
(* here without an induction principle: of the subsets that would be       *)
(* counterexamples a smallest one is taken, which the strict order of the  *)
(* finite sets, being well founded, provides.                              *)
(***************************************************************************)
EXTENDS Integers, FiniteSets, FiniteSetsExt, FiniteSetTheorems, TLAPS

Sum(g, S) == MapThenSumSet(LAMBDA x : g[x], S)

(* The element a fold takes first, and the equation the fold solves.       *)
First(s) == CHOOSE x \in s : TRUE

Recursion(h, g, S) ==
  h = [s \in SUBSET S |->
         IF s = {} THEN 0 ELSE g[First(s)] + h[s \ {First(s)}]]

LEMMA SumUnfolds ==
  ASSUME NEW g, NEW S
  PROVE  Sum(g, S) = (CHOOSE h : Recursion(h, g, S))[S]
BY DEF Sum, MapThenSumSet, MapThenFoldSet, Recursion, First

(* Among some subsets of a finite set there is a smallest.                 *)
LEMMA SmallestSubset ==
  ASSUME NEW S, IsFiniteSet(S), NEW T \in SUBSET (SUBSET S), T # {}
  PROVE  \E U \in T : \A V \in T : ~ (V \subseteq U /\ V # U)
<1>1. IsWellFoundedOn(StrictSubsetOrdering(S), FiniteSubsetsOf(S))
  BY FS_StrictSubsetOrderingWellFounded
<1>2. T \subseteq FiniteSubsetsOf(S)
  BY FS_FiniteSubsetsOfFinite
<1>3. PICK U \in T : \A V \in T : <<V, U>> \notin StrictSubsetOrdering(S)
  BY <1>1, <1>2, WFMin
<1>4. QED
  BY <1>3 DEF StrictSubsetOrdering

LEMMA FirstIsIn ==
  ASSUME NEW s, s # {}
  PROVE  First(s) \in s
BY DEF First

(* Two solutions agree wherever both are defined.                          *)
LEMMA RecursionUnique ==
  ASSUME NEW g, NEW S, NEW T, NEW h, NEW k, Recursion(h, g, S), Recursion(k, g, T),
         NEW u \in SUBSET S, u \subseteq T, IsFiniteSet(u)
  PROVE  h[u] = k[u]
<1> DEFINE Bad == {v \in SUBSET u : h[v] # k[v]}
<1>1. SUFFICES ASSUME Bad # {} PROVE FALSE
  OBVIOUS
<1>2. PICK v \in Bad : \A w \in Bad : ~ (w \subseteq v /\ w # v)
  <2>1. Bad \in SUBSET (SUBSET u)
    OBVIOUS
  <2> HIDE DEF Bad
  <2>2. QED
    BY <1>1, <2>1, SmallestSubset
<1>3. v \in SUBSET S /\ v \in SUBSET T
  OBVIOUS
<1>4. v # {}
  BY <1>3 DEF Recursion
<1> DEFINE w == v \ {First(v)}
<1>5. w \subseteq v /\ w # v /\ w \in SUBSET u
  BY <1>4, FirstIsIn
<1>6. h[w] = k[w]
  BY <1>2, <1>5
<1>7. h[v] = g[First(v)] + h[w] /\ k[v] = g[First(v)] + k[w]
  BY <1>3, <1>4 DEF Recursion
<1>8. QED
  BY <1>6, <1>7

(* The fold of a finite set is defined.                                    *)
LEMMA RecursionExists ==
  ASSUME NEW g, NEW S, IsFiniteSet(S)
  PROVE  \E h : Recursion(h, g, S)
<1> DEFINE Bad == {v \in SUBSET S : ~ \E h : Recursion(h, g, v)}
<1>1. SUFFICES ASSUME Bad # {} PROVE FALSE
  OBVIOUS
<1>2. PICK v \in Bad : \A w \in Bad : ~ (w \subseteq v /\ w # v)
  <2>1. Bad \in SUBSET (SUBSET S)
    OBVIOUS
  <2> HIDE DEF Bad
  <2>2. QED
    BY <1>1, <2>1, SmallestSubset
<1> DEFINE val(w) == (CHOOSE h : Recursion(h, g, w))[w]
<1>3. ASSUME NEW w, w \subseteq v, w # v
      PROVE  val(w) = IF w = {} THEN 0
                      ELSE g[First(w)] + val(w \ {First(w)})
  <2>1. \A x : x \subseteq v /\ x # v =>
          Recursion(CHOOSE h : Recursion(h, g, x), g, x)
    BY <1>2
  <2> DEFINE h == CHOOSE h : Recursion(h, g, w)
  <2>2. Recursion(h, g, w)
    BY <1>3, <2>1
  <2> DEFINE x == w \ {First(w)}
             k == CHOOSE k : Recursion(k, g, x)
  <2>3. Recursion(k, g, x) /\ x \subseteq w
    BY <1>3, <2>1
  <2>4. IsFiniteSet(x)
    BY <1>3, <2>3, FS_Subset
  <2> HIDE DEF h, k
  <2>5. h[x] = k[x]
    BY <2>2, <2>3, <2>4, RecursionUnique
  <2>6. h[w] = IF w = {} THEN 0 ELSE g[First(w)] + h[x]
    BY <2>2 DEF Recursion
  <2>7. QED
    BY <2>5, <2>6 DEF h, k
<1> DEFINE full == [w \in SUBSET v |->
                      IF w # v THEN val(w)
                      ELSE IF v = {} THEN 0
                      ELSE g[First(v)] + val(v \ {First(v)})]
<1> HIDE DEF val
<1>4. \A w \in SUBSET v : w # {} =>
        w \ {First(w)} \in SUBSET v /\ w \ {First(w)} # v
  BY FirstIsIn
<1>5. Recursion(full, g, v)
  BY <1>3, <1>4 DEF Recursion
<1>6. QED
  BY <1>5

LEMMA RecursionHolds ==
  ASSUME NEW g, NEW S, IsFiniteSet(S)
  PROVE  Recursion(CHOOSE h : Recursion(h, g, S), g, S)
BY RecursionExists

(* Whatever solves the recursion has the sum for its value at the set.     *)
LEMMA SumOfRecursion ==
  ASSUME NEW g, NEW S, IsFiniteSet(S), NEW h, Recursion(h, g, S)
  PROVE  h[S] = Sum(g, S)
<1> DEFINE k == CHOOSE k : Recursion(k, g, S)
<1>1. Recursion(k, g, S)
  BY RecursionHolds
<1> HIDE DEF k
<1>2. h[S] = k[S]
  BY <1>1, RecursionUnique
<1>3. QED
  BY <1>2, SumUnfolds DEF k

-----------------------------------------------------------------------------
(* A sum is empty, or its first element and the sum of the others.         *)
LEMMA SumEmpty ==
  ASSUME NEW g
  PROVE  Sum(g, {}) = 0
<1>1. IsFiniteSet({})
  BY FS_EmptySet
<1>2. Recursion(CHOOSE h : Recursion(h, g, {}), g, {})
  BY <1>1, RecursionHolds
<1> DEFINE h == CHOOSE h : Recursion(h, g, {})
<1> HIDE DEF h
<1>3. Recursion(h, g, {}) => h[{}] = 0
  BY DEF Recursion
<1>4. QED
  BY <1>2, <1>3, SumUnfolds DEF h

LEMMA SumFirst ==
  ASSUME NEW g, NEW S, IsFiniteSet(S), S # {}
  PROVE  Sum(g, S) = g[First(S)] + Sum(g, S \ {First(S)})
<1> DEFINE T == S \ {First(S)}
           h == CHOOSE h : Recursion(h, g, S)
           k == CHOOSE k : Recursion(k, g, T)
<1>1. T \in SUBSET S /\ IsFiniteSet(T)
  BY FS_Subset
<1>2. Recursion(h, g, S) /\ Recursion(k, g, T)
  BY <1>1, RecursionHolds
<1> HIDE DEF h, k
<1>3. h[T] = k[T]
  BY <1>1, <1>2, RecursionUnique
<1>4. h[S] = g[First(S)] + h[T]
  BY <1>2 DEF Recursion
<1>5. Sum(g, S) = h[S] /\ Sum(g, T) = k[T]
  BY SumUnfolds DEF h, k
<1>6. QED
  BY <1>3, <1>4, <1>5

LEMMA SumInt ==
  ASSUME NEW g, NEW S, IsFiniteSet(S), \A x \in S : g[x] \in Int
  PROVE  Sum(g, S) \in Int
<1> DEFINE Bad == {v \in SUBSET S : Sum(g, v) \notin Int}
<1>1. SUFFICES ASSUME Bad # {} PROVE FALSE
  OBVIOUS
<1>2. PICK v \in Bad : \A w \in Bad : ~ (w \subseteq v /\ w # v)
  <2>1. Bad \in SUBSET (SUBSET S)
    OBVIOUS
  <2> HIDE DEF Bad
  <2>2. QED
    BY <1>1, <2>1, SmallestSubset
<1>3. v # {}
  BY SumEmpty
<1> DEFINE w == v \ {First(v)}
<1>4. First(v) \in S /\ w \subseteq v /\ w # v /\ w \in SUBSET S
  BY <1>3, FirstIsIn
<1>5. Sum(g, w) \in Int
  BY <1>2, <1>4
<1>6. Sum(g, v) = g[First(v)] + Sum(g, w)
  BY <1>3, SumFirst, FS_Subset
<1>7. QED
  BY <1>4, <1>5, <1>6

(* Any element may be taken first.                                         *)
LEMMA SumTakenOut ==
  ASSUME NEW g, NEW S, IsFiniteSet(S), \A x \in S : g[x] \in Int,
         NEW e \in S
  PROVE  Sum(g, S) = g[e] + Sum(g, S \ {e})
<1> DEFINE Bad == {v \in SUBSET S :
                     \E x \in v : Sum(g, v) # g[x] + Sum(g, v \ {x})}
<1>1. SUFFICES ASSUME Bad # {} PROVE FALSE
  OBVIOUS
<1>2. PICK v \in Bad : \A w \in Bad : ~ (w \subseteq v /\ w # v)
  <2>1. Bad \in SUBSET (SUBSET S)
    OBVIOUS
  <2> HIDE DEF Bad
  <2>2. QED
    BY <1>1, <2>1, SmallestSubset
<1>3. PICK x \in v : Sum(g, v) # g[x] + Sum(g, v \ {x})
  OBVIOUS
<1> DEFINE y == First(v)
<1>4. IsFiniteSet(v) /\ y \in v /\ x \in S /\ y \in S
  BY FS_Subset, FirstIsIn
<1>5. Sum(g, v) = g[y] + Sum(g, v \ {y})
  BY <1>4, SumFirst
<1>6. x # y
  BY <1>3, <1>5
<1> HIDE DEF y
<1>7. Sum(g, v \ {y}) = g[x] + Sum(g, (v \ {y}) \ {x})
  <2>1. v \ {y} \notin Bad
    BY <1>2, <1>4
  <2>2. QED
    BY <1>4, <1>6, <2>1
<1>8. Sum(g, v \ {x}) = g[y] + Sum(g, (v \ {x}) \ {y})
  <2>1. v \ {x} \notin Bad
    BY <1>2, <1>4
  <2>2. QED
    BY <1>4, <1>6, <2>1
<1>9. (v \ {y}) \ {x} = (v \ {x}) \ {y}
  OBVIOUS
<1> DEFINE rest == Sum(g, (v \ {x}) \ {y})
<1>10. rest \in Int /\ g[x] \in Int /\ g[y] \in Int
  BY <1>4, SumInt, FS_Subset
<1> HIDE DEF rest
<1>11. Sum(g, v) = g[x] + Sum(g, v \ {x})
  <2>1. Sum(g, v \ {y}) = g[x] + rest /\ Sum(g, v \ {x}) = g[y] + rest
    BY <1>7, <1>8, <1>9 DEF rest
  <2>2. QED
    BY <1>5, <1>10, <2>1
<1>12. QED
  BY <1>3, <1>11

(* Sums over one element and over two.                                     *)
LEMMA SumOne ==
  ASSUME NEW g, NEW e, g[e] \in Int
  PROVE  IsFiniteSet({e}) /\ Sum(g, {e}) = g[e]
<1>1. IsFiniteSet({e}) /\ {e} \ {e} = {}
  BY FS_Singleton
<1>2. Sum(g, {e}) = g[e] + Sum(g, {})
  BY <1>1, SumTakenOut
<1>3. QED
  BY <1>1, <1>2, SumEmpty

LEMMA SumTwo ==
  ASSUME NEW g, NEW d, NEW e, d # e, g[d] \in Int, g[e] \in Int
  PROVE  IsFiniteSet({d, e}) /\ Sum(g, {d, e}) = g[d] + g[e]
<1>1. {d, e} = {e} \cup {d} /\ {d, e} \ {d} = {e}
  OBVIOUS
<1>2. IsFiniteSet({d, e})
  <2>1. IsFiniteSet({e} \cup {d})
    BY FS_Singleton, FS_AddElement
  <2>2. QED
    BY <1>1, <2>1
<1>3. Sum(g, {d, e}) = g[d] + Sum(g, {d, e} \ {d})
  BY <1>2, SumTakenOut
<1>4. QED
  BY <1>1, <1>2, <1>3, SumOne

(* A sum with one element more.                                            *)
LEMMA SumAdded ==
  ASSUME NEW g, NEW S, IsFiniteSet(S), \A x \in S : g[x] \in Int,
         NEW e, e \notin S, g[e] \in Int
  PROVE  IsFiniteSet(S \cup {e}) /\ Sum(g, S \cup {e}) = Sum(g, S) + g[e]
<1>1. IsFiniteSet(S \cup {e}) /\ (S \cup {e}) \ {e} = S
  BY FS_AddElement
<1>2. Sum(g, S \cup {e}) = g[e] + Sum(g, S)
  <2>1. e \in S \cup {e} /\ \A x \in S \cup {e} : g[x] \in Int
    OBVIOUS
  <2> DEFINE T == S \cup {e}
  <2>2. e \in T /\ IsFiniteSet(T) /\ \A x \in T : g[x] \in Int
    BY <1>1, <2>1
  <2> HIDE DEF T
  <2>3. Sum(g, T) = g[e] + Sum(g, T \ {e})
    BY <2>2, SumTakenOut
  <2>4. T \ {e} = S
    BY <1>1 DEF T
  <2> QED BY <2>3, <2>4 DEF T
<1>3. Sum(g, S) \in Int
  BY SumInt
<1>4. QED
  BY <1>1, <1>2, <1>3

(* Larger summands make a larger sum.                                      *)
LEMMA SumMonotone ==
  ASSUME NEW f, NEW g,
         NEW S, IsFiniteSet(S),
         \A x \in S : f[x] \in Int /\ g[x] \in Int /\ f[x] <= g[x]
  PROVE  Sum(f, S) <= Sum(g, S)
<1> DEFINE Bad == {v \in SUBSET S : ~ (Sum(f, v) <= Sum(g, v))}
<1>1. SUFFICES ASSUME Bad # {} PROVE FALSE
  OBVIOUS
<1>2. PICK v \in Bad : \A w \in Bad : ~ (w \subseteq v /\ w # v)
  <2>1. Bad \in SUBSET (SUBSET S)
    OBVIOUS
  <2> HIDE DEF Bad
  <2>2. QED
    BY <1>1, <2>1, SmallestSubset
<1>3. v # {}
  BY SumEmpty
<1> DEFINE x == First(v)
           w == v \ {x}
<1>4. IsFiniteSet(v) /\ x \in v /\ x \in S /\ w \in SUBSET S /\ IsFiniteSet(w)
  BY <1>3, FirstIsIn, FS_Subset
<1>5. Sum(f, w) <= Sum(g, w)
  BY <1>2, <1>4
<1>6. Sum(f, v) = f[x] + Sum(f, w) /\ Sum(g, v) = g[x] + Sum(g, w)
  BY <1>3, <1>4, SumFirst
<1>7. Sum(f, w) \in Int /\ Sum(g, w) \in Int
  BY <1>4, SumInt
<1>8. f[x] \in Int /\ g[x] \in Int /\ f[x] <= g[x]
  BY <1>4
<1> HIDE DEF x, w
<1>9. Sum(f, v) <= Sum(g, v)
  BY <1>5, <1>6, <1>7, <1>8
<1>10. QED
  BY <1>2, <1>9

(* The sums of two functions add up to the sum of both.                    *)
LEMMA SumPlus ==
  ASSUME NEW f, NEW g, NEW h,
         NEW S, IsFiniteSet(S),
         \A x \in S : /\ f[x] \in Int /\ g[x] \in Int
                      /\ h[x] = f[x] + g[x]
  PROVE  Sum(h, S) = Sum(f, S) + Sum(g, S)
<1> DEFINE Bad == {v \in SUBSET S : ~ (Sum(h, v) = Sum(f, v) + Sum(g, v))}
<1>1. SUFFICES ASSUME Bad # {} PROVE FALSE
  OBVIOUS
<1>2. PICK v \in Bad : \A w \in Bad : ~ (w \subseteq v /\ w # v)
  <2>1. Bad \in SUBSET (SUBSET S)
    OBVIOUS
  <2> HIDE DEF Bad
  <2>2. QED
    BY <1>1, <2>1, SmallestSubset
<1>3. v # {}
  <2>1. Sum(f, {}) = 0 /\ Sum(g, {}) = 0 /\ Sum(h, {}) = 0
    BY SumEmpty
  <2>2. Sum(h, {}) = Sum(f, {}) + Sum(g, {})
    BY <2>1
  <2>3. QED
    BY <1>2, <2>2
<1> DEFINE x == First(v)
           w == v \ {x}
<1>4. IsFiniteSet(v) /\ x \in v /\ x \in S /\ w \in SUBSET S /\ IsFiniteSet(w)
  BY <1>3, FirstIsIn, FS_Subset
<1>5. Sum(h, w) = Sum(f, w) + Sum(g, w)
  BY <1>2, <1>4
<1>6. /\ Sum(f, v) = f[x] + Sum(f, w) /\ Sum(g, v) = g[x] + Sum(g, w)
      /\ Sum(h, v) = h[x] + Sum(h, w)
  BY <1>3, <1>4, SumFirst
<1>7. Sum(f, w) \in Int /\ Sum(g, w) \in Int
  BY <1>4, SumInt
<1>8. f[x] \in Int /\ g[x] \in Int /\ h[x] = f[x] + g[x]
  BY <1>4
<1> HIDE DEF x, w
<1>9. Sum(h, v) = Sum(f, v) + Sum(g, v)
  BY <1>5, <1>6, <1>7, <1>8
<1>10. QED
  BY <1>2, <1>9

(* A common factor can be taken out.                                       *)
LEMMA SumScale ==
  ASSUME NEW f, NEW g, NEW k \in Int,
         NEW S, IsFiniteSet(S),
         \A x \in S : f[x] \in Int /\ g[x] = k * f[x]
  PROVE  Sum(g, S) = k * Sum(f, S)
<1> DEFINE Bad == {v \in SUBSET S : ~ (Sum(g, v) = k * Sum(f, v))}
<1>1. SUFFICES ASSUME Bad # {} PROVE FALSE
  OBVIOUS
<1>2. PICK v \in Bad : \A w \in Bad : ~ (w \subseteq v /\ w # v)
  <2>1. Bad \in SUBSET (SUBSET S)
    OBVIOUS
  <2> HIDE DEF Bad
  <2>2. QED
    BY <1>1, <2>1, SmallestSubset
<1>3. v # {}
  <2>1. Sum(f, {}) = 0 /\ Sum(g, {}) = 0 /\ k * 0 = 0
    BY SumEmpty
  <2>2. Sum(g, {}) = k * Sum(f, {})
    BY <2>1
  <2>3. QED
    BY <1>2, <2>2
<1> DEFINE x == First(v)
           w == v \ {x}
<1>4. IsFiniteSet(v) /\ x \in v /\ x \in S /\ w \in SUBSET S /\ IsFiniteSet(w)
  BY <1>3, FirstIsIn, FS_Subset
<1>5. Sum(g, w) = k * Sum(f, w)
  BY <1>2, <1>4
<1>6. Sum(f, v) = f[x] + Sum(f, w) /\ Sum(g, v) = g[x] + Sum(g, w)
  BY <1>3, <1>4, SumFirst
<1>7. Sum(f, w) \in Int
  BY <1>4, SumInt
<1>8. f[x] \in Int /\ g[x] = k * f[x]
  BY <1>4
<1> HIDE DEF x, w
<1>9. \A a, b \in Int : k * (a + b) = k * a + k * b
  OBVIOUS
<1>10. Sum(g, v) = k * Sum(f, v)
  BY <1>5, <1>6, <1>7, <1>8, <1>9
<1>11. QED
  BY <1>2, <1>10

(* Functions that agree have one sum.                                      *)
LEMMA SumSame ==
  ASSUME NEW f, NEW g, NEW S, IsFiniteSet(S),
         \A x \in S : f[x] \in Int /\ f[x] = g[x]
  PROVE  Sum(f, S) = Sum(g, S)
<1>1. Sum(f, S) <= Sum(g, S) /\ Sum(g, S) <= Sum(f, S)
  BY SumMonotone
<1>2. Sum(f, S) \in Int /\ Sum(g, S) \in Int
  BY SumInt
<1>3. QED
  BY <1>1, <1>2

(* A sum of naturals is one, and no smaller over a larger set.             *)
LEMMA SumGrows ==
  ASSUME NEW g, NEW S, IsFiniteSet(S), \A x \in S : g[x] \in Nat,
         NEW T \in SUBSET S
  PROVE  Sum(g, T) <= Sum(g, S)
<1> DEFINE Bad == {v \in SUBSET S : T \subseteq v /\ ~ Sum(g, T) <= Sum(g, v)}
<1>1. SUFFICES ASSUME Bad # {} PROVE FALSE
  OBVIOUS
<1>2. PICK v \in Bad : \A w \in Bad : ~ (w \subseteq v /\ w # v)
  <2>1. Bad \in SUBSET (SUBSET S)
    OBVIOUS
  <2> HIDE DEF Bad
  <2>2. QED
    BY <1>1, <2>1, SmallestSubset
<1>3. /\ IsFiniteSet(T) /\ IsFiniteSet(v)
      /\ Sum(g, T) \in Int /\ Sum(g, v) \in Int
  BY SumInt, FS_Subset
<1>4. PICK x \in v : x \notin T
  BY <1>3
<1>5. Sum(g, v) = g[x] + Sum(g, v \ {x})
  BY <1>3, SumTakenOut
<1>6. Sum(g, T) <= Sum(g, v \ {x})
  BY <1>2, <1>4
<1>7. Sum(g, v \ {x}) \in Int /\ g[x] \in Nat
  BY SumInt, FS_Subset
<1>8. QED
  BY <1>3, <1>5, <1>6, <1>7

LEMMA SumNat ==
  ASSUME NEW g, NEW S, IsFiniteSet(S), \A x \in S : g[x] \in Nat
  PROVE  Sum(g, S) \in Nat
<1>1. Sum(g, S) \in Int /\ Sum(g, {}) <= Sum(g, S)
  BY SumInt, SumGrows
<1>2. QED
  BY <1>1, SumEmpty
=============================================================================
