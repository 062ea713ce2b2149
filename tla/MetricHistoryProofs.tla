------------------------- MODULE MetricHistoryProofs -------------------------
(***************************************************************************)
(* Theorems about MetricHistory and the arithmetic of Predictor, for every *)
(* number of days and all averages.  Sums are folds and a filter is a      *)
(* recursive function: their equations come first, by induction over the   *)
(* prefixes of a sequence, and the properties follow from closed forms.    *)
(***************************************************************************)
EXTENDS MetricHistory, FiniteSetTheorems, SequenceTheorems, WellFoundedInduction, TLAPS

-----------------------------------------------------------------------------
\* Induction, for sets of naturals in place of formulas.
LEMMA NaturalSetInduction ==
    ASSUME NEW T \in SUBSET Nat, 0 \in T, \A n \in T : n + 1 \in T
    PROVE  T = Nat
<1> DEFINE less == {ss \in Nat \X Nat : ss[1] < ss[2]}
           Rest == Nat \ T
<1> SUFFICES ASSUME Rest # {} PROVE FALSE
  OBVIOUS
<1>1. IsWellFoundedOn(less, Nat)
  BY NatLessThanWellFounded DEF OpToRel
<1>2. PICK x \in Rest : \A y \in Rest : ~ (<<y, x>> \in less)
  <2> HIDE DEF less, Rest
  <2>1. Rest \subseteq Nat
    BY DEF Rest
  <2> QED
    BY <1>1, <2>1, WFMin
<1>3. x \in Nat /\ x # 0 /\ x \notin T
  BY <1>2
<1>4. x - 1 \in Nat /\ x - 1 < x /\ (x - 1) + 1 = x
  BY <1>3
<1>5. x - 1 \in T
  BY <1>2, <1>3, <1>4
<1> QED
  BY <1>3, <1>4, <1>5

-----------------------------------------------------------------------------
\* The equation behind SumFunctionOnSet: g holds the sum of f over each subset of S.
Picked(s) == CHOOSE x \in s : TRUE
HoldsSums(g, f, S) ==
    g = [s \in SUBSET S |-> IF s = {} THEN 0 ELSE f[Picked(s)] + g[s \ {Picked(s)}]]

LEMMA SumUnfolded ==
    ASSUME NEW f, NEW S
    PROVE  SumFunctionOnSet(f, S) = (CHOOSE g : HoldsSums(g, f, S))[S]
BY DEF SumFunctionOnSet, FoldFunctionOnSet, MapThenFoldSet, HoldsSums, Picked

\* A finite set has such a function.

LEMMA SumExists ==
    ASSUME NEW S, IsFiniteSet(S), NEW f, \A x \in S : f[x] \in Int
    PROVE  \E g \in [SUBSET S -> Int] : HoldsSums(g, f, S)
<1> DEFINE small(k) == {s \in SUBSET S : Cardinality(s) <= k}
           next(g, s) == IF s = {} THEN 0 ELSE f[Picked(s)] + g[s \ {Picked(s)}]
           Solved == {k \in Nat : \E g \in [small(k) -> Int] :
                          \A s \in small(k) : g[s] = next(g, s)}
<1>1. \A s \in SUBSET S : s # {} => Picked(s) \in s
  BY DEF Picked
<1>2. \A s \in SUBSET S : IsFiniteSet(s) /\ Cardinality(s) \in Nat
  BY FS_Subset, FS_CardinalityType
<1>3. ASSUME NEW k \in Nat, NEW s \in small(k + 1), s # {}
      PROVE  s \ {Picked(s)} \in small(k)
  <2>1. Picked(s) \in s /\ IsFiniteSet(s) /\ Cardinality(s) \in Nat
    BY <1>1, <1>2, <1>3
  <2>2. Cardinality(s \ {Picked(s)}) = Cardinality(s) - 1
    BY <2>1, FS_RemoveElement
  <2> QED
    BY <1>3, <2>1, <2>2
<1>4. \A s \in small(0) : s = {}
  BY <1>2, FS_EmptySet
<1>5. 0 \in Solved
  <2> DEFINE g == [s \in small(0) |-> 0]
  <2>1. g \in [small(0) -> Int] /\ \A s \in small(0) : g[s] = next(g, s)
    BY <1>4
  <2> QED
    BY <2>1
<1>6. ASSUME NEW k \in Solved PROVE k + 1 \in Solved
  <2>1. PICK g \in [small(k) -> Int] : \A s \in small(k) : g[s] = next(g, s)
    OBVIOUS
  <2> DEFINE h == [s \in small(k + 1) |-> next(g, s)]
  <2>2. \A s \in small(k + 1) : s # {} => s \ {Picked(s)} \in small(k)
    BY <1>3
  <2>3. \A s \in small(k) : s \in small(k + 1)
    BY <1>2
  <2>4. \A s \in small(k + 1) : s # {} => g[s \ {Picked(s)}] = h[s \ {Picked(s)}]
    BY <2>1, <2>2, <2>3
  <2>5. \A s \in small(k + 1) : next(g, s) \in Int
    BY <1>1, <2>1, <2>2
  <2>6. h \in [small(k + 1) -> Int] /\ \A s \in small(k + 1) : h[s] = next(h, s)
    BY <2>4, <2>5
  <2> HIDE DEF h, next, small
  <2> QED
    BY <2>6
<1>7. Solved = Nat
  <2> HIDE DEF Solved
  <2>1. Solved \in SUBSET Nat
    BY DEF Solved
  <2> QED
    BY <1>5, <1>6, <2>1, NaturalSetInduction
<1>8. small(Cardinality(S)) = SUBSET S
  BY FS_Subset
<1>9. PICK g \in [SUBSET S -> Int] : \A s \in SUBSET S : g[s] = next(g, s)
  <2>1. Cardinality(S) \in Solved
    BY <1>2, <1>7
  <2> HIDE DEF next, small
  <2> QED
    BY <1>8, <2>1
<1>10. g = [s \in SUBSET S |-> next(g, s)]
  BY <1>9
<1> QED
  BY <1>10 DEF HoldsSums

\* Two functions that satisfy the equation agree, on the subsets of the smaller set.
LEMMA SumUnique ==
    ASSUME NEW S, IsFiniteSet(S), NEW T \in SUBSET S, NEW f, NEW g, NEW h,
           HoldsSums(g, f, S), HoldsSums(h, f, T)
    PROVE  g[T] = h[T]
<1> DEFINE Agreed == {k \in Nat : \A s \in SUBSET T : Cardinality(s) <= k => g[s] = h[s]}
<1>1. \A s \in SUBSET T : s # {} => Picked(s) \in s
  BY DEF Picked
<1>2. \A s \in SUBSET T : IsFiniteSet(s) /\ Cardinality(s) \in Nat
  BY FS_Subset, FS_CardinalityType
<1>3. \A s \in SUBSET T :
         /\ g[s] = IF s = {} THEN 0 ELSE f[Picked(s)] + g[s \ {Picked(s)}]
         /\ h[s] = IF s = {} THEN 0 ELSE f[Picked(s)] + h[s \ {Picked(s)}]
  BY DEF HoldsSums
<1>4. \A s \in SUBSET T : s # {} => Cardinality(s \ {Picked(s)}) = Cardinality(s) - 1
  BY <1>1, <1>2, FS_RemoveElement
<1>5. 0 \in Agreed
  <2>1. \A s \in SUBSET T : Cardinality(s) <= 0 => s = {}
    BY <1>2, FS_EmptySet
  <2> QED
    BY <1>3, <2>1
<1>6. ASSUME NEW k \in Agreed PROVE k + 1 \in Agreed
  <2> SUFFICES ASSUME NEW s \in SUBSET T, Cardinality(s) <= k + 1, s # {}
               PROVE  g[s] = h[s]
    BY <1>3
  <2>1. s \ {Picked(s)} \in SUBSET T /\ Cardinality(s \ {Picked(s)}) <= k
    BY <1>2, <1>4
  <2> QED
    BY <1>3, <2>1
<1>7. Cardinality(T) \in Agreed
  <2> HIDE DEF Agreed
  <2>1. Agreed \in SUBSET Nat
    BY DEF Agreed
  <2> QED
    BY <1>2, <1>5, <1>6, <2>1, NaturalSetInduction
<1> QED
  BY <1>2, <1>7

\* The sums over the subsets of a finite set are integers, 0 over the empty one,
\* and one element more than the sum over the rest.
LEMMA SumEquation ==
    ASSUME NEW S, IsFiniteSet(S), NEW f, \A x \in S : f[x] \in Int
    PROVE  \A T \in SUBSET S :
              /\ SumFunctionOnSet(f, T) \in Int
              /\ T = {} => SumFunctionOnSet(f, T) = 0
              /\ T # {} => \E x \in T :
                    SumFunctionOnSet(f, T) = f[x] + SumFunctionOnSet(f, T \ {x})
<1>1. PICK g \in [SUBSET S -> Int] : HoldsSums(g, f, S)
  BY SumExists
<1>2. ASSUME NEW T \in SUBSET S PROVE SumFunctionOnSet(f, T) = g[T]
  <2> DEFINE h == CHOOSE k : HoldsSums(k, f, T)
  <2>1. SumFunctionOnSet(f, T) = h[T]
    BY SumUnfolded
  <2>2. IsFiniteSet(T) /\ \A x \in T : f[x] \in Int
    BY FS_Subset
  <2>3. \E k : HoldsSums(k, f, T)
    BY <2>2, SumExists
  <2>4. HoldsSums(h, f, T)
    BY <2>3
  <2> HIDE DEF h
  <2>5. g[T] = h[T]
    BY <1>1, <2>4, SumUnique
  <2> QED
    BY <2>1, <2>5
<1> SUFFICES ASSUME NEW T \in SUBSET S
             PROVE  /\ g[T] \in Int
                    /\ T = {} => g[T] = 0
                    /\ T # {} => \E x \in T : g[T] = f[x] + g[T \ {x}]
  BY <1>2
<1>3. /\ g[T] \in Int
      /\ g[T] = IF T = {} THEN 0 ELSE f[Picked(T)] + g[T \ {Picked(T)}]
  BY <1>1 DEF HoldsSums
<1>4. T # {} => Picked(T) \in T
  BY DEF Picked
<1> QED
  BY <1>3, <1>4

\* Any element may be taken out of a sum.
LEMMA SumRemoved ==
    ASSUME NEW S, IsFiniteSet(S), NEW f, \A y \in S : f[y] \in Int, NEW x \in S
    PROVE  SumFunctionOnSet(f, S) = f[x] + SumFunctionOnSet(f, S \ {x})
<1> DEFINE sum(T) == SumFunctionOnSet(f, T)
           Split == {k \in Nat : \A T \in SUBSET S : Cardinality(T) = k =>
                        \A y \in T : sum(T) = f[y] + sum(T \ {y})}
<1>1. \A T \in SUBSET S : IsFiniteSet(T) /\ Cardinality(T) \in Nat
  BY FS_Subset, FS_CardinalityType
<1>2. \A T \in SUBSET S : \A y \in T : Cardinality(T \ {y}) = Cardinality(T) - 1
  BY <1>1, FS_RemoveElement
<1>3. \A T \in SUBSET S :
         sum(T) \in Int /\ (T # {} => \E y \in T : sum(T) = f[y] + sum(T \ {y}))
  BY SumEquation
<1> HIDE DEF sum
<1>4. 0 \in Split
  <2>1. \A T \in SUBSET S : Cardinality(T) = 0 => T = {}
    BY <1>1, FS_EmptySet
  <2> QED
    BY <2>1
<1>5. ASSUME NEW k \in Split PROVE k + 1 \in Split
  <2> SUFFICES ASSUME NEW T \in SUBSET S, Cardinality(T) = k + 1, NEW y \in T
               PROVE  sum(T) = f[y] + sum(T \ {y})
    OBVIOUS
  <2>1. PICK z \in T : sum(T) = f[z] + sum(T \ {z})
    BY <1>3
  <2>2. ASSUME y # z PROVE sum(T) = f[y] + sum(T \ {y})
    <3>1. /\ T \ {y} \in SUBSET S /\ Cardinality(T \ {y}) = k /\ z \in T \ {y}
          /\ T \ {z} \in SUBSET S /\ Cardinality(T \ {z}) = k /\ y \in T \ {z}
      BY <1>1, <1>2, <2>2
    <3>2. sum(T \ {y}) = f[z] + sum((T \ {y}) \ {z})
      BY <3>1
    <3>3. sum(T \ {z}) = f[y] + sum((T \ {z}) \ {y})
      BY <3>1
    <3>4. (T \ {y}) \ {z} = (T \ {z}) \ {y} /\ (T \ {z}) \ {y} \in SUBSET S
      OBVIOUS
    <3>5. sum((T \ {z}) \ {y}) \in Int /\ f[y] \in Int /\ f[z] \in Int
      BY <1>3, <3>4
    <3>6. sum((T \ {y}) \ {z}) = sum((T \ {z}) \ {y})
      BY <3>4
    <3> QED
      BY <2>1, <3>2, <3>3, <3>5, <3>6
  <2> QED
    BY <2>1, <2>2
<1>6. Cardinality(S) \in Split
  <2> HIDE DEF Split
  <2>1. Split \in SUBSET Nat
    BY DEF Split
  <2> QED
    BY <1>1, <1>4, <1>5, <2>1, NaturalSetInduction
<1>7. \A y \in S : sum(S) = f[y] + sum(S \ {y})
  BY <1>6
<1> QED
  BY <1>7 DEF sum

-----------------------------------------------------------------------------
\* Along a sequence: induction over its prefixes, and the sums over them.
LEMMA PrefixInduction ==
    ASSUME NEW n \in Nat, NEW T, 0 \in T,
           \A k \in 0 .. (n - 1) : k \in T => k + 1 \in T
    PROVE  \A k \in 0 .. n : k \in T
<1> DEFINE Reached == {k \in Nat : k <= n => k \in T}
<1>1. 0 \in Reached
  OBVIOUS
<1>2. ASSUME NEW k \in Reached PROVE k + 1 \in Reached
  OBVIOUS
<1>3. Reached = Nat
  <2> HIDE DEF Reached
  <2>1. Reached \in SUBSET Nat
    BY DEF Reached
  <2> QED
    BY <1>1, <1>2, <2>1, NaturalSetInduction
<1>4. \A k \in Nat : k <= n => k \in T
  BY <1>3
<1> QED
  BY <1>4

LEMMA PrefixSums ==
    ASSUME NEW n \in Nat, NEW f, \A i \in 1 .. n : f[i] \in Int
    PROVE  /\ SumFunctionOnSet(f, 1 .. 0) = 0
           /\ \A k \in 0 .. n : SumFunctionOnSet(f, 1 .. k) \in Int
           /\ \A k \in 0 .. (n - 1) :
                 SumFunctionOnSet(f, 1 .. (k + 1)) = SumFunctionOnSet(f, 1 .. k) + f[k + 1]
<1>1. IsFiniteSet(1 .. n)
  BY FS_Interval
<1>2. \A T \in SUBSET (1 .. n) :
         SumFunctionOnSet(f, T) \in Int /\ (T = {} => SumFunctionOnSet(f, T) = 0)
  BY <1>1, SumEquation
<1>3. ASSUME NEW k \in 0 .. n
      PROVE  1 .. k \in SUBSET (1 .. n)
  OBVIOUS
<1>4. 1 .. 0 = {} /\ {} \in SUBSET (1 .. n)
  OBVIOUS
<1>5. ASSUME NEW k \in 0 .. (n - 1)
      PROVE  SumFunctionOnSet(f, 1 .. (k + 1)) = SumFunctionOnSet(f, 1 .. k) + f[k + 1]
  <2>1. IsFiniteSet(1 .. (k + 1)) /\ k + 1 \in 1 .. (k + 1)
    BY FS_Interval
  <2>2. \A i \in 1 .. (k + 1) : f[i] \in Int
    OBVIOUS
  <2>3. (1 .. (k + 1)) \ {k + 1} = 1 .. k
    OBVIOUS
  <2>4. SumFunctionOnSet(f, 1 .. (k + 1))
          = f[k + 1] + SumFunctionOnSet(f, (1 .. (k + 1)) \ {k + 1})
    BY <2>1, <2>2, SumRemoved
  <2>5. SumFunctionOnSet(f, 1 .. (k + 1)) = f[k + 1] + SumFunctionOnSet(f, 1 .. k)
    BY <2>3, <2>4
  <2>6. SumFunctionOnSet(f, 1 .. k) \in Int /\ f[k + 1] \in Int
    BY <1>2, <1>3
  <2> QED
    BY <2>5, <2>6
<1> QED
  BY <1>2, <1>3, <1>4, <1>5

-----------------------------------------------------------------------------
\* Sums of the days 1 .. k and of their squares, with a value v[i] on day i: the
\* closed form of the products that _linear_regression adds up, over a prefix.
Total(v, k) == SumFunctionOnSet(v, 1 .. k)
Weighted(v, k) == SumFunctionOnSet([i \in DOMAIN v |-> i * v[i]], 1 .. k)

LEMMA TotalSteps ==
    ASSUME NEW n \in Nat, NEW v \in [1 .. n -> Int]
    PROVE  /\ Total(v, 0) = 0 /\ Weighted(v, 0) = 0
           /\ \A k \in 0 .. n : Total(v, k) \in Int /\ Weighted(v, k) \in Int
           /\ \A k \in 0 .. (n - 1) :
                 /\ Total(v, k + 1) = Total(v, k) + v[k + 1]
                 /\ Weighted(v, k + 1) = Weighted(v, k) + (k + 1) * v[k + 1]
<1> DEFINE w == [i \in DOMAIN v |-> i * v[i]]
<1>1. \A i \in 1 .. n : v[i] \in Int /\ w[i] = i * v[i] /\ w[i] \in Int
  OBVIOUS
<1> HIDE DEF w
<1>2. /\ SumFunctionOnSet(v, 1 .. 0) = 0
      /\ \A k \in 0 .. n : SumFunctionOnSet(v, 1 .. k) \in Int
      /\ \A k \in 0 .. (n - 1) :
            SumFunctionOnSet(v, 1 .. (k + 1)) = SumFunctionOnSet(v, 1 .. k) + v[k + 1]
  BY <1>1, PrefixSums
<1>3. /\ SumFunctionOnSet(w, 1 .. 0) = 0
      /\ \A k \in 0 .. n : SumFunctionOnSet(w, 1 .. k) \in Int
      /\ \A k \in 0 .. (n - 1) :
            SumFunctionOnSet(w, 1 .. (k + 1)) = SumFunctionOnSet(w, 1 .. k) + w[k + 1]
  BY <1>1, PrefixSums
<1>4. \A k \in 0 .. (n - 1) : w[k + 1] = (k + 1) * v[k + 1]
  BY <1>1
<1> QED
  BY <1>2, <1>3, <1>4 DEF Total, Weighted, w

LEMMA ProductSums ==
    ASSUME NEW n \in Nat, NEW v \in [1 .. n -> Int], NEW t \in Int
    PROVE  LET p == [i \in 1 .. n |-> (2 * i - (n + 1)) * (n * v[i] - t)]
           IN  \A k \in 0 .. n :
                  SumFunctionOnSet(p, 1 .. k)
                     = 2 * n * Weighted(v, k) - n * (n + 1) * Total(v, k)
                         - t * (k * (k + 1)) + t * ((n + 1) * k)
<1> DEFINE p == [i \in 1 .. n |-> (2 * i - (n + 1)) * (n * v[i] - t)]
           form(k) == 2 * n * Weighted(v, k) - n * (n + 1) * Total(v, k)
                         - t * (k * (k + 1)) + t * ((n + 1) * k)
           Right == {k \in 0 .. n : SumFunctionOnSet(p, 1 .. k) = form(k)}
<1>1. \A i \in 1 .. n : p[i] = (2 * i - (n + 1)) * (n * v[i] - t) /\ p[i] \in Int
  OBVIOUS
<1> HIDE DEF p
<1>2. /\ SumFunctionOnSet(p, 1 .. 0) = 0
      /\ \A k \in 0 .. n : SumFunctionOnSet(p, 1 .. k) \in Int
      /\ \A k \in 0 .. (n - 1) :
            SumFunctionOnSet(p, 1 .. (k + 1)) = SumFunctionOnSet(p, 1 .. k) + p[k + 1]
  BY <1>1, PrefixSums
<1>3. 0 \in Right
  BY <1>2, TotalSteps
<1>4. ASSUME NEW k \in 0 .. (n - 1), k \in Right PROVE k + 1 \in Right
  <2> DEFINE a == Total(v, k)
             b == Weighted(v, k)
             u == v[k + 1]
  <2>1. a \in Int /\ b \in Int /\ u \in Int /\ k \in Int
    BY TotalSteps
  <2>2. Total(v, k + 1) = a + u /\ Weighted(v, k + 1) = b + (k + 1) * u
    BY TotalSteps
  <2>3. p[k + 1] = (2 * (k + 1) - (n + 1)) * (n * u - t)
    BY <1>1
  <2>4. SumFunctionOnSet(p, 1 .. (k + 1))
          = 2 * n * b - n * (n + 1) * a - t * (k * (k + 1)) + t * ((n + 1) * k)
              + (2 * (k + 1) - (n + 1)) * (n * u - t)
    BY <1>2, <1>4, <2>3
  <2> HIDE DEF a, b, u
  <2>5. 2 * n * b - n * (n + 1) * a - t * (k * (k + 1)) + t * ((n + 1) * k)
              + (2 * (k + 1) - (n + 1)) * (n * u - t)
          = 2 * n * (b + (k + 1) * u) - n * (n + 1) * (a + u)
              - t * ((k + 1) * ((k + 1) + 1)) + t * ((n + 1) * (k + 1))
    BY <2>1
  <2>6. SumFunctionOnSet(p, 1 .. (k + 1)) = form(k + 1)
    BY <2>2, <2>4, <2>5
  <2> QED
    BY <2>6
<1>5. \A k \in 0 .. n : k \in Right
  BY <1>3, <1>4, PrefixInduction
<1> QED
  BY <1>5 DEF p

LEMMA SquareSums ==
    ASSUME NEW n \in Nat, NEW m \in Int
    PROVE  LET q == [i \in 1 .. n |-> (2 * i - m) * (2 * i - m)]
           IN  \A k \in 0 .. n :
                  3 * SumFunctionOnSet(q, 1 .. k)
                     = 2 * k * (k + 1) * (2 * k + 1) - 6 * m * k * (k + 1) + 3 * k * m * m
<1> DEFINE q == [i \in 1 .. n |-> (2 * i - m) * (2 * i - m)]
           form(k) == 2 * k * (k + 1) * (2 * k + 1) - 6 * m * k * (k + 1) + 3 * k * m * m
           Right == {k \in 0 .. n : 3 * SumFunctionOnSet(q, 1 .. k) = form(k)}
<1>1. \A i \in 1 .. n : q[i] = (2 * i - m) * (2 * i - m) /\ q[i] \in Int
  OBVIOUS
<1> HIDE DEF q
<1>2. /\ SumFunctionOnSet(q, 1 .. 0) = 0
      /\ \A k \in 0 .. n : SumFunctionOnSet(q, 1 .. k) \in Int
      /\ \A k \in 0 .. (n - 1) :
            SumFunctionOnSet(q, 1 .. (k + 1)) = SumFunctionOnSet(q, 1 .. k) + q[k + 1]
  BY <1>1, PrefixSums
<1>3. 0 \in Right
  BY <1>2
<1>4. ASSUME NEW k \in 0 .. (n - 1), k \in Right PROVE k + 1 \in Right
  <2>1. k \in Int /\ SumFunctionOnSet(q, 1 .. k) \in Int
    BY <1>2
  <2>2. q[k + 1] = (2 * (k + 1) - m) * (2 * (k + 1) - m) /\ q[k + 1] \in Int
    BY <1>1
  <2>3. 3 * SumFunctionOnSet(q, 1 .. (k + 1))
          = form(k) + 3 * ((2 * (k + 1) - m) * (2 * (k + 1) - m))
    <3>1. SumFunctionOnSet(q, 1 .. (k + 1)) = SumFunctionOnSet(q, 1 .. k) + q[k + 1]
      BY <1>2
    <3>2. 3 * SumFunctionOnSet(q, 1 .. (k + 1))
            = 3 * SumFunctionOnSet(q, 1 .. k) + 3 * q[k + 1]
      BY <2>1, <2>2, <3>1
    <3>3. 3 * SumFunctionOnSet(q, 1 .. k) = form(k)
      BY <1>4
    <3> QED
      BY <2>2, <3>2, <3>3
  <2>4. form(k) + 3 * ((2 * (k + 1) - m) * (2 * (k + 1) - m)) = form(k + 1)
    BY <2>1
  <2>5. 3 * SumFunctionOnSet(q, 1 .. (k + 1)) = form(k + 1)
    BY <2>3, <2>4
  <2> QED
    BY <2>5
<1>5. \A k \in 0 .. n : k \in Right
  BY <1>3, <1>4, PrefixInduction
<1> QED
  BY <1>5 DEF q

\* _linear_regression in closed form, and its parts typed: the denominator is
\* positive (predictor.py:117-126).
LEMMA SlopeClosedForm ==
    ASSUME NEW n \in Nat, n >= 2, NEW v \in [1 .. n -> Int]
    PROVE  /\ LinearRegression(v).num = 4 * n * Weighted(v, n) - 2 * n * (n + 1) * Total(v, n)
           /\ 3 * LinearRegression(v).den = n * n * (n * n - 1)
           /\ LinearRegression(v).num \in Int
           /\ LinearRegression(v).den \in Nat \ {0}
<1> DEFINE t == Total(v, n)
           b == Weighted(v, n)
           p == [i \in 1 .. n |-> (2 * i - (n + 1)) * (n * v[i] - t)]
           q == [i \in 1 .. n |-> (2 * i - (n + 1)) * (2 * i - (n + 1))]
           ps == SumFunctionOnSet(p, 1 .. n)
           qs == SumFunctionOnSet(q, 1 .. n)
<1>1. v \in Seq(Int) /\ Len(v) = n /\ DOMAIN v = 1 .. n
  BY LenProperties
<1>2. t \in Int /\ b \in Int /\ n \in Int /\ n + 1 \in Int
  BY TotalSteps
<1>3. SumFunction(v) = t
  BY <1>1 DEF SumFunction, Total
<1>4. LinearRegression(v).num = 2 * ps /\ LinearRegression(v).den = n * qs
  BY <1>1, <1>3 DEF LinearRegression, SumFunction
<1>5. ps = 2 * n * b - n * (n + 1) * t - t * (n * (n + 1)) + t * ((n + 1) * n)
  <2> HIDE DEF t
  <2>1. n \in 0 .. n
    OBVIOUS
  <2> QED
    BY <1>2, <2>1, ProductSums DEF t
<1>6. 3 * qs = 2 * n * (n + 1) * (2 * n + 1) - 6 * (n + 1) * n * (n + 1)
                 + 3 * n * (n + 1) * (n + 1)
  <2>1. n \in 0 .. n
    OBVIOUS
  <2> QED
    BY <1>2, <2>1, SquareSums
<1>7. qs \in Int
  <2>1. \A i \in 1 .. n : q[i] \in Int
    OBVIOUS
  <2>2. n \in 0 .. n
    OBVIOUS
  <2> HIDE DEF q
  <2> QED
    BY <2>1, <2>2, PrefixSums
<1> HIDE DEF t, b, p, q, ps, qs
<1>8. 2 * ps = 4 * n * b - 2 * n * (n + 1) * t /\ 2 * ps \in Int
  BY <1>2, <1>5
<1>9. 3 * qs = n * (n * n - 1)
  <2>1. 2 * n * (n + 1) * (2 * n + 1) - 6 * (n + 1) * n * (n + 1)
           + 3 * n * (n + 1) * (n + 1) = n * (n * n - 1)
    BY <1>2
  <2> QED
    BY <1>6, <2>1
<1>10. 3 * (n * qs) = n * n * (n * n - 1)
  <2>1. 3 * (n * qs) = n * (3 * qs)
    BY <1>2, <1>7
  <2>2. n * (n * (n * n - 1)) = n * n * (n * n - 1)
    BY <1>2
  <2> QED
    BY <1>9, <2>1, <2>2
<1>11. n * qs \in Nat \ {0}
  <2>1. n * n - 1 \in Nat /\ n * n - 1 > 0
    OBVIOUS
  <2>2. n * (n * n - 1) > 0
    BY <2>1
  <2>3. qs > 0
    BY <1>7, <1>9, <2>2
  <2> QED
    BY <1>7, <2>3
<1> QED
  BY <1>4, <1>8, <1>10, <1>11 DEF t, b

-----------------------------------------------------------------------------
\* The pairs of days up to the k-th, and the sum over them column by column.
Pairs(k) == {ij \in (1 .. k) \X (1 .. k) : ij[1] < ij[2]}

LEMMA PairColumns ==
    ASSUME NEW n \in Nat, NEW f, \A ij \in Pairs(n) : f[ij] \in Int,
           NEW k \in 0 .. (n - 1)
    PROVE  SumFunctionOnSet(f, Pairs(k + 1))
              = SumFunctionOnSet(f, Pairs(k))
                  + SumFunctionOnSet([i \in 1 .. k |-> f[<<i, k + 1>>]], 1 .. k)
<1> DEFINE col == [i \in 1 .. k |-> f[<<i, k + 1>>]]
           upTo(m) == Pairs(k) \cup {<<i, k + 1>> : i \in 1 .. m}
           Right == {m \in 0 .. k : SumFunctionOnSet(f, upTo(m))
                        = SumFunctionOnSet(f, Pairs(k)) + SumFunctionOnSet(col, 1 .. m)}
<1>1. IsFiniteSet(Pairs(n))
  <2>1. IsFiniteSet((1 .. n) \X (1 .. n))
    <3>1. IsFiniteSet(1 .. n)
      BY FS_Interval
    <3> QED
      BY <3>1, FS_Product
  <2>2. Pairs(n) \in SUBSET ((1 .. n) \X (1 .. n))
    BY DEF Pairs
  <2> QED
    BY <2>1, <2>2, FS_Subset
<1>2. \A m \in 0 .. k : upTo(m) \in SUBSET Pairs(n)
  BY DEF Pairs
<1>3. upTo(0) = Pairs(k) /\ upTo(k) = Pairs(k + 1)
  <2>1. upTo(0) = Pairs(k)
    OBVIOUS
  <2>2. ASSUME NEW i \in 1 .. k PROVE <<i, k + 1>> \in Pairs(k + 1)
    BY DEF Pairs
  <2>3. ASSUME NEW ij \in Pairs(k + 1), ij \notin Pairs(k)
        PROVE  ij[1] \in 1 .. k /\ ij = <<ij[1], k + 1>>
    BY <2>3 DEF Pairs
  <2>4. Pairs(k) \subseteq Pairs(k + 1)
    BY DEF Pairs
  <2> QED
    BY <2>1, <2>2, <2>3, <2>4
<1>4. \A m \in 0 .. k : SumFunctionOnSet(f, upTo(m)) \in Int
  BY <1>1, <1>2, SumEquation
<1>5. \A i \in 1 .. k : col[i] = f[<<i, k + 1>>] /\ col[i] \in Int
  BY DEF Pairs
<1> HIDE DEF col
<1>6. /\ SumFunctionOnSet(col, 1 .. 0) = 0
      /\ \A m \in 0 .. k : SumFunctionOnSet(col, 1 .. m) \in Int
      /\ \A m \in 0 .. (k - 1) :
            SumFunctionOnSet(col, 1 .. (m + 1)) = SumFunctionOnSet(col, 1 .. m) + col[m + 1]
  <2>1. k \in Nat
    OBVIOUS
  <2> QED
    BY <1>5, <2>1, PrefixSums
<1>7. ASSUME NEW m \in 0 .. (k - 1)
      PROVE  SumFunctionOnSet(f, upTo(m + 1)) = SumFunctionOnSet(f, upTo(m)) + col[m + 1]
  <2> DEFINE x == <<m + 1, k + 1>>
  <2>1. x \in upTo(m + 1) /\ upTo(m + 1) \ {x} = upTo(m)
    <3>1. x \notin Pairs(k)
      BY DEF Pairs
    <3>2. \A i \in 1 .. (m + 1) : i \in 1 .. m \/ i = m + 1
      OBVIOUS
    <3>3. \A i \in 1 .. m : i \in 1 .. (m + 1) /\ i # m + 1
      OBVIOUS
    <3>4. m + 1 \in 1 .. (m + 1)
      OBVIOUS
    <3> QED
      BY <3>1, <3>2, <3>3, <3>4
  <2>2. upTo(m + 1) \in SUBSET Pairs(n)
    BY <1>2
  <2>3. IsFiniteSet(upTo(m + 1)) /\ \A ij \in upTo(m + 1) : f[ij] \in Int
    BY <1>1, <2>2, FS_Subset
  <2>4. f[x] = col[m + 1] /\ col[m + 1] \in Int
    BY <1>5
  <2> HIDE DEF x, upTo
  <2>5. SumFunctionOnSet(f, upTo(m + 1)) = f[x] + SumFunctionOnSet(f, upTo(m + 1) \ {x})
    BY <2>1, <2>3, SumRemoved
  <2>6. SumFunctionOnSet(f, upTo(m + 1)) = f[x] + SumFunctionOnSet(f, upTo(m))
    BY <2>1, <2>5
  <2>7. SumFunctionOnSet(f, upTo(m)) \in Int
    BY <1>4
  <2> QED
    BY <2>4, <2>6, <2>7
<1> HIDE DEF upTo
<1>8. 0 \in Right
  <2>1. SumFunctionOnSet(f, Pairs(k)) \in Int
    BY <1>3, <1>4
  <2> QED
    BY <1>3, <1>6, <2>1
<1>9. ASSUME NEW m \in 0 .. (k - 1), m \in Right PROVE m + 1 \in Right
  <2>1. /\ SumFunctionOnSet(f, Pairs(k)) \in Int
        /\ SumFunctionOnSet(col, 1 .. m) \in Int
        /\ col[m + 1] \in Int
    <3>1. 0 \in 0 .. k /\ m \in 0 .. k /\ m + 1 \in 1 .. k
      OBVIOUS
    <3> QED
      BY <1>3, <1>4, <1>5, <1>6, <3>1
  <2>2. SumFunctionOnSet(f, upTo(m + 1))
           = SumFunctionOnSet(f, Pairs(k)) + SumFunctionOnSet(col, 1 .. m) + col[m + 1]
    BY <1>7, <1>9
  <2>3. SumFunctionOnSet(f, upTo(m + 1))
           = SumFunctionOnSet(f, Pairs(k)) + SumFunctionOnSet(col, 1 .. (m + 1))
    BY <1>6, <2>1, <2>2
  <2> QED
    BY <2>3
<1>10. k \in Right
  <2> HIDE DEF Right
  <2>1. k \in 0 .. k
    OBVIOUS
  <2> QED
    BY <1>8, <1>9, <2>1, PrefixInduction
<1> QED
  BY <1>3, <1>10 DEF col

\* One column of squared distances, and one of weighted rises.
LEMMA DistanceColumn ==
    ASSUME NEW k \in Nat, NEW t \in Int, NEW c, \A i \in 1 .. k : c[i] = (t - i) * (t - i)
    PROVE  /\ SumFunctionOnSet(c, 1 .. k) \in Int
           /\ 6 * SumFunctionOnSet(c, 1 .. k)
                 = 6 * k * t * t - 6 * t * k * (k + 1) + k * (k + 1) * (2 * k + 1)
<1> DEFINE form(m) == 6 * m * t * t - 6 * t * m * (m + 1) + m * (m + 1) * (2 * m + 1)
           Right == {m \in 0 .. k : 6 * SumFunctionOnSet(c, 1 .. m) = form(m)}
<1>1. \A i \in 1 .. k : c[i] = (t - i) * (t - i) /\ c[i] \in Int
  OBVIOUS
<1>2. /\ SumFunctionOnSet(c, 1 .. 0) = 0
      /\ \A m \in 0 .. k : SumFunctionOnSet(c, 1 .. m) \in Int
      /\ \A m \in 0 .. (k - 1) :
            SumFunctionOnSet(c, 1 .. (m + 1)) = SumFunctionOnSet(c, 1 .. m) + c[m + 1]
  BY <1>1, PrefixSums
<1>3. 0 \in Right
  BY <1>2
<1>4. ASSUME NEW m \in 0 .. (k - 1), m \in Right PROVE m + 1 \in Right
  <2>1. /\ m \in Int /\ SumFunctionOnSet(c, 1 .. m) \in Int
        /\ SumFunctionOnSet(c, 1 .. (m + 1)) = SumFunctionOnSet(c, 1 .. m) + c[m + 1]
    BY <1>2
  <2>2. c[m + 1] = (t - (m + 1)) * (t - (m + 1)) /\ c[m + 1] \in Int
    BY <1>1
  <2>3. 6 * SumFunctionOnSet(c, 1 .. (m + 1))
          = 6 * SumFunctionOnSet(c, 1 .. m) + 6 * c[m + 1]
    BY <2>1, <2>2
  <2>4. 6 * SumFunctionOnSet(c, 1 .. (m + 1))
          = form(m) + 6 * ((t - (m + 1)) * (t - (m + 1)))
    BY <1>4, <2>2, <2>3
  <2>5. form(m) + 6 * ((t - (m + 1)) * (t - (m + 1))) = form(m + 1)
    BY <2>1
  <2>6. 6 * SumFunctionOnSet(c, 1 .. (m + 1)) = form(m + 1)
    BY <2>4, <2>5
  <2> QED
    BY <2>6
<1>5. k \in 0 .. k
  OBVIOUS
<1>6. k \in Right
  <2> HIDE DEF Right
  <2> QED
    BY <1>3, <1>4, <1>5, PrefixInduction
<1> QED
  BY <1>2, <1>5, <1>6

\* Column c: from each of the first k values of v to the value w of day t.
RisesTo(c, k, v, t, w) == \A i \in 1 .. k : c[i] = (t - i) * (w - v[i])
SumsTo(c, k, v, t, w) ==
    /\ SumFunctionOnSet(c, 1 .. k) \in Int
    /\ 2 * SumFunctionOnSet(c, 1 .. k)
          = 2 * t * k * w - w * k * (k + 1) - 2 * t * Total(v, k) + 2 * Weighted(v, k)

LEMMA RiseColumn ==
    ASSUME NEW n \in Nat, NEW v \in [1 .. n -> Int], NEW k \in 0 .. n,
           NEW t \in Int, NEW w \in Int, NEW c, RisesTo(c, k, v, t, w)
    PROVE  SumsTo(c, k, v, t, w)
<1> DEFINE form(m) == 2 * t * m * w - w * m * (m + 1) - 2 * t * Total(v, m)
                         + 2 * Weighted(v, m)
           Right == {m \in 0 .. k : 2 * SumFunctionOnSet(c, 1 .. m) = form(m)}
<1>1. \A i \in 1 .. k : c[i] = (t - i) * (w - v[i]) /\ c[i] \in Int
  BY DEF RisesTo
<1>2. /\ SumFunctionOnSet(c, 1 .. 0) = 0
      /\ \A m \in 0 .. k : SumFunctionOnSet(c, 1 .. m) \in Int
      /\ \A m \in 0 .. (k - 1) :
            SumFunctionOnSet(c, 1 .. (m + 1)) = SumFunctionOnSet(c, 1 .. m) + c[m + 1]
  <2>1. k \in Nat
    OBVIOUS
  <2> QED
    BY <1>1, <2>1, PrefixSums
<1>3. 0 \in Right
  BY <1>2, TotalSteps
<1>4. ASSUME NEW m \in 0 .. (k - 1), m \in Right PROVE m + 1 \in Right
  <2> DEFINE a == Total(v, m)
             b == Weighted(v, m)
             u == v[m + 1]
  <2>0. m \in 0 .. (n - 1) /\ m \in 0 .. n /\ m + 1 \in 1 .. n
    OBVIOUS
  <2>1. m \in Int /\ a \in Int /\ b \in Int /\ u \in Int
    <3>1. a \in Int /\ b \in Int
      BY <2>0, TotalSteps
    <3> QED
      BY <2>0, <3>1
  <2>2. Total(v, m + 1) = a + u /\ Weighted(v, m + 1) = b + (m + 1) * u
    BY <2>0, TotalSteps
  <2>3. /\ SumFunctionOnSet(c, 1 .. m) \in Int
        /\ SumFunctionOnSet(c, 1 .. (m + 1)) = SumFunctionOnSet(c, 1 .. m) + c[m + 1]
    BY <1>2
  <2>4. c[m + 1] = (t - (m + 1)) * (w - u) /\ c[m + 1] \in Int
    BY <1>1
  <2>5. 2 * SumFunctionOnSet(c, 1 .. (m + 1))
          = 2 * SumFunctionOnSet(c, 1 .. m) + 2 * c[m + 1]
    BY <2>3, <2>4
  <2>6. 2 * SumFunctionOnSet(c, 1 .. (m + 1))
          = 2 * t * m * w - w * m * (m + 1) - 2 * t * a + 2 * b
              + 2 * ((t - (m + 1)) * (w - u))
    BY <1>4, <2>4, <2>5
  <2> HIDE DEF a, b, u
  <2>7. 2 * t * m * w - w * m * (m + 1) - 2 * t * a + 2 * b
              + 2 * ((t - (m + 1)) * (w - u))
          = 2 * t * (m + 1) * w - w * (m + 1) * ((m + 1) + 1) - 2 * t * (a + u)
              + 2 * (b + (m + 1) * u)
    BY <2>1
  <2>8. 2 * SumFunctionOnSet(c, 1 .. (m + 1)) = form(m + 1)
    BY <2>2, <2>6, <2>7
  <2> QED
    BY <2>8
<1>5. k \in 0 .. k /\ k \in Nat
  OBVIOUS
<1>6. k \in Right
  <2> HIDE DEF Right
  <2> QED
    BY <1>3, <1>4, <1>5, PrefixInduction
<1> QED
  BY <1>2, <1>5, <1>6 DEF SumsTo

\* The sums over all pairs of days of the squares of their distances and of the
\* rises weighted by their distances.
LEMMA DistanceSums ==
    ASSUME NEW n \in Nat
    PROVE  LET f == [ij \in Pairs(n) |-> (ij[2] - ij[1]) * (ij[2] - ij[1])]
           IN  \A k \in 0 .. n :
                  /\ SumFunctionOnSet(f, Pairs(k)) \in Int
                  /\ 12 * SumFunctionOnSet(f, Pairs(k)) = k * k * (k * k - 1)
<1> DEFINE f == [ij \in Pairs(n) |-> (ij[2] - ij[1]) * (ij[2] - ij[1])]
           u(k) == SumFunctionOnSet(f, Pairs(k))
           Right == {k \in 0 .. n : u(k) \in Int /\ 12 * u(k) = k * k * (k * k - 1)}
<1>1. \A ij \in Pairs(n) : f[ij] \in Int
  BY DEF Pairs
<1>2. \A k \in 0 .. (n - 1) : \A i \in 1 .. k :
         f[<<i, k + 1>>] = ((k + 1) - i) * ((k + 1) - i)
  BY DEF Pairs
<1> HIDE DEF f
<1>3. 0 \in Right
  <2>1. Pairs(0) = {}
    BY DEF Pairs
  <2>2. IsFiniteSet({}) /\ {} \in SUBSET {} /\ \A x \in {} : f[x] \in Int
    BY FS_EmptySet
  <2>3. u(0) = 0
    BY <2>1, <2>2, SumEquation
  <2> QED
    BY <2>3
<1>4. ASSUME NEW k \in 0 .. (n - 1), k \in Right PROVE k + 1 \in Right
  <2> DEFINE c == [i \in 1 .. k |-> ((k + 1) - i) * ((k + 1) - i)]
             cs == SumFunctionOnSet(c, 1 .. k)
  <2>1. [i \in 1 .. k |-> f[<<i, k + 1>>]] = c
    BY <1>2
  <2>2. u(k + 1) = u(k) + cs
    <3> HIDE DEF c
    <3> QED
      BY <1>1, <2>1, PairColumns
  <2>3. k \in Nat /\ k \in 0 .. k /\ k + 1 \in Int
    OBVIOUS
  <2>4. \A i \in 1 .. k : c[i] = ((k + 1) - i) * ((k + 1) - i)
    OBVIOUS
  <2>5. /\ cs \in Int
        /\ 6 * cs = 6 * k * (k + 1) * (k + 1) - 6 * (k + 1) * k * (k + 1)
                       + k * (k + 1) * (2 * k + 1)
    <3> DEFINE t == k + 1
    <3>1. t \in Int /\ \A i \in 1 .. k : c[i] = (t - i) * (t - i)
      BY <2>3, <2>4
    <3> HIDE DEF c, t
    <3>2. /\ cs \in Int
          /\ 6 * cs = 6 * k * t * t - 6 * t * k * (k + 1) + k * (k + 1) * (2 * k + 1)
      BY <2>3, <3>1, DistanceColumn
    <3> QED
      BY <3>2 DEF t
  <2> HIDE DEF cs, u
  <2>6. u(k) \in Int /\ 12 * u(k) = k * k * (k * k - 1)
    BY <1>4
  <2>7. 12 * u(k + 1) = 12 * u(k) + 2 * (6 * cs) /\ u(k + 1) \in Int
    BY <2>2, <2>5, <2>6
  <2>8. k * k * (k * k - 1)
           + 2 * (6 * k * (k + 1) * (k + 1) - 6 * (k + 1) * k * (k + 1)
                    + k * (k + 1) * (2 * k + 1))
          = (k + 1) * (k + 1) * ((k + 1) * (k + 1) - 1)
    BY <2>3
  <2>9. 12 * u(k + 1) = (k + 1) * (k + 1) * ((k + 1) * (k + 1) - 1)
    BY <2>5, <2>6, <2>7, <2>8
  <2> QED
    BY <2>7, <2>9
<1>5. \A k \in 0 .. n : k \in Right
  <2> HIDE DEF Right
  <2> QED
    BY <1>3, <1>4, PrefixInduction
<1> QED
  BY <1>5 DEF f

LEMMA RiseSums ==
    ASSUME NEW n \in Nat, NEW v \in [1 .. n -> Int]
    PROVE  LET f == [ij \in Pairs(n) |-> (ij[2] - ij[1]) * (v[ij[2]] - v[ij[1]])]
           IN  \A k \in 0 .. n :
                  /\ SumFunctionOnSet(f, Pairs(k)) \in Int
                  /\ 2 * SumFunctionOnSet(f, Pairs(k))
                        = 2 * k * Weighted(v, k) - k * (k + 1) * Total(v, k)
<1> DEFINE f == [ij \in Pairs(n) |-> (ij[2] - ij[1]) * (v[ij[2]] - v[ij[1]])]
           r(k) == SumFunctionOnSet(f, Pairs(k))
           form(k) == 2 * k * Weighted(v, k) - k * (k + 1) * Total(v, k)
           Right == {k \in 0 .. n : r(k) \in Int /\ 2 * r(k) = form(k)}
<1>1. \A ij \in Pairs(n) : f[ij] \in Int
  BY DEF Pairs
<1>2. \A k \in 0 .. (n - 1) : \A i \in 1 .. k :
         f[<<i, k + 1>>] = ((k + 1) - i) * (v[k + 1] - v[i])
  BY DEF Pairs
<1> HIDE DEF f
<1>3. 0 \in Right
  <2>1. Pairs(0) = {}
    BY DEF Pairs
  <2>2. IsFiniteSet({}) /\ {} \in SUBSET {} /\ \A x \in {} : f[x] \in Int
    BY FS_EmptySet
  <2>3. r(0) = 0
    BY <2>1, <2>2, SumEquation
  <2> QED
    BY <2>3, TotalSteps
<1>4. ASSUME NEW k \in 0 .. (n - 1), k \in Right PROVE k + 1 \in Right
  <2> DEFINE w == v[k + 1]
             a == Total(v, k)
             b == Weighted(v, k)
             c == [i \in 1 .. k |-> ((k + 1) - i) * (w - v[i])]
             cs == SumFunctionOnSet(c, 1 .. k)
  <2>1. [i \in 1 .. k |-> f[<<i, k + 1>>]] = c
    BY <1>2
  <2>2. r(k + 1) = r(k) + cs
    <3> HIDE DEF c
    <3> QED
      BY <1>1, <2>1, PairColumns
  <2>3. k \in Nat /\ k \in 0 .. k /\ k \in 0 .. n /\ k + 1 \in Int /\ w \in Int
    OBVIOUS
  <2>4. a \in Int /\ b \in Int
    BY TotalSteps
  <2>5. Total(v, k + 1) = a + w /\ Weighted(v, k + 1) = b + (k + 1) * w
    BY TotalSteps
  <2>6. RisesTo(c, k, v, k + 1, w)
    BY DEF RisesTo
  <2>7. /\ cs \in Int
        /\ 2 * cs = 2 * (k + 1) * k * w - w * k * (k + 1) - 2 * (k + 1) * a + 2 * b
    <3> DEFINE t == k + 1
    <3>1. t \in Int /\ RisesTo(c, k, v, t, w)
      BY <2>3, <2>6
    <3> HIDE DEF c, t, w
    <3>2. SumsTo(c, k, v, t, w)
      BY <2>3, <3>1, RiseColumn
    <3> QED
      BY <3>2 DEF SumsTo, t
  <2>8. r(k) \in Int /\ 2 * r(k) = 2 * k * b - k * (k + 1) * a
    BY <1>4
  <2> HIDE DEF w, a, b, cs, r
  <2>9. 2 * r(k + 1) = 2 * r(k) + 2 * cs /\ r(k + 1) \in Int
    BY <2>2, <2>7, <2>8
  <2>10. 2 * k * b - k * (k + 1) * a
            + (2 * (k + 1) * k * w - w * k * (k + 1) - 2 * (k + 1) * a + 2 * b)
           = 2 * (k + 1) * (b + (k + 1) * w) - (k + 1) * ((k + 1) + 1) * (a + w)
    BY <2>3, <2>4
  <2>11. 2 * r(k + 1) = form(k + 1)
    BY <2>5, <2>7, <2>8, <2>9, <2>10
  <2> QED
    BY <2>9, <2>11
<1>5. \A k \in 0 .. n : k \in Right
  <2> HIDE DEF Right
  <2> QED
    BY <1>3, <1>4, PrefixInduction
<1> QED
  BY <1>5 DEF f

-----------------------------------------------------------------------------
\* Filter, element by element: g holds what is kept of each prefix of s.
HoldsKept(g, s, W, n) ==
    g = [k \in 0 .. n |->
            IF k = 0 THEN << >>
            ELSE IF s[k] \in W THEN Append(g[k - 1], s[k])
            ELSE g[k - 1]]

LEMMA KeptExists ==
    ASSUME NEW S, NEW s \in Seq(S), NEW W
    PROVE  \E g : HoldsKept(g, s, W, Len(s))
<1> DEFINE n == Len(s)
           next(g, k) == IF k = 0 THEN << >>
                         ELSE IF s[k] \in W THEN Append(g[k - 1], s[k])
                         ELSE g[k - 1]
           Solved == {k \in 0 .. n : \E g : g = [i \in 0 .. k |-> next(g, i)]}
<1>1. n \in Nat
  OBVIOUS
<1> HIDE DEF n
<1>2. 0 \in Solved
  <2> DEFINE g == [i \in 0 .. 0 |-> << >>]
  <2>1. g = [i \in 0 .. 0 |-> next(g, i)]
    OBVIOUS
  <2> HIDE DEF g, next
  <2> QED
    BY <1>1, <2>1
<1>3. ASSUME NEW k \in 0 .. (n - 1), k \in Solved PROVE k + 1 \in Solved
  <2>1. PICK g : g = [i \in 0 .. k |-> next(g, i)]
    BY <1>3
  <2> DEFINE h == [i \in 0 .. (k + 1) |-> next(g, i)]
  <2>2. \A i \in 0 .. k : h[i] = g[i]
    <3> HIDE DEF next
    <3>1. \A i \in 0 .. k : i \in 0 .. (k + 1)
      OBVIOUS
    <3> QED
      BY <2>1, <3>1
  <2>3. \A i \in 0 .. (k + 1) : i = 0 \/ i - 1 \in 0 .. k
    OBVIOUS
  <2>4. \A i \in 0 .. (k + 1) : next(g, i) = next(h, i)
    <3> HIDE DEF h
    <3> QED
      BY <2>2, <2>3
  <2>5. h = [i \in 0 .. (k + 1) |-> next(h, i)]
    <3> HIDE DEF next
    <3> QED
      BY <2>4
  <2>6. k + 1 \in 0 .. n
    BY <1>1
  <2> HIDE DEF h, next
  <2> QED
    BY <2>5, <2>6
<1>4. n \in Solved
  <2> HIDE DEF Solved
  <2>1. n \in 0 .. n
    BY <1>1
  <2> QED
    BY <1>1, <1>2, <1>3, <2>1, PrefixInduction
<1>5. PICK g : g = [i \in 0 .. n |-> next(g, i)]
  BY <1>4
<1> QED
  BY <1>5 DEF HoldsKept, n

\* g leads, step by step, to what Filter returns.
Filters(g, s, W) ==
    /\ g[0] = << >>
    /\ \A k \in 0 .. (Len(s) - 1) :
          g[k + 1] = IF s[k + 1] \in W THEN Append(g[k], s[k + 1]) ELSE g[k]
    /\ Filter(s, W) = g[Len(s)]

LEMMA FilterSteps ==
    ASSUME NEW S, NEW s \in Seq(S), NEW W
    PROVE  \E g \in [0 .. Len(s) -> Seq(S \cap W)] : Filters(g, s, W)
<1> DEFINE n == Len(s)
           g == CHOOSE h : HoldsKept(h, s, W, n)
           K == S \cap W
           Typed == {k \in 0 .. n : g[k] \in Seq(K)}
<1>1. n \in Nat /\ \A k \in 0 .. (n - 1) : s[k + 1] \in S
  OBVIOUS
<1>2. Filter(s, W) = g[n]
  BY DEF Filter, HoldsKept
<1>3. HoldsKept(g, s, W, n)
  BY KeptExists
<1> HIDE DEF n, g
<1>4. /\ g[0] = << >>
      /\ \A k \in 0 .. (n - 1) :
            g[k + 1] = IF s[k + 1] \in W THEN Append(g[k], s[k + 1]) ELSE g[k]
      /\ g = [k \in 0 .. n |-> g[k]]
  <2>1. \A k \in 0 .. n : g[k] = IF k = 0 THEN << >>
                                ELSE IF s[k] \in W THEN Append(g[k - 1], s[k])
                                ELSE g[k - 1]
    BY <1>3 DEF HoldsKept
  <2>2. g = [k \in 0 .. n |-> g[k]]
    BY <1>3 DEF HoldsKept
  <2>3. \A k \in 0 .. (n - 1) : k + 1 \in 0 .. n /\ k + 1 # 0 /\ (k + 1) - 1 = k
    BY <1>1
  <2>4. 0 \in 0 .. n
    BY <1>1
  <2> QED
    BY <2>1, <2>2, <2>3, <2>4
<1>5. 0 \in Typed
  <2>1. g[0] \in Seq(K)
    <3> HIDE DEF K
    <3> QED
      BY <1>4
  <2> QED
    BY <1>1, <2>1
<1>6. ASSUME NEW k \in 0 .. (n - 1), k \in Typed PROVE k + 1 \in Typed
  <2>1. g[k] \in Seq(K) /\ k + 1 \in 0 .. n
    BY <1>1, <1>6
  <2>2. s[k + 1] \in W => s[k + 1] \in K
    BY <1>1
  <2>3. g[k + 1] \in Seq(K)
    <3> DEFINE x == s[k + 1]
               u == g[k]
    <3>1. u \in Seq(K) /\ (x \in W => x \in K)
      BY <2>1, <2>2
    <3>2. g[k + 1] = IF x \in W THEN Append(u, x) ELSE u
      BY <1>4
    <3> HIDE DEF K, x, u
    <3> QED
      BY <3>1, <3>2
  <2> QED
    BY <2>1, <2>3
<1>7. \A k \in 0 .. n : g[k] \in Seq(K)
  <2>1. \A k \in 0 .. n : k \in Typed
    <3> HIDE DEF Typed
    <3> QED
      BY <1>1, <1>5, <1>6, PrefixInduction
  <2> QED
    BY <2>1
<1>8. g \in [0 .. n -> Seq(K)]
  BY <1>4, <1>7
<1> QED
  BY <1>2, <1>4, <1>8 DEF n, Filters

\* What a filter keeps is in the sequence and wanted.
LEMMA FilterType ==
    ASSUME NEW S, NEW s \in Seq(S), NEW W
    PROVE  Filter(s, W) \in Seq(S \cap W)
<1>1. PICK g \in [0 .. Len(s) -> Seq(S \cap W)] : Filters(g, s, W)
  BY FilterSteps
<1>2. Len(s) \in 0 .. Len(s)
  OBVIOUS
<1> QED
  BY <1>1, <1>2 DEF Filters

\* A filter keeps all that is wanted.
LEMMA FilterRange ==
    ASSUME NEW S, NEW s \in Seq(S), NEW W
    PROVE  Range(Filter(s, W)) = Range(s) \cap W
<1> DEFINE n == Len(s)
           K == S \cap W
           Seen(k) == {s[i] : i \in 1 .. k} \cap W
<1>1. PICK g \in [0 .. n -> Seq(K)] : Filters(g, s, W)
  BY FilterSteps
<1>2. n \in Nat /\ DOMAIN s = 1 .. n /\ \A k \in 0 .. n : g[k] \in Seq(K)
  BY <1>1
<1>3. /\ g[0] = << >>
      /\ \A k \in 0 .. (n - 1) :
            g[k + 1] = IF s[k + 1] \in W THEN Append(g[k], s[k + 1]) ELSE g[k]
      /\ Filter(s, W) = g[n]
  BY <1>1 DEF Filters
<1> DEFINE Kept == {k \in 0 .. n : Range(g[k]) = Seen(k)}
<1> HIDE DEF n
<1>4. 0 \in Kept
  <2>1. Range(g[0]) = {} /\ Seen(0) = {} /\ 0 \in 0 .. n
    BY <1>2, <1>3 DEF Range
  <2> QED
    BY <2>1
<1>5. ASSUME NEW k \in 0 .. (n - 1), k \in Kept PROVE k + 1 \in Kept
  <2> DEFINE y == s[k + 1]
             p == g[k]
             q == g[k + 1]
  <2>1. k + 1 \in 0 .. n /\ k + 1 \in 1 .. n /\ k \in 0 .. n
    BY <1>2
  <2>2. p \in Seq(K) /\ Range(p) = Seen(k) /\ (y \in W => y \in K)
    <3>1. s[k + 1] \in S
      BY <2>1 DEF n
    <3> QED
      BY <1>2, <1>5, <2>1, <3>1
  <2>3. q = IF y \in W THEN Append(p, y) ELSE p
    BY <1>3
  <2>4. Seen(k + 1) = Seen(k) \cup ({y} \cap W)
    <3>1. 1 .. (k + 1) = (1 .. k) \cup {k + 1}
      BY <2>1
    <3> QED
      BY <3>1
  <2> HIDE DEF Seen, y, p, q, K
  <2>5. y \in W => Range(Append(p, y)) = Range(p) \cup {y}
    <3> SUFFICES ASSUME y \in W PROVE Range(Append(p, y)) = Range(p) \cup {y}
      OBVIOUS
    <3> DEFINE a == Append(p, y)
    <3>1. /\ DOMAIN p = 1 .. Len(p) /\ Len(p) \in Nat
          /\ DOMAIN a = 1 .. (Len(p) + 1)
          /\ \A i \in 1 .. Len(p) : a[i] = p[i]
          /\ a[Len(p) + 1] = y
      BY <2>2
    <3>2. 1 .. (Len(p) + 1) = (1 .. Len(p)) \cup {Len(p) + 1}
      BY <3>1
    <3> HIDE DEF a
    <3>3. Range(a) = Range(p) \cup {y}
      BY <3>1, <3>2 DEF Range
    <3> QED
      BY <3>3 DEF a
  <2>6. Range(q) = Seen(k + 1)
    BY <2>2, <2>3, <2>4, <2>5
  <2> QED
    BY <2>1, <2>6 DEF q
<1>6. n \in 0 .. n /\ Seen(n) = Range(s) \cap W
  BY <1>2 DEF Range
<1> HIDE DEF Seen, Kept
<1>7. n \in Kept
  BY <1>2, <1>4, <1>5, <1>6, PrefixInduction
<1> QED
  BY <1>3, <1>6, <1>7 DEF Kept

-----------------------------------------------------------------------------
\* A value is a load, and a load an integer.
LEMMA FullRange ==
    /\ Full \in Nat \ {0}
    /\ \A x \in 1 .. Full : x \in 0 .. Full
    /\ \A x \in 0 .. Full : x \in Int /\ (x # 0 => x \in 1 .. Full)
<1>1. Full \in Nat \ {0}
  BY DEF Full
<1> QED
  BY <1>1

\* The values of a window are averages above 0, and so are the cleaned ones, of
\* which there are some when there are values.
LEMMA ValuesType ==
    ASSUME NEW a \in Averages
    PROVE  ValuesOf(Buckets(a)) \in Seq(1 .. Full)
<1> DEFINE T == Load \cup {None}
           rows == {average \in Range(a) : HasRows(average)}
           truthy == {v \in Range(Buckets(a)) : IsTruthy(v)}
<1>1. a \in Seq(T)
  BY WindowAssumption DEF Averages
<1>2. Buckets(a) \in Seq(T \cap rows)
  <2> HIDE DEF T, rows
  <2> QED
    BY <1>1, FilterType DEF Buckets, rows
<1>3. ValuesOf(Buckets(a)) \in Seq((T \cap rows) \cap truthy)
  <2> DEFINE U == T \cap rows
             b == Buckets(a)
  <2>1. b \in Seq(U)
    BY <1>2
  <2> HIDE DEF U, b
  <2>2. Filter(b, {v \in Range(b) : IsTruthy(v)}) \in Seq(U \cap {v \in Range(b) : IsTruthy(v)})
    BY <2>1, FilterType
  <2> QED
    BY <2>2 DEF U, b, ValuesOf
<1>4. ASSUME NEW v \in (T \cap rows) \cap truthy PROVE v \in 1 .. Full
  <2>1. v \in Load /\ v # 0
    BY DEF HasRows, IsTruthy
  <2>2. v \in 0 .. Full
    BY <2>1, LoadAssumption
  <2> QED
    BY <2>1, <2>2, FullRange
<1>5. (T \cap rows) \cap truthy \subseteq 1 .. Full
  BY <1>4
<1> HIDE DEF T, rows, truthy
<1> QED
  BY <1>3, <1>5, SeqMonotonic

LEMMA CleanedType ==
    ASSUME NEW v \in Seq(1 .. Full), v # << >>
    PROVE  RemoveOutliers(v) \in Seq(1 .. Full) /\ Len(RemoveOutliers(v)) \in Nat \ {0}
<1> DEFINE P == 1 .. Full
           regular == {w \in Range(v) : IsRegular(w, Quartile(v, 1), Quartile(v, 3))}
           cleaned == Filter(v, regular)
<1>1. v \in Seq(P) /\ Len(v) \in Nat \ {0}
  <2>1. v \in Seq(P)
    OBVIOUS
  <2> HIDE DEF P
  <2> QED
    BY <2>1, EmptySeq
<1>2. cleaned \in Seq(P \cap regular)
  <2> HIDE DEF P, regular
  <2> QED
    BY <1>1, FilterType
<1>3. P \cap regular \subseteq P
  OBVIOUS
<1>4. RemoveOutliers(v) \in {v, cleaned} /\ (RemoveOutliers(v) = cleaned =>
         cleaned = v \/ Len(cleaned) >= 4)
  BY DEF RemoveOutliers
<1> HIDE DEF P, regular, cleaned
<1>5. cleaned \in Seq(P) /\ Len(cleaned) \in Nat
  BY <1>2, <1>3
<1>6. RemoveOutliers(v) \in Seq(P) /\ Len(RemoveOutliers(v)) \in Nat \ {0}
  BY <1>1, <1>4, <1>5
<1> QED
  BY <1>6 DEF P

LEMMA SlopeType ==
    ASSUME NEW c \in Seq(Int), Len(c) >= 1
    PROVE  SlopeOf(c).num \in Int /\ SlopeOf(c).den \in Nat \ {0}
<1>1. CASE Len(c) >= 2
  <2>1. c \in [1 .. Len(c) -> Int] /\ Len(c) \in Nat
    OBVIOUS
  <2>2. SlopeOf(c) = LinearRegression(c)
    BY <1>1 DEF SlopeOf
  <2> QED
    BY <1>1, <2>1, <2>2, SlopeClosedForm
<1>2. CASE ~ Len(c) >= 2
  BY <1>2 DEF SlopeOf
<1> QED
  BY <1>1, <1>2

\* The parts of a prediction, for every window (predictor.py:19-76).
LEMMA PredictionParts ==
    ASSUME NEW a \in Averages, Predict(Buckets(a), 90).status = "ok"
    PROVE  LET p == Predict(Buckets(a), 90)
           IN  /\ p.current \in 1 .. Full
               /\ p.slope.num \in Int
               /\ p.slope.den \in Nat \ {0}
               /\ p.days_to_full = DaysToFull(p.current, p.slope)
               /\ \A d \in Horizons : p.forecast[d] = Forecast(p.current, p.slope, d)
<1> DEFINE v == ValuesOf(Buckets(a))
           c == RemoveOutliers(v)
           p == Predict(Buckets(a), 90)
<1>1. v # << >>
  BY DEF Predict
<1>2. c \in Seq(1 .. Full) /\ Len(c) \in Nat \ {0}
  <2> HIDE DEF v
  <2>1. v \in Seq(1 .. Full)
    BY ValuesType DEF v
  <2> QED
    BY <1>1, <2>1, CleanedType
<1>3. /\ p.current = c[Len(c)]
      /\ p.slope = SlopeOf(c)
      /\ p.forecast = [d \in {h \in Horizons : h <= 90} |-> Forecast(c[Len(c)], SlopeOf(c), d)]
      /\ p.days_to_full = DaysToFull(c[Len(c)], SlopeOf(c))
  BY <1>1 DEF Predict
<1> HIDE DEF v, c, p
<1>4. c[Len(c)] \in 1 .. Full
  <2> DEFINE P == 1 .. Full
  <2>1. c \in Seq(P) /\ Len(c) \in DOMAIN c
    BY <1>2
  <2> HIDE DEF P
  <2>2. c[Len(c)] \in P
    BY <2>1
  <2> QED
    BY <2>2 DEF P
<1>5. SlopeOf(c).num \in Int /\ SlopeOf(c).den \in Nat \ {0}
  <2> DEFINE P == 1 .. Full
  <2>1. P \subseteq Int /\ c \in Seq(P)
    BY <1>2
  <2> HIDE DEF P
  <2>2. c \in Seq(Int)
    BY <2>1, SeqMonotonic
  <2> QED
    BY <1>2, <2>2, SlopeType
<1>6. \A d \in Horizons : d <= 90
  BY DEF Horizons
<1>7. \A d \in Horizons : p.forecast[d] = Forecast(c[Len(c)], SlopeOf(c), d)
  BY <1>3, <1>6
<1> QED
  BY <1>3, <1>4, <1>5, <1>7 DEF p

-----------------------------------------------------------------------------
\* The whole quotient, and when it is at most d.
LEMMA Quotient ==
    ASSUME NEW a \in Nat, NEW b \in Nat \ {0}
    PROVE  /\ a \div b \in Nat
           /\ \A d \in Nat : a \div b <= d <=> a < (d + 1) * b
<1> DEFINE q == a \div b
<1>1. q \in Int /\ b * q <= a /\ a < b * q + b
  OBVIOUS
<1> HIDE DEF q
<1>2. q >= 0
  BY <1>1
<1>3. ASSUME NEW d \in Nat PROVE q <= d <=> a < (d + 1) * b
  <2>1. CASE q <= d
    <3>1. b * q <= b * d
      BY <1>1, <1>2, <2>1
    <3> QED
      BY <1>1, <2>1, <3>1
  <2>2. CASE q >= d + 1
    <3>1. b * q >= b * (d + 1)
      BY <1>1, <1>2, <2>2
    <3> QED
      BY <1>1, <2>2, <3>1
  <2> QED
    BY <1>1, <2>1, <2>2
<1> QED
  BY <1>1, <1>2, <1>3 DEF q

\* int((100 - current) / slope) is at most d exactly when the line is above 100
\* after d + 1 days; it is None when the line never rises, or the metric is full.
LEMMA DaysToFullMeans ==
    ASSUME NEW current \in 0 .. Full, NEW slope, slope.num \in Int,
           slope.den \in Nat \ {0}, NEW d \in Nat
    PROVE  LET days == DaysToFull(current, slope)
           IN  /\ days # None => days \in Nat
               /\ (days # None /\ days <= d) <=>
                     /\ current < Full
                     /\ current * slope.den + (d + 1) * slope.num > Full * slope.den
<1> DEFINE num == slope.num
           den == slope.den
           room == (Full - current) * den
           days == DaysToFull(current, slope)
<1>1. room \in Nat /\ (current < Full => room > 0) /\ room = Full * den - current * den
  BY DEF Full
<1>2. CASE num > 0 /\ current < Full
  <2>1. days = room \div num
    BY <1>2 DEF DaysToFull
  <2>2. room \div num \in Nat /\ (room \div num <= d <=> room < (d + 1) * num)
    <3> HIDE DEF room, num
    <3>1. num \in Nat \ {0}
      BY <1>2 DEF num
    <3> QED
      BY <1>1, <3>1, Quotient
  <2>3. days # None
    BY <2>1, <2>2, NoneAssumption
  <2>4. room < (d + 1) * num <=> current * den + (d + 1) * num > Full * den
    <3>1. current * den \in Int /\ Full * den \in Int /\ (d + 1) * num \in Int
      BY DEF Full
    <3> HIDE DEF room, num, den
    <3> QED
      BY <1>1, <3>1
  <2> QED
    BY <1>2, <2>1, <2>2, <2>3, <2>4
<1>3. CASE ~ (num > 0 /\ current < Full)
  <2>1. days = None
    BY <1>3 DEF DaysToFull
  <2>2. ~ (current < Full /\ current * den + (d + 1) * num > Full * den)
    <3> SUFFICES ASSUME current < Full, num <= 0
                 PROVE  ~ current * den + (d + 1) * num > Full * den
      BY <1>3
    <3>1. (d + 1) * num <= 0
      OBVIOUS
    <3>2. current * den \in Int /\ Full * den \in Int /\ (d + 1) * num \in Int
      BY DEF Full
    <3> HIDE DEF room, num, den
    <3> QED
      BY <1>1, <3>1, <3>2
  <2> QED
    BY <2>1, <2>2
<1> QED
  BY <1>2, <1>3

LEMMA MaxOfTwo ==
    ASSUME NEW x \in Int, NEW y \in Int
    PROVE  Max({x, y}) = IF x >= y THEN x ELSE y
<1> DEFINE m == IF x >= y THEN x ELSE y
<1>1. m \in {x, y} /\ \A z \in {x, y} : m >= z
  OBVIOUS
<1>2. Max({x, y}) \in {x, y} /\ \A z \in {x, y} : Max({x, y}) >= z
  <2> HIDE DEF m
  <2> QED
    BY <1>1 DEF Max
<1> QED
  BY <1>2

LEMMA MinOfTwo ==
    ASSUME NEW x \in Int, NEW y \in Int
    PROVE  Min({x, y}) = IF x <= y THEN x ELSE y
<1> DEFINE m == IF x <= y THEN x ELSE y
<1>1. m \in {x, y} /\ \A z \in {x, y} : m <= z
  OBVIOUS
<1>2. Min({x, y}) \in {x, y} /\ \A z \in {x, y} : Min({x, y}) <= z
  <2> HIDE DEF m
  <2> QED
    BY <1>1 DEF Min
<1> QED
  BY <1>2

\* Round(a, b) reaches k exactly when a / b is at most a half below it.
LEMMA RoundReaches ==
    ASSUME NEW a \in Nat, NEW b \in Nat \ {0}, NEW k \in Nat \ {0}
    PROVE  /\ Round(a, b) \in Nat
           /\ Round(a, b) >= k <=> 2 * a >= (2 * k - 1) * b
<1> DEFINE m == 2 * a + b
           n == 2 * b
<1>1. m \in Nat /\ n \in Nat \ {0} /\ k - 1 \in Nat
  OBVIOUS
<1>2. m \div n \in Nat /\ (m \div n <= k - 1 <=> m < ((k - 1) + 1) * n)
  <2> HIDE DEF m, n
  <2> QED
    BY <1>1, Quotient
<1>3. m < ((k - 1) + 1) * n <=> 2 * a < (2 * k - 1) * b
  <2>1. ((k - 1) + 1) * n = 2 * (k * b) /\ (2 * k - 1) * b = 2 * (k * b) - b
    OBVIOUS
  <2>2. k * b \in Int
    OBVIOUS
  <2> QED
    BY <2>1, <2>2
<1>4. Round(a, b) = m \div n
  BY DEF Round
<1>5. 2 * a \in Int /\ (2 * k - 1) * b \in Int
  OBVIOUS
<1> HIDE DEF m, n
<1> QED
  BY <1>2, <1>3, <1>4, <1>5

\* A forecast is 100 exactly when the line is at 100 or at most half a hundredth
\* below: that is what round(min(max(predicted, 0), 100), 2) does.
LEMMA ForecastIsFull ==
    ASSUME NEW current \in Int, NEW slope, slope.num \in Int,
           slope.den \in Nat \ {0}, NEW d \in Nat
    PROVE  Forecast(current, slope, d) = Full
              <=> 2 * (current * slope.den + slope.num * d) >= (2 * Full - 1) * slope.den
<1> DEFINE x == current * slope.den + slope.num * d
           den == slope.den
           top == Full * slope.den
           y == Clipped(current, slope, d)
<1>1. x \in Int /\ den \in Nat \ {0} /\ top \in Nat \ {0}
  BY DEF Full
<1>2. y = Min({Max({x, 0}), top})
  BY DEF Clipped
<1>3. top = Full * den /\ Forecast(current, slope, d) = Round(y, den)
  BY DEF Forecast
<1> HIDE DEF x, den, top, y
<1>4. Max({x, 0}) = IF x >= 0 THEN x ELSE 0
  BY <1>1, MaxOfTwo
<1>5. Min({Max({x, 0}), top}) = IF Max({x, 0}) <= top THEN Max({x, 0}) ELSE top
  BY <1>1, <1>4, MinOfTwo
<1>6. y \in Nat /\ y <= top
  BY <1>1, <1>2, <1>4, <1>5
<1>7. Full \in Nat \ {0} /\ Full + 1 \in Nat \ {0}
  BY DEF Full
<1>8. /\ Round(y, den) \in Nat
      /\ Round(y, den) >= Full <=> 2 * y >= (2 * Full - 1) * den
  BY <1>1, <1>6, <1>7, RoundReaches
<1>9. Round(y, den) >= Full + 1 <=> 2 * y >= (2 * (Full + 1) - 1) * den
  BY <1>1, <1>6, <1>7, RoundReaches
<1>10. /\ (2 * (Full + 1) - 1) * den = 2 * top + den
       /\ (2 * Full - 1) * den = 2 * top - den
  BY <1>1, <1>3 DEF Full
<1>11. ~ Round(y, den) >= Full + 1
  BY <1>1, <1>6, <1>9, <1>10
<1>12. Round(y, den) = Full <=> Round(y, den) >= Full
  BY <1>7, <1>8, <1>11
<1>13. 2 * y >= 2 * top - den <=> 2 * x >= 2 * top - den
  <2>1. den <= top
    <3>1. top >= 1 * den
      BY <1>1, <1>3 DEF Full
    <3> QED
      BY <1>1, <3>1
  <2>2. CASE x < 0
    <3>1. y = 0
      BY <1>1, <1>2, <1>4, <1>5, <2>2
    <3> QED
      BY <1>1, <2>1, <2>2, <3>1
  <2>3. CASE x \in 0 .. top
    <3>1. y = x
      BY <1>1, <1>2, <1>4, <1>5, <2>3
    <3> QED
      BY <3>1
  <2>4. CASE x > top
    <3>1. y = top
      BY <1>1, <1>2, <1>4, <1>5, <2>4
    <3> QED
      BY <1>1, <2>4, <3>1
  <2> QED
    BY <1>1, <2>2, <2>3, <2>4
<1> QED
  BY <1>3, <1>8, <1>10, <1>12, <1>13 DEF x, den

-----------------------------------------------------------------------------
\* A window that moves holds the same number of days.
LEMMA WindowMoves ==
    ASSUME NEW a \in Averages
    PROVE  Append(Tail(a), None) \in Averages
<1> DEFINE T == Load \cup {None}
<1>1. a \in Seq(T) /\ Len(a) = Window
  BY WindowAssumption DEF Averages
<1>2. Tail(a) \in Seq(T) /\ Len(Tail(a)) = Window - 1
  BY <1>1, WindowAssumption
<1>3. None \in T
  OBVIOUS
<1> HIDE DEF T
<1>4. Append(Tail(a), None) \in Seq(T) /\ Len(Append(Tail(a), None)) = Window
  BY <1>2, <1>3, WindowAssumption
<1>5. Append(Tail(a), None) \in [1 .. Window -> T]
  BY <1>4, LenProperties
<1> QED
  BY <1>5 DEF Averages, T

\* The data of the predictor keeps its type through samples and days.
LEMMA HistoryStep ==
    ASSUME HistoryTypeOK, HistoryNext \/ UNCHANGED averages
    PROVE  HistoryTypeOK'
<1>1. CASE NewDay
  BY <1>1, WindowMoves DEF NewDay, HistoryTypeOK
<1>2. ASSUME NEW s \in Series, NEW load \in Load, Measure(s, load)
      PROVE  HistoryTypeOK'
  <2>1. [averages[s] EXCEPT ![Window] = load] \in Averages
    BY DEF HistoryTypeOK, Averages
  <2> QED
    BY <1>2, <2>1 DEF Measure, HistoryTypeOK
<1>3. CASE UNCHANGED averages
  BY <1>3 DEF HistoryTypeOK
<1> QED
  BY <1>1, <1>2, <1>3 DEF HistoryNext

\* The averages of every metric keep their type
\* (queries.py:154-180).
THEOREM HistoryIsTyped == HistorySpec => []HistoryTypeOK
<1>1. HistoryInit => HistoryTypeOK
  BY DEF HistoryInit, HistoryTypeOK, NoRows, Averages
<1>2. HistoryTypeOK /\ [HistoryNext]_averages => HistoryTypeOK'
  BY HistoryStep
<1> QED
  BY <1>1, <1>2, PTL DEF HistorySpec

LEMMA PredictableWindow ==
    ASSUME HistoryTypeOK, NEW s \in Predictable
    PROVE  /\ averages[s] \in Averages
           /\ Prediction(s) = Predict(Buckets(averages[s]), 90)
           /\ Prediction(s).status = "ok"
BY DEF Predictable, Prediction, Timeseries, HistoryTypeOK

\* A metric is predicted exactly when the average of some day of the window is
\* more than 0: days without load count as days without data, so that a metric that
\* rests has no prediction (predictor.py:19-34).
PredictableHasLoad ==
    \A s \in Series :
        s \in Predictable <=> \E day \in 1 .. Window : averages[s][day] \notin {None, 0}

THEOREM OnlyLoadIsPredicted == HistorySpec => []PredictableHasLoad
<1>1. HistoryTypeOK => PredictableHasLoad
  <2> SUFFICES ASSUME HistoryTypeOK, NEW s \in Series
               PROVE  s \in Predictable <=>
                         \E day \in 1 .. Window : averages[s][day] \notin {None, 0}
    BY DEF PredictableHasLoad
  <2> DEFINE a == averages[s]
             T == Load \cup {None}
             b == Buckets(a)
             v == ValuesOf(b)
  <2>1. a \in [1 .. Window -> T]
    BY DEF HistoryTypeOK, Averages
  <2>2. a \in Seq(T) /\ DOMAIN a = 1 .. Window
    BY <2>1, WindowAssumption
  <2>3. s \in Predictable <=> v # << >>
    BY DEF Predictable, Prediction, Predict, Timeseries
  <2> HIDE DEF a, T
  <2>4. b \in Seq(T) /\ Range(b) = {x \in Range(a) : x # None}
    <3> DEFINE rows == {average \in Range(a) : HasRows(average)}
    <3> HIDE DEF rows
    <3>1. Filter(a, rows) \in Seq(T \cap rows) /\ Range(Filter(a, rows)) = Range(a) \cap rows
      BY <2>2, FilterType, FilterRange
    <3>2. Filter(a, rows) \in Seq(T)
      BY <3>1, SeqMonotonic
    <3> QED
      BY <3>1, <3>2 DEF Buckets, rows, HasRows
  <2> HIDE DEF b
  <2>5. v \in Seq(T) /\ Range(v) = {x \in Range(b) : x # 0}
    <3> DEFINE truthy == {x \in Range(b) : IsTruthy(x)}
    <3> HIDE DEF truthy
    <3>1. Filter(b, truthy) \in Seq(T \cap truthy)
          /\ Range(Filter(b, truthy)) = Range(b) \cap truthy
      BY <2>4, FilterType, FilterRange
    <3>2. Filter(b, truthy) \in Seq(T)
      BY <3>1, SeqMonotonic
    <3> QED
      BY <3>1, <3>2 DEF ValuesOf, truthy, IsTruthy
  <2> HIDE DEF v
  <2>6. v = << >> <=> Range(v) = {}
    <3>1. v = << >> => Range(v) = {}
      BY DEF Range
    <3>2. v # << >> => v[1] \in Range(v)
      BY <2>5 DEF Range
    <3> QED
      BY <3>1, <3>2
  <2>7. Range(v) = {x \in Range(a) : x \notin {None, 0}}
    BY <2>4, <2>5
  <2>8. Range(a) = {a[day] : day \in 1 .. Window}
    BY <2>2 DEF Range
  <2>9. Range(v) # {} <=> \E day \in 1 .. Window : a[day] \notin {None, 0}
    BY <2>7, <2>8
  <2> QED
    BY <2>3, <2>6, <2>9 DEF a
<1> QED
  BY <1>1, HistoryIsTyped, PTL

\* A recommendation is high exactly when the line of the metric passes 100 before
\* eight days are over and medium when it does so before thirty-one: the whole
\* days of int(...) lose nothing at the limits 7 and 30 (predictor.py:48-50 and
\* 94-97).
THEOREM UrgencyIsRight == HistorySpec => []UrgencyFollowsTrend
<1>1. HistoryTypeOK => UrgencyFollowsTrend
  <2> SUFFICES ASSUME HistoryTypeOK, NEW s \in Predictable
               PROVE  LET p == Prediction(s)
                          passes(days) ==
                             /\ p.current < Full
                             /\ p.current * p.slope.den + days * p.slope.num
                                  > Full * p.slope.den
                      IN /\ Urgency(p) = "high" <=> passes(8)
                         /\ Urgency(p) = "medium" <=> passes(31) /\ ~passes(8)
    BY DEF UrgencyFollowsTrend
  <2> DEFINE p == Prediction(s)
             passes(days) ==
                /\ p.current < Full
                /\ p.current * p.slope.den + days * p.slope.num > Full * p.slope.den
  <2>1. /\ p.status = "ok"
        /\ p.current \in 1 .. Full
        /\ p.slope.num \in Int
        /\ p.slope.den \in Nat \ {0}
        /\ p.days_to_full = DaysToFull(p.current, p.slope)
    BY PredictableWindow, PredictionParts
  <2> HIDE DEF p
  <2>2. p.current \in 0 .. Full
    BY <2>1, FullRange
  <2>3. ASSUME NEW d \in Nat PROVE IsFullWithin(p, d) <=> passes(d + 1)
    BY <2>1, <2>2, DaysToFullMeans DEF IsFullWithin
  <2>4. (IsFullWithin(p, 7) <=> passes(8)) /\ (IsFullWithin(p, 30) <=> passes(31))
    BY <2>3
  <2>5. /\ Urgency(p) = "high" <=> IsFullWithin(p, 7)
        /\ Urgency(p) = "medium" <=> IsFullWithin(p, 30) /\ ~ IsFullWithin(p, 7)
    BY <2>1, NoneAssumption DEF Urgency
  <2> HIDE DEF passes
  <2> QED
    BY <2>4, <2>5 DEF p, passes
<1> QED
  BY <1>1, HistoryIsTyped, PTL

\* Forecast and days left of an answer agree up to the rounding of the forecast,
\* for current values and slopes of any size (predictor.py:42-50).
THEOREM ForecastsAgree == HistorySpec => []ForecastsAgreeWithDays
<1>1. HistoryTypeOK => ForecastsAgreeWithDays
  <2> SUFFICES ASSUME HistoryTypeOK, NEW s \in Predictable, NEW d \in Horizons
               PROVE  LET p == Prediction(s)
                          full == p.forecast[d] = Full
                      IN /\ full /\ p.current < Full => IsFullWithin(p, 2 * d)
                         /\ IsFullWithin(p, d - 1) => full
    BY DEF ForecastsAgreeWithDays
  <2> DEFINE p == Prediction(s)
             cur == p.current
             num == p.slope.num
             den == p.slope.den
  <2>1. /\ cur \in 1 .. Full
        /\ num \in Int
        /\ den \in Nat \ {0}
        /\ p.days_to_full = DaysToFull(p.current, p.slope)
        /\ p.forecast[d] = Forecast(p.current, p.slope, d)
    BY PredictableWindow, PredictionParts
  <2>2. d \in Nat /\ d - 1 \in Nat /\ 2 * d \in Nat /\ d >= 1
    BY DEF Horizons
  <2> HIDE DEF p
  <2>3. cur \in 0 .. Full /\ cur \in Int
    BY <2>1, FullRange
  <2>4. p.forecast[d] = Full <=> 2 * (cur * den + num * d) >= (2 * Full - 1) * den
    BY <2>1, <2>2, <2>3, ForecastIsFull
  <2>5. ASSUME NEW k \in Nat
        PROVE  IsFullWithin(p, k) <=>
                  cur < Full /\ cur * den + (k + 1) * num > Full * den
    BY <2>1, <2>3, DaysToFullMeans DEF IsFullWithin
  <2> HIDE DEF cur, num, den
  <2> DEFINE base == cur * den
             top == Full * den
             rise == num * d
  <2>6. /\ base \in Int /\ top \in Int /\ rise \in Int
        /\ (2 * Full - 1) * den = 2 * top - den
    BY <2>1, <2>2 DEF Full
  <2>7. p.forecast[d] = Full <=> 2 * base + 2 * rise >= 2 * top - den
    <3>1. 2 * (cur * den + num * d) = 2 * base + 2 * rise
      BY <2>1, <2>2
    <3> HIDE DEF base, top, rise
    <3> QED
      BY <2>4, <2>6, <3>1
  <2>8. ASSUME p.forecast[d] = Full, cur < Full PROVE IsFullWithin(p, 2 * d)
    <3>1. base <= top - den
      <4>1. cur <= Full - 1 /\ Full \in Int
        BY <2>3, <2>8, FullRange
      <4>2. cur * den <= (Full - 1) * den
        BY <2>1, <4>1
      <4>3. (Full - 1) * den = top - den
        BY <2>1, <4>1
      <4> QED
        BY <4>2, <4>3
    <3>2. 2 * rise >= den /\ base + 2 * rise >= top
      <4> HIDE DEF base, top, rise
      <4> QED
        BY <2>1, <2>6, <2>7, <2>8, <3>1
    <3>3. rise > 0
      <4> HIDE DEF rise
      <4> QED
        BY <2>1, <2>6, <3>2
    <3>4. num > 0
      BY <2>1, <2>2, <3>3
    <3>5. (2 * d + 1) * num = 2 * rise + num
      BY <2>1, <2>2
    <3>6. base + (2 * d + 1) * num > top
      <4> HIDE DEF base, top, rise
      <4> QED
        BY <2>1, <2>6, <3>2, <3>4, <3>5
    <3> QED
      BY <2>2, <2>5, <2>8, <3>6
  <2>9. ASSUME IsFullWithin(p, d - 1) PROVE p.forecast[d] = Full
    <3>1. base + ((d - 1) + 1) * num > top
      BY <2>2, <2>5, <2>9
    <3>2. ((d - 1) + 1) * num = rise
      BY <2>1, <2>2
    <3> HIDE DEF base, top, rise
    <3> QED
      BY <2>1, <2>6, <2>7, <3>1, <3>2
  <2> QED
    BY <2>8, <2>9 DEF p, cur
<1> QED
  BY <1>1, HistoryIsTyped, PTL

\* With the closed forms of its two sums, the weighted mean of the pairwise
\* slopes is the slope of the regression.
LEMMA TrendFromSums ==
    ASSUME NEW n \in Nat \ {0}, NEW v \in [1 .. n -> Int],
           NEW dist \in Int, NEW rise \in Int,
           12 * dist = n * n * (n * n - 1),
           2 * rise = 2 * n * Weighted(v, n) - n * (n + 1) * Total(v, n)
    PROVE  SlopeOf(v).num * dist = SlopeOf(v).den * rise
<1> DEFINE num == SlopeOf(v).num
           den == SlopeOf(v).den
           a == n * Weighted(v, n)
           b == (n * (n + 1)) * Total(v, n)
<1>1. Len(v) = n
  BY LenProperties
<1>2. Weighted(v, n) \in Int /\ Total(v, n) \in Int /\ n \in Int /\ n + 1 \in Int
  <2>1. n \in Nat /\ n \in 0 .. n
    OBVIOUS
  <2> QED
    BY <2>1, TotalSteps
<1>3. n * (n + 1) \in Int
  BY <1>2
<1>4. a \in Int /\ b \in Int
  BY <1>2, <1>3
<1>5. 2 * rise = 2 * a - b
  BY <1>2
<1>6. CASE n >= 2
  <2>1. SlopeOf(v) = LinearRegression(v)
    BY <1>1, <1>6 DEF SlopeOf
  <2>2. /\ num = 4 * n * Weighted(v, n) - 2 * n * (n + 1) * Total(v, n)
        /\ 3 * den = n * n * (n * n - 1)
        /\ num \in Int /\ den \in Int
    BY <1>6, <2>1, SlopeClosedForm
  <2>3. 4 * n * Weighted(v, n) = 4 * a /\ 2 * n * (n + 1) * Total(v, n) = 2 * b
    BY <1>2
  <2> HIDE DEF num, den, a, b
  <2>4. num = 4 * rise
    BY <1>4, <1>5, <2>2, <2>3
  <2>5. den = 4 * dist
    BY <2>2
  <2>6. (4 * rise) * dist = (4 * dist) * rise
    OBVIOUS
  <2> QED
    BY <2>4, <2>5, <2>6 DEF num, den
<1>7. CASE n = 1
  <2>1. num = 0 /\ den = 1
    BY <1>1, <1>7 DEF SlopeOf
  <2>2. Weighted(v, 1) = v[1] /\ Total(v, 1) = v[1] /\ v[1] \in Int
    <3>1. 0 \in 0 .. (1 - 1) /\ 0 + 1 = 1 /\ 1 \in Nat
      OBVIOUS
    <3>2. v \in [1 .. 1 -> Int] /\ v[1] \in Int
      BY <1>7
    <3>3. /\ Total(v, 0) = 0 /\ Weighted(v, 0) = 0
          /\ Total(v, 0 + 1) = Total(v, 0) + v[0 + 1]
          /\ Weighted(v, 0 + 1) = Weighted(v, 0) + (0 + 1) * v[0 + 1]
      BY <3>1, <3>2, TotalSteps
    <3> QED
      BY <3>1, <3>2, <3>3
  <2>3. rise = 0
    BY <1>7, <2>2
  <2> HIDE DEF num, den
  <2> QED
    BY <2>1, <2>3 DEF num, den
<1> QED
  BY <1>6, <1>7

\* The slope of _linear_regression is the mean of the slopes between any two of
\* the cleaned days, weighted by the squares of their distances, for every number
\* of days and every value (predictor.py:117-126).
THEOREM SlopesAreTrends == HistorySpec => []SlopeIsPairwiseTrend
<1>1. HistoryTypeOK => SlopeIsPairwiseTrend
  <2> SUFFICES ASSUME HistoryTypeOK, NEW s \in Predictable
               PROVE  LET c == Cleaned(s)
                          slope == Prediction(s).slope
                          pairs == {ij \in (DOMAIN c) \X (DOMAIN c) : ij[1] < ij[2]}
                          rises == [ij \in pairs |-> (ij[2] - ij[1]) * (c[ij[2]] - c[ij[1]])]
                          runs == [ij \in pairs |-> (ij[2] - ij[1]) * (ij[2] - ij[1])]
                      IN slope.num * SumFunction(runs) = slope.den * SumFunction(rises)
    BY DEF SlopeIsPairwiseTrend
  <2> DEFINE c == Cleaned(s)
             n == Len(c)
             slope == SlopeOf(c)
             rises == [ij \in Pairs(n) |-> (ij[2] - ij[1]) * (c[ij[2]] - c[ij[1]])]
             runs == [ij \in Pairs(n) |-> (ij[2] - ij[1]) * (ij[2] - ij[1])]
             rise == SumFunctionOnSet(rises, Pairs(n))
             dist == SumFunctionOnSet(runs, Pairs(n))
  <2>1. ValuesOf(Timeseries(s)) # << >> /\ Prediction(s).slope = slope
    BY PredictableWindow DEF Prediction, Predict, Cleaned
  <2>2. c \in Seq(1 .. Full) /\ n \in Nat \ {0}
    <3>1. ValuesOf(Timeseries(s)) \in Seq(1 .. Full)
      BY PredictableWindow, ValuesType DEF Timeseries
    <3> QED
      BY <2>1, <3>1, CleanedType DEF Cleaned
  <2>3. c \in [1 .. n -> Int] /\ DOMAIN c = 1 .. n
    <3> HIDE DEF c
    <3> DEFINE values == 1 .. Full
    <3>1. c \in Seq(values)
      BY <2>2
    <3>2. values \subseteq Int
      OBVIOUS
    <3> HIDE DEF values
    <3>3. c \in Seq(Int)
      BY <3>1, <3>2, SeqMonotonic
    <3> QED
      BY <3>3, LenProperties
  <2> HIDE DEF c
  <2>4. Pairs(n) = {ij \in (DOMAIN c) \X (DOMAIN c) : ij[1] < ij[2]}
    BY <2>3 DEF Pairs
  <2>5. slope.num * dist = slope.den * rise
    <3> DEFINE len == n
    <3>1. len = n /\ len \in Nat \ {0} /\ c \in [1 .. len -> Int]
      BY <2>2, <2>3
    <3>2. Pairs(len) = Pairs(n) /\ len \in 0 .. len
      BY <3>1
    <3> HIDE DEF len
    <3>3. /\ dist \in Int /\ 12 * dist = len * len * (len * len - 1)
      BY <3>1, <3>2, DistanceSums
    <3>4. /\ rise \in Int
          /\ 2 * rise = 2 * len * Weighted(c, len) - len * (len + 1) * Total(c, len)
      BY <3>1, <3>2, RiseSums
    <3> HIDE DEF dist, rise
    <3> QED
      BY <3>1, <3>3, <3>4, TrendFromSums
  <2>6. SumFunction(runs) = dist /\ SumFunction(rises) = rise
    BY DEF SumFunction
  <2> HIDE DEF slope, dist, rise, n
  <2> QED
    BY <2>1, <2>4, <2>5, <2>6 DEF c
<1> QED
  BY <1>1, HistoryIsTyped, PTL
-----------------------------------------------------------------------------
\* One value among equal ones: what the rank k is, by counting.
OneOdd(v, n, spike, u) ==
    /\ spike \in 1 .. n
    /\ \A i \in 1 .. n : i # spike => v[i] = u

LEMMA RanksWithSpike ==
    ASSUME NEW n \in Nat, n >= 2, NEW v \in [1 .. n -> Int],
           NEW spike, NEW u \in Int, OneOdd(v, n, spike, u), NEW k \in 1 .. n
    PROVE  Ranked(v, k) = IF \/ k = n /\ v[spike] > u
                             \/ k = 1 /\ v[spike] < u
                          THEN v[spike] ELSE u
<1> DEFINE x == v[spike]
           below(w) == {i \in DOMAIN v : v[i] < w}
           upto(w) == {i \in DOMAIN v : v[i] <= w}
           Fits(w) == Cardinality(below(w)) < k /\ Cardinality(upto(w)) >= k
           rank == IF (k = n /\ x > u) \/ (k = 1 /\ x < u) THEN x ELSE u
<1>1. spike \in 1 .. n /\ x \in Int /\ DOMAIN v = 1 .. n
  BY DEF OneOdd
<1>2. \A i \in 1 .. n : v[i] = IF i = spike THEN x ELSE u
  BY DEF OneOdd
<1>3. Range(v) = {x, u}
  <2>1. PICK i \in 1 .. n : i # spike
    BY <1>1
  <2>2. v[i] = u /\ v[spike] = x
    BY <1>2, <2>1
  <2>3. \A j \in DOMAIN v : v[j] \in {x, u}
    BY <1>1, <1>2
  <2> QED
    BY <1>1, <2>1, <2>2, <2>3 DEF Range
<1>4. /\ Cardinality({}) = 0
      /\ Cardinality({spike}) = 1
      /\ Cardinality(1 .. n) = n
      /\ Cardinality((1 .. n) \ {spike}) = n - 1
  <2>1. IsFiniteSet(1 .. n) /\ Cardinality(1 .. n) = n
    BY FS_Interval
  <2>2. Cardinality((1 .. n) \ {spike}) = n - 1
    BY <1>1, <2>1, FS_RemoveElement
  <2> QED
    BY <2>1, <2>2, FS_EmptySet, FS_Singleton
<1>5. Ranked(v, k) = CHOOSE w \in {x, u} : Fits(w)
  BY <1>3 DEF Ranked
<1>6. ASSUME \A w \in {x, u} : Fits(w) <=> w = rank
      PROVE  Ranked(v, k) = rank
  <2>1. rank \in {x, u}
    OBVIOUS
  <2> HIDE DEF Fits, rank
  <2> QED
    BY <1>5, <1>6, <2>1
<1>7. CASE x > u
  <2>1. below(u) = {} /\ upto(u) = (1 .. n) \ {spike}
    BY <1>1, <1>2, <1>7
  <2>2. below(x) = (1 .. n) \ {spike} /\ upto(x) = 1 .. n
    BY <1>1, <1>2, <1>7
  <2>3. Cardinality(below(u)) = 0 /\ Cardinality(upto(u)) = n - 1
    BY <1>4, <2>1
  <2>4. Cardinality(below(x)) = n - 1 /\ Cardinality(upto(x)) = n
    BY <1>4, <2>2
  <2> HIDE DEF below, upto, x
  <2>5. (Fits(u) <=> k < n) /\ (Fits(x) <=> k = n)
    BY <2>3, <2>4
  <2>6. x # u /\ ~ x < u
    BY <1>1, <1>7
  <2>7. rank = IF k = n THEN x ELSE u
    BY <1>7, <2>6
  <2> HIDE DEF Fits, rank
  <2>8. \A w \in {x, u} : Fits(w) <=> w = rank
    BY <2>5, <2>6, <2>7
  <2>9. Ranked(v, k) = rank
    BY <1>6, <2>8
  <2> QED
    BY <2>9 DEF rank, x
<1>8. CASE x < u
  <2>1. below(u) = {spike} /\ upto(u) = 1 .. n
    BY <1>1, <1>2, <1>8
  <2>2. below(x) = {} /\ upto(x) = {spike}
    BY <1>1, <1>2, <1>8
  <2>3. Cardinality(below(u)) = 1 /\ Cardinality(upto(u)) = n
    BY <1>4, <2>1
  <2>4. Cardinality(below(x)) = 0 /\ Cardinality(upto(x)) = 1
    BY <1>4, <2>2
  <2> HIDE DEF below, upto, x
  <2>5. (Fits(u) <=> k > 1) /\ (Fits(x) <=> k = 1)
    BY <2>3, <2>4
  <2>6. x # u /\ ~ x > u
    BY <1>1, <1>8
  <2>7. rank = IF k = 1 THEN x ELSE u
    BY <1>8, <2>6
  <2> HIDE DEF Fits, rank
  <2>8. \A w \in {x, u} : Fits(w) <=> w = rank
    BY <2>5, <2>6, <2>7
  <2>9. Ranked(v, k) = rank
    BY <1>6, <2>8
  <2> QED
    BY <2>9 DEF rank, x
<1>9. CASE x = u
  <2>1. below(u) = {} /\ upto(u) = 1 .. n
    BY <1>1, <1>2, <1>9
  <2>2. Cardinality(below(u)) = 0 /\ Cardinality(upto(u)) = n
    BY <1>4, <2>1
  <2> HIDE DEF below, upto, x
  <2>3. Fits(u) /\ rank = u
    BY <1>9, <2>2
  <2> HIDE DEF Fits, rank
  <2> QED
    BY <1>6, <1>9, <2>3 DEF rank, x
<1> QED
  BY <1>1, <1>7, <1>8, <1>9

\* Among six values or more the odd one moves one quartile at most, and that by a
\* quarter of its distance.
LEMMA QuartilesWithSpike ==
    ASSUME NEW n \in Nat, n >= 6, NEW v \in [1 .. n -> Int],
           NEW spike, NEW u \in Int, OneOdd(v, n, spike, u)
    PROVE  /\ v[spike] >= u => /\ Quartile(v, 1) = 4 * u
                               /\ Quartile(v, 3) \in {4 * u, 3 * u + v[spike]}
           /\ v[spike] <= u => /\ Quartile(v, 3) = 4 * u
                               /\ Quartile(v, 1) \in {4 * u, 3 * u + v[spike]}
<1> DEFINE x == v[spike]
           j == (n + 1) \div 4
           l == (3 * (n + 1)) \div 4
<1>1. x \in Int /\ Len(v) = n
  BY LenProperties DEF OneOdd
<1>2. j \in Int /\ 4 * j <= n + 1 /\ n + 1 < 4 * j + 4
  OBVIOUS
<1>3. l \in Int /\ 4 * l <= 3 * (n + 1) /\ 3 * (n + 1) < 4 * l + 4
  OBVIOUS
<1>4. /\ Quartile(v, 1) = Ranked(v, j) * (4 - (n + 1 - 4 * j))
                          + Ranked(v, j + 1) * (n + 1 - 4 * j)
      /\ Quartile(v, 3) = Ranked(v, l) * (4 - (3 * (n + 1) - 4 * l))
                          + Ranked(v, l + 1) * (3 * (n + 1) - 4 * l)
  <2>1. (1 * (n + 1)) \div 4 = j /\ 1 * (n + 1) = n + 1
    OBVIOUS
  <2> HIDE DEF j, l
  <2> QED
    BY <1>1, <2>1 DEF Quartile, j, l
<1> HIDE DEF j, l
<1>5. /\ j \in 1 .. n /\ j + 1 \in 1 .. n /\ j + 1 < n
      /\ j = 1 => n = 6
  BY <1>2
<1>6. /\ l \in 1 .. n /\ l + 1 \in 1 .. n /\ l > 1
      /\ l + 1 = n => n \in {6, 7}
  BY <1>3
<1>7. /\ Ranked(v, j) = IF j = 1 /\ x < u THEN x ELSE u
      /\ Ranked(v, j + 1) = u
  BY <1>5, RanksWithSpike
<1>8. /\ Ranked(v, l) = u
      /\ Ranked(v, l + 1) = IF l + 1 = n /\ x > u THEN x ELSE u
  BY <1>6, RanksWithSpike
<1>9. Quartile(v, 1) = IF j = 1 /\ x < u THEN 3 * u + x ELSE 4 * u
  <2>1. CASE j = 1 /\ x < u
    BY <1>1, <1>4, <1>5, <1>7, <2>1
  <2>2. CASE ~ (j = 1 /\ x < u)
    <3> DEFINE delta == n + 1 - 4 * j
    <3>1. delta \in Int
      BY <1>2
    <3>2. Quartile(v, 1) = u * (4 - delta) + u * delta
      BY <1>4, <1>7, <2>2
    <3> HIDE DEF delta
    <3> QED
      BY <2>2, <3>1, <3>2
  <2> QED
    BY <2>1, <2>2
<1>10. Quartile(v, 3) \in {4 * u, 3 * u + x} /\ (~ x > u => Quartile(v, 3) = 4 * u)
  <2>1. CASE l + 1 = n /\ x > u
    <3>1. CASE n = 6
      <4>1. l = 5
        <5>1. l + 1 = 6
          BY <2>1, <3>1
        <5> QED
          BY <1>3, <5>1
      <4> QED
        BY <1>1, <1>4, <1>8, <2>1, <3>1, <4>1
    <3>2. CASE n = 7
      <4>1. l = 6
        <5>1. l + 1 = 7
          BY <2>1, <3>2
        <5> QED
          BY <1>3, <5>1
      <4> QED
        BY <1>1, <1>4, <1>8, <2>1, <3>2, <4>1
    <3> QED
      BY <1>6, <2>1, <3>1, <3>2
  <2>2. CASE ~ (l + 1 = n /\ x > u)
    <3> DEFINE delta == 3 * (n + 1) - 4 * l
    <3>1. delta \in Int
      BY <1>3
    <3>2. Quartile(v, 3) = u * (4 - delta) + u * delta
      BY <1>4, <1>8, <2>2
    <3> HIDE DEF delta
    <3>3. Quartile(v, 3) = 4 * u
      BY <3>1, <3>2
    <3> QED
      BY <3>3
  <2> QED
    BY <2>1, <2>2
<1> QED
  BY <1>1, <1>9, <1>10

\* The fence leaves the odd value out, and none of the others.
LEMMA SpikeIsIrregular ==
    ASSUME NEW n \in Nat, n >= 6, NEW v \in [1 .. n -> Int],
           NEW spike, NEW u \in Int, OneOdd(v, n, spike, u)
    PROVE  {w \in Range(v) : IsRegular(w, Quartile(v, 1), Quartile(v, 3))} = {u}
<1> DEFINE x == v[spike]
           q1 == Quartile(v, 1)
           q3 == Quartile(v, 3)
<1>1. /\ x \in Int
      /\ x >= u => q1 = 4 * u /\ q3 \in {4 * u, 3 * u + x}
      /\ x <= u => q3 = 4 * u /\ q1 \in {4 * u, 3 * u + x}
  BY QuartilesWithSpike DEF OneOdd
<1>2. u \in Range(v) /\ \A w \in Range(v) : w \in {x, u}
  <2>1. PICK i \in 1 .. n : i # spike
    BY DEF OneOdd
  <2>2. v[i] = u /\ \A j \in 1 .. n : v[j] \in {x, u}
    BY <2>1 DEF OneOdd
  <2> QED
    BY <2>2 DEF Range
<1> HIDE DEF x, q1, q3
<1>3. q1 \in Int /\ q3 \in Int
  BY <1>1
<1>4. \A w \in Int :
         IsRegular(w, q1, q3) <=>
            2 * q1 - 3 * (q3 - q1) <= 8 * w /\ 8 * w <= 2 * q3 + 3 * (q3 - q1)
  BY <1>3 DEF IsRegular
<1>5. IsRegular(u, q1, q3) /\ (x # u => ~ IsRegular(x, q1, q3))
  <2>1. CASE x >= u /\ q1 = 4 * u /\ q3 = 4 * u
    BY <1>1, <1>4, <2>1
  <2>2. CASE x >= u /\ q1 = 4 * u /\ q3 = 3 * u + x
    BY <1>1, <1>4, <2>2
  <2>3. CASE x <= u /\ q3 = 4 * u /\ q1 = 4 * u
    BY <1>1, <1>4, <2>3
  <2>4. CASE x <= u /\ q3 = 4 * u /\ q1 = 3 * u + x
    BY <1>1, <1>4, <2>4
  <2> QED
    BY <1>1, <2>1, <2>2, <2>3, <2>4
<1> QED
  BY <1>2, <1>5 DEF q1, q3

\* What is kept of a sequence whose values are all wanted but one.
LEMMA AllButOneKept ==
    ASSUME NEW v \in Seq(Int), NEW spike \in Int, NEW W,
           \A i \in 1 .. Len(v) : i # spike => v[i] \in W
    PROVE  Filter(v, W) \in Seq(Int \cap W) /\ Len(Filter(v, W)) >= Len(v) - 1
<1> DEFINE n == Len(v)
           K == Int \cap W
<1>1. PICK g \in [0 .. n -> Seq(K)] : Filters(g, v, W)
  BY FilterSteps
<1> DEFINE Kept == {k \in 0 .. n : Len(g[k]) >= k - 1 /\ (k < spike => Len(g[k]) >= k)}
<1>2. n \in Nat /\ \A k \in 0 .. n : g[k] \in Seq(K) /\ Len(g[k]) \in Nat
  BY <1>1
<1>3. /\ g[0] = << >>
      /\ \A k \in 0 .. (n - 1) :
            g[k + 1] = IF v[k + 1] \in W THEN Append(g[k], v[k + 1]) ELSE g[k]
      /\ Filter(v, W) = g[n]
  BY <1>1 DEF Filters
<1> HIDE DEF n
<1>4. 0 \in Kept
  <2>1. Len(g[0]) = 0
    BY <1>3
  <2> QED
    BY <1>2, <2>1
<1>5. ASSUME NEW k \in 0 .. (n - 1), k \in Kept PROVE k + 1 \in Kept
  <2> DEFINE y == v[k + 1]
             p == g[k]
             q == g[k + 1]
  <2>1. k + 1 \in 0 .. n /\ k + 1 \in 1 .. n /\ k \in 0 .. n
    BY <1>2
  <2>2. p \in Seq(K) /\ q \in Seq(K) /\ Len(p) \in Nat
        /\ Len(p) >= k - 1 /\ (k < spike => Len(p) >= k)
    BY <1>2, <1>5, <2>1
  <2>3. /\ q = IF y \in W THEN Append(p, y) ELSE p
        /\ k + 1 # spike => y \in W
    BY <1>3, <2>1 DEF n
  <2> HIDE DEF p, q, y, K
  <2>4. y \in W => Len(q) = Len(p) + 1
    BY <2>2, <2>3
  <2>5. Len(q) >= (k + 1) - 1 /\ (k + 1 < spike => Len(q) >= k + 1)
    <3>1. CASE k + 1 = spike
      BY <2>2, <2>3, <2>4, <3>1
    <3>2. CASE k + 1 # spike
      BY <2>2, <2>3, <2>4, <3>2
    <3> QED
      BY <3>1, <3>2
  <2> QED
    BY <2>1, <2>5 DEF q
<1>6. n \in Kept
  <2> HIDE DEF Kept
  <2>1. n \in 0 .. n
    BY <1>2
  <2> QED
    BY <1>2, <1>4, <1>5, <2>1, PrefixInduction
<1>7. n \in 0 .. n
  BY <1>2
<1>8. g[n] \in Seq(K) /\ Len(g[n]) >= n - 1 /\ Filter(v, W) = g[n]
  BY <1>2, <1>3, <1>6, <1>7
<1> QED
  BY <1>8 DEF n

\* Equal values have no slope.
LEMMA LevelSlope ==
    ASSUME NEW n \in Nat, n >= 2, NEW u \in Int, NEW v \in [1 .. n -> {u}]
    PROVE  SlopeOf(v).num = 0
<1> DEFINE Level == {k \in 0 .. n : /\ Total(v, k) = k * u
                                    /\ 2 * Weighted(v, k) = k * (k + 1) * u}
<1>1. v \in [1 .. n -> Int] /\ \A k \in 1 .. n : v[k] = u
  OBVIOUS
<1>2. /\ Total(v, 0) = 0 /\ Weighted(v, 0) = 0
      /\ \A k \in 0 .. n : Total(v, k) \in Int /\ Weighted(v, k) \in Int
      /\ \A k \in 0 .. (n - 1) :
            /\ Total(v, k + 1) = Total(v, k) + v[k + 1]
            /\ Weighted(v, k + 1) = Weighted(v, k) + (k + 1) * v[k + 1]
  BY <1>1, TotalSteps
<1>3. 0 \in Level
  BY <1>2
<1>4. ASSUME NEW k \in 0 .. (n - 1), k \in Level PROVE k + 1 \in Level
  <2>1. k + 1 \in 0 .. n /\ k \in 0 .. n /\ v[k + 1] = u
    BY <1>1
  <2> DEFINE t == Total(v, k)
             b == Weighted(v, k)
  <2>2. t \in Int /\ b \in Int /\ t = k * u /\ 2 * b = k * (k + 1) * u
    BY <1>2, <1>4, <2>1
  <2>3. Total(v, k + 1) = t + u /\ Weighted(v, k + 1) = b + (k + 1) * u
    BY <1>2, <2>1
  <2> HIDE DEF t, b
  <2>4. t + u = (k + 1) * u
    BY <2>2
  <2>5. 2 * (b + (k + 1) * u) = (k + 1) * ((k + 1) + 1) * u
    BY <2>2
  <2> QED
    BY <2>1, <2>3, <2>4, <2>5
<1>5. n \in Level
  <2> HIDE DEF Level
  <2>1. n \in 0 .. n
    OBVIOUS
  <2> QED
    BY <1>3, <1>4, <2>1, PrefixInduction
<1>6. n \in 0 .. n
  OBVIOUS
<1> DEFINE t == Total(v, n)
           b == Weighted(v, n)
           num == SlopeOf(v).num
<1>7. t \in Int /\ b \in Int /\ t = n * u /\ 2 * b = n * (n + 1) * u
  BY <1>2, <1>5, <1>6
<1>8. num = 4 * n * b - 2 * n * (n + 1) * t
  <2>1. SlopeOf(v) = LinearRegression(v)
    BY LenProperties DEF SlopeOf
  <2> QED
    BY <1>1, <2>1, SlopeClosedForm
<1> HIDE DEF t, b, num
<1>9. 4 * n * b = 2 * n * (2 * b)
  BY <1>7
<1>10. 4 * n * b = 2 * n * (n * (n + 1) * u)
  BY <1>7, <1>9
<1>11. 2 * n * (n + 1) * t = 2 * n * (n * (n + 1) * u)
  BY <1>7
<1>12. 2 * n * (n * (n + 1) * u) \in Int
  OBVIOUS
<1> QED
  BY <1>8, <1>10, <1>11, <1>12 DEF num

\* One odd day among at least six days changes neither the current value nor the
\* trend, for every value that it can have (predictor.py:128-136).
THEOREM SpikesDoNoHarm == HistorySpec => []SpikesAreIgnored
<1>1. HistoryTypeOK => SpikesAreIgnored
  <2> SUFFICES ASSUME HistoryTypeOK, NEW s \in Predictable,
                      NEW spike \in DOMAIN ValuesOf(Timeseries(s)), NEW u \in Load,
                      Len(ValuesOf(Timeseries(s))) >= 6,
                      \A i \in DOMAIN ValuesOf(Timeseries(s)) \ {spike} :
                         ValuesOf(Timeseries(s))[i] = u
               PROVE  Prediction(s).current = u /\ Prediction(s).slope.num = 0
    BY DEF SpikesAreIgnored
  <2> DEFINE v == ValuesOf(Timeseries(s))
             n == Len(v)
             W == {w \in Range(v) : IsRegular(w, Quartile(v, 1), Quartile(v, 3))}
             c == RemoveOutliers(v)
  <2>1. /\ v # << >>
        /\ Prediction(s).current = c[Len(c)]
        /\ Prediction(s).slope = SlopeOf(c)
    BY PredictableWindow DEF Prediction, Predict
  <2>2. v \in Seq(1 .. Full)
    BY PredictableWindow, ValuesType DEF Timeseries
  <2>3. v \in Seq(Int)
    <3> DEFINE values == 1 .. Full
    <3>1. v \in Seq(values) /\ values \subseteq Int
      BY <2>2
    <3> HIDE DEF values, v
    <3> QED
      BY <3>1, SeqMonotonic
  <2>4. u \in Int /\ spike \in DOMAIN v /\ n >= 6 /\ \A i \in DOMAIN v \ {spike} : v[i] = u
    BY LoadAssumption
  <2> HIDE DEF v
  <2>5. n \in Nat /\ v \in [1 .. n -> Int] /\ DOMAIN v = 1 .. n /\ spike \in Int
    BY <2>3, <2>4, LenProperties
  <2>6. OneOdd(v, n, spike, u)
    BY <2>4, <2>5 DEF OneOdd
  <2>7. W = {u}
    <3> HIDE DEF n
    <3> QED
      BY <2>4, <2>5, <2>6, SpikeIsIrregular DEF n
  <2>8. Filter(v, {u}) \in Seq(Int \cap {u}) /\ Len(Filter(v, {u})) >= n - 1
    BY <2>3, <2>4, <2>5, AllButOneKept
  <2>9. c = Filter(v, W)
    <3>1. c = IF n < 4 THEN v
              ELSE IF Len(Filter(v, W)) >= 4 THEN Filter(v, W) ELSE v
      BY DEF RemoveOutliers
    <3> HIDE DEF c, W, n
    <3>2. Len(Filter(v, W)) \in Nat
      <4>1. Filter(v, W) \in Seq(Int \cap {u})
        BY <2>7, <2>8
      <4> QED
        BY <4>1
    <3>3. Len(Filter(v, W)) >= 4
      BY <2>4, <2>5, <2>7, <2>8, <3>2
    <3> QED
      BY <2>4, <2>5, <3>1, <3>3
  <2>10. c \in Seq({u}) /\ Len(c) >= 5 /\ Len(c) \in Nat
    <3>1. Int \cap {u} = {u}
      BY <2>4
    <3> HIDE DEF c, W, n
    <3> QED
      BY <2>4, <2>5, <2>7, <2>8, <2>9, <3>1
  <2> HIDE DEF c
  <2>11. c \in [1 .. Len(c) -> {u}] /\ Len(c) \in DOMAIN c
    BY <2>10
  <2>12. c[Len(c)] = u
    BY <2>11
  <2>13. SlopeOf(c).num = 0
    BY <2>4, <2>10, <2>11, LevelSlope
  <2> QED
    BY <2>1, <2>12, <2>13
<1> QED
  BY <1>1, HistoryIsTyped, PTL
==============================================================================
