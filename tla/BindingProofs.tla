---------------------------- MODULE BindingProofs ----------------------------
(***************************************************************************)
(* The buffers of an instance hold whatever a run admits, for every engine *)
(* and configuration.                                                      *)
(***************************************************************************)
EXTENDS LoadingProofs, RecursionFacts

-----------------------------------------------------------------------------
(***************************************************************************)
(* Maxima and minima.                                                      *)
(***************************************************************************)
LEMMA ExtremesExist ==
  ASSUME NEW S, IsFiniteSet(S), S # {}, S \subseteq Int
  PROVE  /\ \E x \in S : \A y \in S : x >= y
         /\ \E x \in S : \A y \in S : x =< y
<1> DEFINE Bounded(s) == /\ \E x \in s : \A y \in s : x >= y
                         /\ \E x \in s : \A y \in s : x =< y
           T == {n \in Nat : \A s \in SUBSET S : s # {} /\ Cardinality(s) = n => Bounded(s)}
<1>1. \A s \in SUBSET S : IsFiniteSet(s)
  BY FS_Subset
<1>2. 0 \in T
  BY <1>1, FS_EmptySet
<1>3. ASSUME NEW n \in Nat, n \in T
      PROVE  n + 1 \in T
  <2> SUFFICES ASSUME NEW s \in SUBSET S, s # {}, Cardinality(s) = n + 1 PROVE Bounded(s)
    OBVIOUS
  <2>1. PICK x : x \in s
    OBVIOUS
  <2> DEFINE r == s \ {x}
  <2>2. r \in SUBSET S /\ Cardinality(r) = n
    <3>1. IsFiniteSet(s)
      BY <1>1
    <3>2. Cardinality(s \ {x}) = Cardinality(s) - 1
      BY <2>1, <3>1, FS_RemoveElement
    <3>3. (n + 1) - 1 = n
      OBVIOUS
    <3> QED
      BY <3>2, <3>3
  <2>3. CASE r = {}
    <3>1. s = {x} /\ x \in Int
      BY <2>1, <2>3
    <3> QED
      BY <3>1
  <2>4. CASE r # {}
    <3>1. Bounded(r)
      BY <1>3, <2>2, <2>4
    <3>2. PICK max \in r : \A y \in r : max >= y
      BY <3>1
    <3>3. PICK min \in r : \A y \in r : min =< y
      BY <3>1
    <3>4. \A y \in s : y = x \/ y \in r
      BY <2>1
    <3>5. s \subseteq Int /\ x \in Int /\ max \in Int /\ min \in Int /\ r \subseteq s
      BY <2>1
    <3> HIDE DEF r
    <3>6. \E z \in s : \A y \in s : z >= y
      <4>1. CASE max >= x
        BY <3>2, <3>4, <3>5, <4>1
      <4>2. CASE x >= max
        BY <2>1, <3>2, <3>4, <3>5, <4>2
      <4> QED
        BY <3>5, <4>1, <4>2
    <3>7. \E z \in s : \A y \in s : z =< y
      <4>1. CASE min =< x
        BY <3>3, <3>4, <3>5, <4>1
      <4>2. CASE x =< min
        BY <2>1, <3>3, <3>4, <3>5, <4>2
      <4> QED
        BY <3>5, <4>1, <4>2
    <3> QED
      BY <3>6, <3>7
  <2> QED
    BY <2>3, <2>4
<1>4. Nat \subseteq T
  <2> HIDE DEF T
  <2> QED
    BY <1>2, <1>3, InductionOnSet
<1>5. Cardinality(S) \in Nat
  BY FS_CardinalityType
<1>6. Cardinality(S) \in T
  <2> HIDE DEF T
  <2> QED
    BY <1>4, <1>5
<1> QED
  BY <1>6

LEMMA Extremes ==
  ASSUME NEW S, IsFiniteSet(S), S # {}, S \subseteq Int
  PROVE  /\ Max(S) \in S /\ \A y \in S : y <= Max(S)
         /\ Min(S) \in S /\ \A y \in S : Min(S) <= y
<1>1. Max(S) \in S /\ \A y \in S : Max(S) >= y
  BY ExtremesExist, Zenon DEF Max
<1>2. Min(S) \in S /\ \A y \in S : Min(S) =< y
  BY ExtremesExist, Zenon DEF Min
<1> QED
  BY <1>1, <1>2

LEMMA IndexSets ==
  ASSUME NEW n \in Nat, NEW s \in SUBSET (1 .. n), s # {}
  PROVE  Max(s) \in s /\ \A y \in s : y <= Max(s)
<1>1. IsFiniteSet(1 .. n)
  BY FS_Interval
<1>2. IsFiniteSet(s)
  BY <1>1, FS_Subset
<1>3. s \subseteq Int
  OBVIOUS
<1> QED
  BY <1>2, <1>3, Extremes

\* A set of indices without the last of them is one of the indices before it.
LEMMA IndexSetShrinks ==
  ASSUME NEW n \in Nat
  PROVE  \A s \in SUBSET (1 .. n + 1) : s # {} => s \ {Max(s)} \in SUBSET (1 .. n)
<1> SUFFICES ASSUME NEW s \in SUBSET (1 .. n + 1), s # {}
             PROVE  \A y \in s : y # Max(s) => y \in 1 .. n
  OBVIOUS
<1>1. Max(s) \in 1 .. n + 1 /\ \A y \in s : y \in 1 .. n + 1 /\ y <= Max(s)
  <2>1. n + 1 \in Nat
    OBVIOUS
  <2>2. Max(s) \in s /\ \A y \in s : y <= Max(s)
    BY <2>1, IndexSets
  <2> QED
    BY <2>2
<1> QED
  BY <1>1

LEMMA LastIndex ==
  ASSUME NEW k \in Nat
  PROVE  Max(1 .. k + 1) = k + 1 /\ (1 .. k + 1) \ {k + 1} = 1 .. k
<1>1. Max(1 .. k + 1) \in 1 .. k + 1 /\ \A y \in 1 .. k + 1 : y <= Max(1 .. k + 1)
  <2>1. k + 1 \in Nat /\ 1 .. k + 1 # {}
    OBVIOUS
  <2> QED
    BY <2>1, IndexSets
<1>2. k + 1 \in 1 .. k + 1
  OBVIOUS
<1>3. Max(1 .. k + 1) = k + 1
  BY <1>1, <1>2
<1> QED
  BY <1>3

-----------------------------------------------------------------------------
(***************************************************************************)
(* Volumes.                                                                *)
(***************************************************************************)
\* g[s] is the product of the elements of a at the places in s.
Products(g, a, n) ==
  g = [s \in SUBSET (1 .. n) |-> IF s = {} THEN 1 ELSE g[s \ {Max(s)}] * a[Max(s)]]

LEMMA ProductsExist ==
  ASSUME NEW a
  PROVE  \A n \in Nat : \E g : Products(g, a, n)
<1> DEFINE T == {n \in Nat : \E g : Products(g, a, n)}
<1>1. 0 \in T
  <2> DEFINE g == [s \in SUBSET (1 .. 0) |-> 1]
  <2>1. \A s \in SUBSET (1 .. 0) : s = {}
    OBVIOUS
  <2>2. Products(g, a, 0)
    BY <2>1 DEF Products
  <2> QED
    BY <2>2
<1>2. ASSUME NEW n \in Nat, n \in T
      PROVE  n + 1 \in T
  <2>1. PICK h : Products(h, a, n)
    BY <1>2
  <2> DEFINE next(k) == [s \in SUBSET (1 .. n + 1) |->
                           IF s = {} THEN 1 ELSE k[s \ {Max(s)}] * a[Max(s)]]
             g == next(h)
  <2>2. \A s \in SUBSET (1 .. n) : g[s] = h[s]
    <3>1. TAKE s \in SUBSET (1 .. n)
    <3>2. s \in SUBSET (1 .. n + 1)
      OBVIOUS
    <3> QED
      BY <2>1, <3>2 DEF Products
  <2>3. \A s \in SUBSET (1 .. n + 1) : s # {} => s \ {Max(s)} \in SUBSET (1 .. n)
    BY IndexSetShrinks
  <2>4. next(h) = next(g)
    <3> HIDE DEF g
    <3> QED
      BY <2>2, <2>3
  <2>5. Products(g, a, n + 1)
    <3>1. g = next(g)
      <4> HIDE DEF next
      <4> QED
        BY <2>4
    <3> HIDE DEF g
    <3> QED
      BY <3>1 DEF Products
  <2> HIDE DEF g
  <2> QED
    BY <2>5
<1>3. Nat \subseteq T
  <2> HIDE DEF T
  <2> QED
    BY <1>1, <1>2, InductionOnSet
<1> QED
  BY <1>3

\* Partial volumes: v[k] is the volume of the first k dimensions.
LEMMA VolumeEquation ==
  ASSUME NEW a, NEW n \in Nat, DOMAIN a = 1 .. n
  PROVE  \E v : /\ v[0] = 1
                /\ \A k \in 0 .. n - 1 : v[k + 1] = v[k] * a[k + 1]
                /\ Volume(a) = v[n]
<1>1. Volume(a) = (CHOOSE g : Products(g, a, n))[1 .. n]
  BY Zenon DEF Volume, FoldLeft, MapThenFoldSet, Products
<1>2. PICK g : Products(g, a, n) /\ Volume(a) = g[1 .. n]
  BY <1>1, ProductsExist
<1> DEFINE v == [k \in 0 .. n |-> g[1 .. k]]
<1>3. v[0] = 1
  <2>1. 1 .. 0 = {}
    OBVIOUS
  <2> QED
    BY <1>2, <2>1 DEF Products
<1>4. ASSUME NEW k \in 0 .. n - 1
      PROVE  v[k + 1] = v[k] * a[k + 1]
  <2>1. g[1 .. k + 1] = g[(1 .. k + 1) \ {Max(1 .. k + 1)}] * a[Max(1 .. k + 1)]
    <3>1. 1 .. k + 1 \in SUBSET (1 .. n)
      OBVIOUS
    <3>3. 1 .. k + 1 # {}
      BY 1 \in 1 .. k + 1
    <3> QED
      BY <1>2, <3>1, <3>3 DEF Products
  <2>2. Max(1 .. k + 1) = k + 1 /\ (1 .. k + 1) \ {k + 1} = 1 .. k
    <3>1. k \in Nat
      OBVIOUS
    <3> QED
      BY <3>1, LastIndex
  <2>3. v[k + 1] = g[1 .. k + 1] /\ v[k] = g[1 .. k]
    OBVIOUS
  <2> QED
    BY <2>1, <2>2, <2>3
<1>5. Volume(a) = v[n]
  BY <1>2
<1> HIDE DEF v
<1> QED
  BY <1>3, <1>4, <1>5

LEMMA VolumeIsInt ==
  ASSUME NEW a \in Seq(Int)
  PROVE  Volume(a) \in Int
<1> DEFINE n == Len(a)
<1>1. n \in Nat /\ DOMAIN a = 1 .. n /\ \A k \in 1 .. n : a[k] \in Int
  OBVIOUS
<1> HIDE DEF n
<1>2. PICK v : /\ v[0] = 1
               /\ \A k \in 0 .. n - 1 : v[k + 1] = v[k] * a[k + 1]
               /\ Volume(a) = v[n]
  BY <1>1, VolumeEquation
<1> DEFINE T == {k \in Nat : k <= n => v[k] \in Int}
<1>3. 0 \in T
  BY <1>2
<1>4. ASSUME NEW k \in Nat, k \in T
      PROVE  k + 1 \in T
  <2> SUFFICES ASSUME k + 1 <= n PROVE v[k + 1] \in Int
    OBVIOUS
  <2>1. k \in 0 .. n - 1 /\ k + 1 \in 1 .. n
    BY <1>1
  <2>2. v[k + 1] = v[k] * a[k + 1]
    BY <1>2, <2>1
  <2>3. v[k] \in Int /\ a[k + 1] \in Int
    BY <1>1, <1>4, <2>1
  <2> QED
    BY <2>2, <2>3
<1>5. Nat \subseteq T
  <2> HIDE DEF T
  <2> QED
    BY <1>3, <1>4, InductionOnSet
<1> QED
  BY <1>1, <1>2, <1>5

LEMMA ProductMonotone ==
  ASSUME NEW x \in Nat, NEW y \in Nat, NEW a \in Nat, NEW b \in Nat, x <= y, a <= b
  PROVE  x * a \in Nat /\ y * b \in Nat /\ x * a <= y * b
<1>1. x * a <= y * a
  OBVIOUS
<1>2. y * a <= y * b
  OBVIOUS
<1> QED
  BY <1>1, <1>2

\* Larger dimensions, larger volume.
LEMMA VolumeMonotone ==
  ASSUME NEW a \in Seq(Nat), NEW b \in Seq(Int), Len(a) = Len(b),
         \A d \in 1 .. Len(a) : a[d] <= b[d]
  PROVE  Volume(a) <= Volume(b)
<1> DEFINE n == Len(a)
<1>1. /\ n \in Nat /\ DOMAIN a = 1 .. n /\ DOMAIN b = 1 .. n
      /\ \A k \in 1 .. n : a[k] \in Nat /\ b[k] \in Nat /\ a[k] <= b[k]
  OBVIOUS
<1> HIDE DEF n
<1>2. PICK v : /\ v[0] = 1
               /\ \A k \in 0 .. n - 1 : v[k + 1] = v[k] * a[k + 1]
               /\ Volume(a) = v[n]
  BY <1>1, VolumeEquation
<1>3. PICK w : /\ w[0] = 1
               /\ \A k \in 0 .. n - 1 : w[k + 1] = w[k] * b[k + 1]
               /\ Volume(b) = w[n]
  BY <1>1, VolumeEquation
<1> DEFINE T == {k \in Nat : k <= n => v[k] \in Nat /\ w[k] \in Nat /\ v[k] <= w[k]}
<1>4. 0 \in T
  BY <1>2, <1>3
<1>5. ASSUME NEW k \in Nat, k \in T
      PROVE  k + 1 \in T
  <2> SUFFICES ASSUME k + 1 <= n
               PROVE  v[k + 1] \in Nat /\ w[k + 1] \in Nat /\ v[k + 1] <= w[k + 1]
    OBVIOUS
  <2>1. k \in 0 .. n - 1 /\ k + 1 \in 1 .. n
    BY <1>1
  <2>2. v[k + 1] = v[k] * a[k + 1] /\ w[k + 1] = w[k] * b[k + 1]
    BY <1>2, <1>3, <2>1
  <2>3. v[k] \in Nat /\ w[k] \in Nat /\ v[k] <= w[k]
    BY <1>1, <1>5, <2>1
  <2>4. a[k + 1] \in Nat /\ b[k + 1] \in Nat /\ a[k + 1] <= b[k + 1]
    BY <1>1, <2>1
  <2>5. /\ v[k] * a[k + 1] \in Nat /\ w[k] * b[k + 1] \in Nat
        /\ v[k] * a[k + 1] <= w[k] * b[k + 1]
    BY <2>3, <2>4, ProductMonotone
  <2> QED
    BY <2>2, <2>5
<1>6. Nat \subseteq T
  <2> HIDE DEF T
  <2> QED
    BY <1>4, <1>5, InductionOnSet
<1> QED
  BY <1>1, <1>2, <1>3, <1>6

-----------------------------------------------------------------------------
(***************************************************************************)
(* Whole vectors of a format.                                              *)
(***************************************************************************)
LEMMA DivisionFacts ==
  ASSUME NEW c \in Nat \ {0}, NEW x \in Int
  PROVE  /\ x \div c \in Int
         /\ x % c \in 0 .. c - 1
         /\ x = c * (x \div c) + (x % c)
         /\ c * (x \div c) \in Int
<1>1. c \in Int /\ c > 0
  OBVIOUS
<1>2. x \div c \in Int
  BY <1>1
<1>3. x % c \in 0 .. c - 1
  BY <1>1
<1>4. x = c * (x \div c) + (x % c)
  BY <1>1
<1>5. c * (x \div c) \in Int
  BY <1>1, <1>2
<1> QED
  BY <1>2, <1>3, <1>4, <1>5

LEMMA QuotientMonotone ==
  ASSUME NEW c \in Nat \ {0}, NEW x \in Int, NEW y \in Int, x <= y
  PROVE  c * (x \div c) <= c * (y \div c)
<1>1. c \in Int /\ c > 0
  OBVIOUS
<1>2. x \div c <= y \div c
  BY <1>1
<1> DEFINE p == x \div c
           q == y \div c
<1>3. p \in Int /\ q \in Int /\ p <= q
  BY <1>2, DivisionFacts
<1> HIDE DEF p, q
<1>4. c * p <= c * q
  BY <1>1, <1>3
<1> QED
  BY <1>4 DEF p, q

\* Sizes rounded up to whole vectors of c elements, in the two ways the code and
\* TensorRT do it.
LEMMA RoundingMonotone ==
  ASSUME NEW c \in Nat \ {0}, NEW x \in Int, NEW y \in Int, x <= y
  PROVE  /\ x + (c - (x % c)) \in Int /\ c * ((x + c - 1) \div c) \in Int
         /\ x + (c - (x % c)) <= y + (c - (y % c))
         /\ c * ((x + c - 1) \div c) <= c * ((y + c - 1) \div c)
         /\ x >= 0 => x + (c - (x % c)) >= 0 /\ c * ((x + c - 1) \div c) >= 0
<1>1. c \in Int /\ c > 0 /\ x + c - 1 \in Int /\ y + c - 1 \in Int /\ x + c - 1 <= y + c - 1
  OBVIOUS
<1> DEFINE p == c * (x \div c)
           q == c * (y \div c)
           r == x % c
           t == y % c
<1>2. p \in Int /\ q \in Int /\ r \in 0 .. c - 1 /\ t \in 0 .. c - 1 /\ x = p + r /\ y = q + t
  BY DivisionFacts
<1>3. p <= q
  BY QuotientMonotone
<1> HIDE DEF p, q, r, t
<1>4. /\ x + (c - r) \in Int /\ x + (c - r) <= y + (c - t)
      /\ x >= 0 => x + (c - r) >= 0
  BY <1>1, <1>2, <1>3
<1>5. c * ((x + c - 1) \div c) \in Int
  BY <1>1, DivisionFacts
<1>6. c * ((x + c - 1) \div c) <= c * ((y + c - 1) \div c)
  BY <1>1, QuotientMonotone
<1>7. ASSUME x >= 0
      PROVE  c * ((x + c - 1) \div c) >= 0
  <2> DEFINE z == x + c - 1
             u == c * (z \div c)
             v == z % c
  <2>1. u \in Int /\ v \in 0 .. c - 1 /\ z = u + v /\ z \in Int
    BY <1>1, DivisionFacts
  <2>2. z >= c - 1
    BY <1>1, <1>7
  <2> HIDE DEF z, u, v
  <2>3. u >= 0
    BY <1>1, <2>1, <2>2
  <2> QED
    BY <2>3 DEF u, z
<1> QED
  BY <1>4, <1>5, <1>6, <1>7 DEF r, t

FormatTyped(format) == format.linear \/ format.components \in Nat \ {0}

LEMMA SeqExcept ==
  ASSUME NEW T, NEW a \in Seq(T), NEW k, NEW v
  PROVE  [a EXCEPT ![k] = v] = [d \in 1 .. Len(a) |-> IF d = k THEN v ELSE a[d]]
<1>1. DOMAIN a = 1 .. Len(a)
  OBVIOUS
<1> QED
  BY <1>1

LEMMA RoundedTyped ==
  ASSUME NEW f, FormatTyped(f), NEW a \in Seq(Int)
  PROVE  /\ Padded(f, a) \in Seq(Int) /\ Len(Padded(f, a)) = Len(a)
         /\ InVectors(f, a) \in Seq(Int) /\ Len(InVectors(f, a)) = Len(a)
<1>1. CASE f.linear
  BY <1>1 DEF Padded, InVectors
<1>2. CASE ~f.linear
  <2>1. f.components \in Nat \ {0}
    BY <1>2 DEF FormatTyped
  <2> DEFINE c == f.components
  <2>2. \A x \in Int : x + (c - (x % c)) \in Int /\ c * ((x + c - 1) \div c) \in Int
    BY <2>1, RoundingMonotone
  <2>3. /\ Padded(f, a) = [a EXCEPT ![f.dim] = @ + (c - (@ % c))]
        /\ InVectors(f, a) = [a EXCEPT ![f.dim] = c * ((@ + c - 1) \div c)]
    BY <1>2 DEF Padded, InVectors
  <2>4. ASSUME NEW v \in Int
        PROVE  /\ [a EXCEPT ![f.dim] = v] \in Seq(Int)
               /\ Len([a EXCEPT ![f.dim] = v]) = Len(a)
    <3> DEFINE b == [d \in 1 .. Len(a) |-> IF d = f.dim THEN v ELSE a[d]]
    <3>1. [a EXCEPT ![f.dim] = v] = b
      BY SeqExcept
    <3>2. Len(a) \in Nat /\ \A d \in 1 .. Len(a) : a[d] \in Int
      OBVIOUS
    <3>3. b \in Seq(Int) /\ Len(b) = Len(a)
      BY <3>2
    <3> QED
      BY <3>1, <3>3
  <2>5. CASE f.dim \in 1 .. Len(a)
    <3>1. a[f.dim] \in Int
      BY <2>5
    <3> DEFINE x == a[f.dim]
               up == x + (c - (x % c))
               vectors == c * ((x + c - 1) \div c)
    <3>2. up \in Int /\ vectors \in Int
      BY <2>2, <3>1
    <3>3. Padded(f, a) = [a EXCEPT ![f.dim] = up] /\ InVectors(f, a) = [a EXCEPT ![f.dim] = vectors]
      BY <2>3
    <3> HIDE DEF up, vectors
    <3> QED
      BY <2>4, <3>2, <3>3
  <2>6. CASE f.dim \notin 1 .. Len(a)
    <3>1. Padded(f, a) = a /\ InVectors(f, a) = a
      BY <2>3, <2>6
    <3> QED
      BY <3>1
  <2> QED
    BY <2>5, <2>6
<1> QED
  BY <1>1, <1>2

LEMMA RoundedMonotone ==
  ASSUME NEW f, FormatTyped(f), NEW a \in Seq(Nat), NEW b \in Seq(Int), Len(a) = Len(b),
         \A d \in 1 .. Len(a) : a[d] <= b[d]
  PROVE  /\ Padded(f, a) \in Seq(Nat) /\ InVectors(f, a) \in Seq(Nat)
         /\ \A d \in 1 .. Len(a) : Padded(f, a)[d] <= Padded(f, b)[d]
         /\ \A d \in 1 .. Len(a) : InVectors(f, a)[d] <= InVectors(f, b)[d]
<1>1. CASE f.linear
  BY <1>1 DEF Padded, InVectors
<1>2. CASE ~f.linear
  <2>1. f.components \in Nat \ {0}
    BY <1>2 DEF FormatTyped
  <2> DEFINE c == f.components
             up(x) == x + (c - (x % c))
             vectors(x) == c * ((x + c - 1) \div c)
  <2>2. \A x \in Nat, y \in Int : x <= y =>
          up(x) \in Nat /\ vectors(x) \in Nat /\ up(x) <= up(y) /\ vectors(x) <= vectors(y)
    <3> SUFFICES ASSUME NEW x \in Nat, NEW y \in Int, x <= y
                 PROVE  /\ up(x) \in Nat /\ vectors(x) \in Nat
                        /\ up(x) <= up(y) /\ vectors(x) <= vectors(y)
      OBVIOUS
    <3>1. x \in Int /\ x >= 0
      OBVIOUS
    <3>2. /\ up(x) \in Int /\ vectors(x) \in Int
          /\ up(x) <= up(y) /\ vectors(x) <= vectors(y)
          /\ up(x) >= 0 /\ vectors(x) >= 0
      BY <2>1, <3>1, RoundingMonotone
    <3> HIDE DEF up, vectors
    <3> QED
      BY <3>2
  <2>3. /\ Padded(f, a) = [a EXCEPT ![f.dim] = up(@)]
        /\ InVectors(f, a) = [a EXCEPT ![f.dim] = vectors(@)]
        /\ Padded(f, b) = [b EXCEPT ![f.dim] = up(@)]
        /\ InVectors(f, b) = [b EXCEPT ![f.dim] = vectors(@)]
    BY <1>2 DEF Padded, InVectors
  <2>4. \A d \in 1 .. Len(a) :
          /\ a[d] \in Nat /\ b[d] \in Int /\ a[d] <= b[d]
          /\ Padded(f, a)[d] = IF d = f.dim THEN up(a[d]) ELSE a[d]
          /\ InVectors(f, a)[d] = IF d = f.dim THEN vectors(a[d]) ELSE a[d]
          /\ Padded(f, b)[d] = IF d = f.dim THEN up(b[d]) ELSE b[d]
          /\ InVectors(f, b)[d] = IF d = f.dim THEN vectors(b[d]) ELSE b[d]
    <3> HIDE DEF up, vectors
    <3> QED
      BY <2>3, SeqExcept
  <2>5. /\ DOMAIN Padded(f, a) = 1 .. Len(a) /\ DOMAIN InVectors(f, a) = 1 .. Len(a)
        /\ Padded(f, a) = [d \in 1 .. Len(a) |-> Padded(f, a)[d]]
        /\ InVectors(f, a) = [d \in 1 .. Len(a) |-> InVectors(f, a)[d]]
    <3> HIDE DEF up, vectors
    <3>1. DOMAIN a = 1 .. Len(a)
      OBVIOUS
    <3> QED
      BY <2>3, <3>1
  <2> HIDE DEF c, up, vectors
  <2>6. /\ \A d \in 1 .. Len(a) : Padded(f, a)[d] <= Padded(f, b)[d]
        /\ \A d \in 1 .. Len(a) : InVectors(f, a)[d] <= InVectors(f, b)[d]
    BY <2>2, <2>4
  <2>7. \A d \in 1 .. Len(a) : Padded(f, a)[d] \in Nat /\ InVectors(f, a)[d] \in Nat
    BY <2>2, <2>4
  <2>8. Padded(f, a) \in Seq(Nat) /\ InVectors(f, a) \in Seq(Nat)
    BY <2>5, <2>7
  <2> QED
    BY <2>6, <2>8
<1> QED
  BY <1>1, <1>2

\* What is rounded up keeps its order, and so do the volumes.
LEMMA RoundedVolumes ==
  ASSUME NEW f, FormatTyped(f), NEW a \in Seq(Nat), NEW b \in Seq(Int), Len(a) = Len(b),
         \A d \in 1 .. Len(a) : a[d] <= b[d]
  PROVE  /\ Volume(Padded(f, a)) <= Volume(Padded(f, b))
         /\ Volume(InVectors(f, a)) <= Volume(InVectors(f, b))
<1>1. a \in Seq(Int)
  OBVIOUS
<1>2. /\ Padded(f, b) \in Seq(Int) /\ Len(Padded(f, b)) = Len(b)
      /\ InVectors(f, b) \in Seq(Int) /\ Len(InVectors(f, b)) = Len(b)
      /\ Len(Padded(f, a)) = Len(a) /\ Len(InVectors(f, a)) = Len(a)
  BY <1>1, RoundedTyped
<1>3. /\ Padded(f, a) \in Seq(Nat) /\ InVectors(f, a) \in Seq(Nat)
      /\ \A d \in 1 .. Len(a) : Padded(f, a)[d] <= Padded(f, b)[d]
      /\ \A d \in 1 .. Len(a) : InVectors(f, a)[d] <= InVectors(f, b)[d]
  BY RoundedMonotone
<1> DEFINE pa == Padded(f, a)
           pb == Padded(f, b)
           va == InVectors(f, a)
           vb == InVectors(f, b)
<1>4. /\ pa \in Seq(Nat) /\ pb \in Seq(Int) /\ Len(pa) = Len(pb)
      /\ \A d \in 1 .. Len(pa) : pa[d] <= pb[d]
  BY <1>2, <1>3
<1>5. /\ va \in Seq(Nat) /\ vb \in Seq(Int) /\ Len(va) = Len(vb)
      /\ \A d \in 1 .. Len(va) : va[d] <= vb[d]
  BY <1>2, <1>3
<1> HIDE DEF pa, pb, va, vb
<1>6. Volume(pa) <= Volume(pb) /\ Volume(va) <= Volume(vb)
  BY <1>4, <1>5, VolumeMonotone
<1> QED
  BY <1>6 DEF pa, pb, va, vb

-----------------------------------------------------------------------------
(***************************************************************************)
(* Engines and configurations.                                             *)
(***************************************************************************)
\* What InitIOBindingBuffers is called with.
Loadable(e, cfg) == EngineTyped(e) /\ ConfigTyped(cfg) /\ ProfilesExist(e, cfg)

LEMMA TensorTyped ==
  ASSUME NEW e, EngineTyped(e), NEW n \in Names(e)
  PROVE  Tensor(e, n).dims \in Seq(Int) /\ FormatTyped(Tensor(e, n).format)
<1>1. \E k \in DOMAIN e.tensors : e.tensors[k].name = n
  BY DEF Names
<1>2. PICK k \in DOMAIN e.tensors : Tensor(e, n) = e.tensors[k]
  BY <1>1 DEF Tensor
<1> QED
  BY <1>2 DEF EngineTyped, FormatTyped

LEMMA InputsAreNames ==
  ASSUME NEW e
  PROVE  /\ InputNames(e) \subseteq Names(e)
         /\ \A n : IsInput(e, n) <=> n \in InputNames(e)
         /\ \A n : IsShape(e, n) => n \in Names(e)
BY DEF InputNames, IsInput, IsShape

LEMMA ProfileTyped ==
  ASSUME NEW e, NEW cfg, Loadable(e, cfg), NEW c \in Contexts(cfg), NEW n \in InputNames(e)
  PROVE  /\ e.profiles[c][n].min \in Seq(Nat) /\ e.profiles[c][n].max \in Seq(Nat)
         /\ Len(e.profiles[c][n].min) = Len(e.profiles[c][n].max)
         /\ IsShape(e, n) =>
              /\ e.profiles[c][n].low \in Seq(Int) /\ e.profiles[c][n].high \in Seq(Int)
              /\ Len(e.profiles[c][n].low) = Len(e.profiles[c][n].high)
              /\ Len(e.profiles[c][n].high) = Volume(e.profiles[c][n].max)
<1>1. c \in DOMAIN e.profiles
  BY DEF Loadable, ProfilesExist
<1> QED
  BY <1>1 DEF Loadable, EngineTyped

LEMMA ContextsFinite ==
  ASSUME NEW cfg, ConfigTyped(cfg)
  PROVE  IsFiniteSet(Contexts(cfg)) /\ Contexts(cfg) # {}
<1> DEFINE p == cfg.profiles
           n == Len(p)
<1>1. n \in Nat /\ DOMAIN p = 1 .. n /\ p \in Seq(Nat) /\ (p # << >> => n # 0)
  BY EmptySeq DEF ConfigTyped
<1>2. Contexts(cfg) = IF p = << >> THEN {1} ELSE {p[k] : k \in 1 .. n}
  BY <1>1 DEF Contexts, ToSet
<1> HIDE DEF p, n
<1>3. CASE p = << >>
  BY <1>2, <1>3, FS_Singleton
<1>4. CASE p # << >>
  <2> DEFINE f == [k \in 1 .. n |-> p[k]]
             S == {p[k] : k \in 1 .. n}
  <2>1. f \in Surjection(1 .. n, S)
    BY DEF Surjection
  <2>2. IsFiniteSet(1 .. n)
    BY <1>1, FS_Interval
  <2>3. IsFiniteSet(S)
    <3> HIDE DEF f, S
    <3> QED
      BY <2>1, <2>2, FS_Surjection
  <2>4. 1 \in 1 .. n
    BY <1>1, <1>4
  <2>5. S # {}
    BY <2>4
  <2> QED
    BY <1>2, <1>4, <2>3, <2>5
<1> QED
  BY <1>3, <1>4

\* The hungriest context.
LEMMA LargestSize ==
  ASSUME NEW cfg, ConfigTyped(cfg), NEW sizes \in [Contexts(cfg) -> Int]
  PROVE  LET largest == Max({sizes[c] : c \in DOMAIN sizes})
         IN  largest \in Int /\ \A c \in Contexts(cfg) : sizes[c] <= largest
<1> DEFINE S == {sizes[c] : c \in Contexts(cfg)}
<1>1. sizes \in Surjection(Contexts(cfg), S)
  BY DEF Surjection
<1>2. IsFiniteSet(Contexts(cfg)) /\ Contexts(cfg) # {}
  BY ContextsFinite
<1>3. IsFiniteSet(S)
  <2> HIDE DEF S
  <2> QED
    BY <1>1, <1>2, FS_Surjection
<1>4. S # {} /\ S \subseteq Int /\ \A c \in Contexts(cfg) : sizes[c] \in S
  BY <1>2
<1>5. {sizes[c] : c \in DOMAIN sizes} = S
  OBVIOUS
<1> HIDE DEF S
<1>6. Max(S) \in S /\ \A y \in S : y <= Max(S)
  BY <1>3, <1>4, Extremes
<1> QED
  BY <1>4, <1>5, <1>6

-----------------------------------------------------------------------------
(***************************************************************************)
(* What the initialization maintains.  The largest shapes of a context     *)
(* only shrink, so that a buffer that had room for them when it was made   *)
(* has room for them in the end, whatever is pruned between, and so has    *)
(* the buffer of an output whose shape comes from an input.                *)
(***************************************************************************)
InfoRecords ==
  [allocated: BOOLEAN, dynamic: BOOLEAN, size: Int, ragged: BOOLEAN,
   batchInput: BOOLEAN, requested: BOOLEAN, state: BOOLEAN]

States(e, cfg) ==
  [ok: BOOLEAN,
   info: [BufferSets(cfg) -> [Names(e) -> InfoRecords]],
   max: [Contexts(cfg) -> [InputNames(e) -> Seq(Nat)]],
   given: [Contexts(cfg) -> SUBSET InputNames(e)],
   nb: [Contexts(cfg) -> Int]]

\* The values of a shape tensor, the elements of the largest shape otherwise.
InputSize(e, st, c, n) ==
  IF IsShape(e, n) THEN Volume(e.profiles[c][n].max)
  ELSE Volume(Padded(Tensor(e, n).format, st.max[c][n]))

HasRoom(e, cfg, st, s, n) ==
  LET info == st.info[s][n]
  IN  info.allocated =>
        \A c \in Contexts(cfg) :
          /\ n \in InputNames(e) => InputSize(e, st, c, n) <= info.size
          /\ n \notin InputNames(e) /\ ~IsShape(e, n) /\ ~info.dynamic =>
               /\ Tensor(e, n).from \in st.given[c]
               /\ GetFullByteSize(e, st, c, n) <= info.size

Good(e, cfg, st) ==
  /\ st \in States(e, cfg)
  /\ st.ok =>
       /\ \A c \in Contexts(cfg), n \in InputNames(e) :
            /\ Len(st.max[c][n]) = Len(e.profiles[c][n].max)
            /\ IsShape(e, n) => st.max[c][n] = e.profiles[c][n].max
       /\ \A s \in BufferSets(cfg), n \in Names(e) : HasRoom(e, cfg, st, s, n)

\* From st to after the largest shapes did not grow and no input was forgotten.
Shrinks(e, cfg, st, after) ==
  \A c \in Contexts(cfg) :
    /\ st.given[c] \subseteq after.given[c]
    /\ \A n \in InputNames(e) :
         /\ IsShape(e, n) => after.max[c][n] = st.max[c][n]
         /\ Len(after.max[c][n]) = Len(st.max[c][n])
         /\ \A d \in 1 .. Len(st.max[c][n]) : after.max[c][n][d] <= st.max[c][n][d]

\* What HasRoom reads of a tensor is unchanged.
SameBuffer(info, after) ==
  info.allocated = after.allocated /\ info.dynamic = after.dynamic /\ info.size = after.size

LEMMA OutputShapeTyped ==
  ASSUME NEW e, NEW cfg, Loadable(e, cfg), NEW st \in States(e, cfg),
         NEW c \in Contexts(cfg), NEW o \in Names(e)
  PROVE  OutputShape(e, st, c, o) \in Seq(Int) /\ GetFullByteSize(e, st, c, o) \in Int
<1>1. EngineTyped(e)
  BY DEF Loadable
<1>2. Tensor(e, o).dims \in Seq(Int) /\ FormatTyped(Tensor(e, o).format)
  BY <1>1, TensorTyped
<1> DEFINE from == Tensor(e, o).from
<1>3. from \in st.given[c] => from \in InputNames(e)
  BY DEF States
<1>4. from \in InputNames(e) => st.max[c][from] \in Seq(Int)
  <2>1. from \in InputNames(e) => st.max[c][from] \in Seq(Nat)
    BY DEF States
  <2> QED
    BY <2>1
<1>5. from \in InputNames(e) /\ IsShape(e, from) => e.profiles[c][from].high \in Seq(Int)
  BY ProfileTyped
<1>6. <<WILDCARD_DIM>> \in Seq(Int)
  BY DEF WILDCARD_DIM
<1>7. OutputShape(e, st, c, o) \in Seq(Int)
  BY <1>2, <1>3, <1>4, <1>5, <1>6 DEF OutputShape
<1>8. InVectors(Tensor(e, o).format, OutputShape(e, st, c, o)) \in Seq(Int)
  BY <1>2, <1>7, RoundedTyped
<1> QED
  BY <1>7, <1>8, VolumeIsInt DEF GetFullByteSize

LEMMA StateTyped ==
  ASSUME NEW e, NEW cfg, NEW st \in States(e, cfg)
  PROVE  /\ \A s \in BufferSets(cfg), n \in Names(e) : st.info[s][n] \in InfoRecords
         /\ \A c \in Contexts(cfg), n \in InputNames(e) : st.max[c][n] \in Seq(Nat)
         /\ \A c \in Contexts(cfg) : st.given[c] \subseteq InputNames(e)
BY DEF States

LEMMA InputSizeTyped ==
  ASSUME NEW e, NEW cfg, Loadable(e, cfg), NEW st \in States(e, cfg),
         NEW c \in Contexts(cfg), NEW n \in InputNames(e)
  PROVE  InputSize(e, st, c, n) \in Int
<1>1. EngineTyped(e) /\ n \in Names(e)
  BY InputsAreNames DEF Loadable
<1>2. FormatTyped(Tensor(e, n).format)
  BY <1>1, TensorTyped
<1>3. e.profiles[c][n].max \in Seq(Nat) /\ st.max[c][n] \in Seq(Nat)
  BY ProfileTyped, StateTyped
<1>4. e.profiles[c][n].max \in Seq(Int) /\ st.max[c][n] \in Seq(Int)
  BY <1>3
<1>5. Padded(Tensor(e, n).format, st.max[c][n]) \in Seq(Int)
  BY <1>2, <1>4, RoundedTyped
<1> QED
  BY <1>4, <1>5, VolumeIsInt DEF InputSize

\* Largest shapes that shrink take no more room, as inputs and as outputs.
LEMMA ShrunkSizes ==
  ASSUME NEW e, NEW cfg, Loadable(e, cfg), NEW st \in States(e, cfg), NEW after \in States(e, cfg),
         Shrinks(e, cfg, st, after), NEW c \in Contexts(cfg), NEW n \in InputNames(e),
         NEW f, FormatTyped(f)
  PROVE  /\ Volume(Padded(f, after.max[c][n])) <= Volume(Padded(f, st.max[c][n]))
         /\ Volume(InVectors(f, after.max[c][n])) <= Volume(InVectors(f, st.max[c][n]))
<1> DEFINE a == after.max[c][n]
           b == st.max[c][n]
<1>1. a \in Seq(Nat) /\ b \in Seq(Nat)
  BY StateTyped
<1>2. Len(a) = Len(b) /\ \A d \in 1 .. Len(b) : a[d] <= b[d]
  BY DEF Shrinks
<1> HIDE DEF a, b
<1>3. b \in Seq(Int) /\ \A d \in 1 .. Len(a) : a[d] <= b[d]
  BY <1>1, <1>2
<1>4. /\ Volume(Padded(f, a)) <= Volume(Padded(f, b))
      /\ Volume(InVectors(f, a)) <= Volume(InVectors(f, b))
  BY <1>1, <1>2, <1>3, RoundedVolumes
<1> QED
  BY <1>4 DEF a, b

LEMMA ShrinkRoom ==
  ASSUME NEW e, NEW cfg, Loadable(e, cfg), NEW st \in States(e, cfg), NEW after \in States(e, cfg),
         Shrinks(e, cfg, st, after), NEW s \in BufferSets(cfg), NEW n \in Names(e),
         SameBuffer(st.info[s][n], after.info[s][n]), HasRoom(e, cfg, st, s, n)
  PROVE  HasRoom(e, cfg, after, s, n)
<1> DEFINE size == after.info[s][n].size
<1> SUFFICES ASSUME after.info[s][n].allocated, NEW c \in Contexts(cfg)
             PROVE  /\ n \in InputNames(e) => InputSize(e, after, c, n) <= size
                    /\ n \notin InputNames(e) /\ ~IsShape(e, n) /\ ~after.info[s][n].dynamic =>
                         /\ Tensor(e, n).from \in after.given[c]
                         /\ GetFullByteSize(e, after, c, n) <= size
  BY DEF HasRoom
<1>1. size \in Int /\ st.info[s][n].size = size
  BY StateTyped DEF SameBuffer, InfoRecords
<1>2. /\ n \in InputNames(e) => InputSize(e, st, c, n) <= size
      /\ n \notin InputNames(e) /\ ~IsShape(e, n) /\ ~after.info[s][n].dynamic =>
           /\ Tensor(e, n).from \in st.given[c]
           /\ GetFullByteSize(e, st, c, n) <= size
  BY <1>1 DEF HasRoom, SameBuffer
<1>3. FormatTyped(Tensor(e, n).format)
  BY TensorTyped DEF Loadable
<1>4. ASSUME n \in InputNames(e)
      PROVE  InputSize(e, after, c, n) <= size
  <2>1. InputSize(e, after, c, n) \in Int /\ InputSize(e, st, c, n) \in Int
    BY <1>4, InputSizeTyped
  <2>2. InputSize(e, after, c, n) <= InputSize(e, st, c, n)
    <3>1. CASE IsShape(e, n)
      <4>1. InputSize(e, after, c, n) = InputSize(e, st, c, n)
        BY <3>1 DEF InputSize
      <4> QED
        BY <2>1, <4>1
    <3>2. CASE ~IsShape(e, n)
      BY <1>3, <1>4, <3>2, ShrunkSizes DEF InputSize
    <3> QED
      BY <3>1, <3>2
  <2> QED
    BY <1>1, <1>2, <1>4, <2>1, <2>2
<1>5. ASSUME n \notin InputNames(e), ~IsShape(e, n), ~after.info[s][n].dynamic
      PROVE  Tensor(e, n).from \in after.given[c] /\ GetFullByteSize(e, after, c, n) <= size
  <2> DEFINE from == Tensor(e, n).from
  <2>1. from \in st.given[c] /\ from \in after.given[c] /\ from \in InputNames(e)
    BY <1>2, <1>5, StateTyped DEF Shrinks
  <2>2. GetFullByteSize(e, after, c, n) \in Int /\ GetFullByteSize(e, st, c, n) \in Int
    BY OutputShapeTyped
  <2>3. GetFullByteSize(e, after, c, n) <= GetFullByteSize(e, st, c, n)
    <3>1. CASE IsShape(e, from)
      <4>1. GetFullByteSize(e, after, c, n) = GetFullByteSize(e, st, c, n)
        BY <1>5, <2>1, <3>1 DEF GetFullByteSize, OutputShape
      <4> QED
        BY <2>2, <4>1
    <3>2. CASE ~IsShape(e, from)
      <4>1. /\ OutputShape(e, after, c, n) = after.max[c][from]
            /\ OutputShape(e, st, c, n) = st.max[c][from]
        BY <1>5, <2>1, <3>2 DEF OutputShape
      <4> QED
        BY <1>3, <2>1, <4>1, ShrunkSizes DEF GetFullByteSize
    <3> QED
      BY <3>1, <3>2
  <2> QED
    BY <1>1, <1>2, <1>5, <2>1, <2>2, <2>3
<1> QED
  BY <1>4, <1>5

-----------------------------------------------------------------------------
(***************************************************************************)
(* The steps of the initialization keep it good.                           *)
(***************************************************************************)
\* A step that is about one tensor.
LEMMA GoodChange ==
  ASSUME NEW e, NEW cfg, Loadable(e, cfg), NEW st, Good(e, cfg, st), st.ok,
         NEW after \in States(e, cfg), Shrinks(e, cfg, st, after), NEW s, NEW n,
         \A t \in BufferSets(cfg), k \in Names(e) :
           t # s \/ k # n => SameBuffer(st.info[t][k], after.info[t][k]),
         s \in BufferSets(cfg) /\ n \in Names(e) =>
           SameBuffer(st.info[s][n], after.info[s][n]) \/ HasRoom(e, cfg, after, s, n)
  PROVE  Good(e, cfg, after)
<1>1. st \in States(e, cfg)
  BY DEF Good
<1>2. \A c \in Contexts(cfg), k \in InputNames(e) :
        /\ Len(after.max[c][k]) = Len(e.profiles[c][k].max)
        /\ IsShape(e, k) => after.max[c][k] = e.profiles[c][k].max
  BY DEF Good, Shrinks
<1>3. ASSUME NEW t \in BufferSets(cfg), NEW k \in Names(e)
      PROVE  HasRoom(e, cfg, after, t, k)
  <2>1. HasRoom(e, cfg, st, t, k)
    BY DEF Good
  <2>2. CASE SameBuffer(st.info[t][k], after.info[t][k])
    BY <1>1, <2>1, <2>2, ShrinkRoom
  <2>3. CASE ~SameBuffer(st.info[t][k], after.info[t][k])
    <3>1. t = s /\ k = n
      BY <2>3
    <3> QED
      BY <2>3, <3>1
  <2> QED
    BY <2>2, <2>3
<1> QED
  BY <1>2, <1>3 DEF Good

LEMMA RefusalGood ==
  ASSUME NEW e, NEW cfg, NEW st, Good(e, cfg, st)
  PROVE  Good(e, cfg, Refuse(st))
<1>1. st \in States(e, cfg) /\ Refuse(st) \in States(e, cfg) /\ ~Refuse(st).ok
  BY DEF Good, States, Refuse
<1> QED
  BY <1>1 DEF Good

\* The information about a tensor changes, and nothing else.
WithInfo(st, s, n, info) ==
  [st EXCEPT !.info = [st.info EXCEPT ![s] = [st.info[s] EXCEPT ![n] = info]]]

\* Of the tensor n of set s only.
InfoChange(e, cfg, st, after, s, n) ==
  /\ after \in States(e, cfg)
  /\ after.ok = st.ok /\ after.max = st.max /\ after.given = st.given /\ after.nb = st.nb
  /\ \A t \in BufferSets(cfg), k \in Names(e) :
       t # s \/ k # n => after.info[t][k] = st.info[t][k]

LEMMA InfoChanged ==
  ASSUME NEW e, NEW cfg, NEW st \in States(e, cfg), NEW s \in BufferSets(cfg), NEW n,
         NEW info, n \in Names(e) => info \in InfoRecords
  PROVE  /\ InfoChange(e, cfg, st, WithInfo(st, s, n, info), s, n)
         /\ n \in Names(e) => WithInfo(st, s, n, info).info[s][n] = info
<1> DEFINE after == WithInfo(st, s, n, info)
           row == [st.info[s] EXCEPT ![n] = info]
           infos == [st.info EXCEPT ![s] = row]
<1>1. /\ st.info \in [BufferSets(cfg) -> [Names(e) -> InfoRecords]]
      /\ st.info[s] \in [Names(e) -> InfoRecords]
  BY DEF States
<1>2. row \in [Names(e) -> InfoRecords]
  BY <1>1
<1>3. infos \in [BufferSets(cfg) -> [Names(e) -> InfoRecords]]
  BY <1>1, <1>2
<1>4. n \in Names(e) => row[n] = info
  BY <1>1
<1>5. \A k \in Names(e) : k # n => row[k] = st.info[s][k]
  BY <1>1
<1>6. infos[s] = row /\ \A t \in BufferSets(cfg) : t # s => infos[t] = st.info[t]
  BY <1>1
<1>7. after = [st EXCEPT !.info = infos]
  BY DEF WithInfo
<1> HIDE DEF after, infos, row
<1>8. after \in States(e, cfg)
  BY <1>3, <1>7 DEF States
<1>9. /\ after.ok = st.ok /\ after.max = st.max /\ after.given = st.given
      /\ after.nb = st.nb /\ after.info = infos
  BY <1>7 DEF States
<1>10. /\ InfoChange(e, cfg, st, after, s, n)
       /\ n \in Names(e) => after.info[s][n] = info
  BY <1>4, <1>5, <1>6, <1>8, <1>9 DEF InfoChange
<1> QED
  BY <1>10 DEF after

\* Allocate makes the buffer of one tensor as large as every context needs.
LEMMA AllocateEffect ==
  ASSUME NEW e, NEW cfg, Loadable(e, cfg), NEW st \in States(e, cfg),
         NEW s \in BufferSets(cfg), NEW n \in Names(e),
         NEW sizes \in [Contexts(cfg) -> Int], NEW ragged \in BOOLEAN,
         NEW after, after = Allocate(st, s, n, sizes, ragged)
  PROVE  /\ InfoChange(e, cfg, st, after, s, n)
         /\ after.info[s][n].allocated
         /\ \A c \in Contexts(cfg) : sizes[c] <= after.info[s][n].size
<1> DEFINE size == Max({sizes[c] : c \in DOMAIN sizes})
           a == [st EXCEPT !.info[s][n].allocated = TRUE]
           b == [a EXCEPT !.info[s][n].size = size]
<1>1. size \in Int /\ \A c \in Contexts(cfg) : sizes[c] <= size
  BY LargestSize DEF Loadable
<1>2. after = [b EXCEPT !.info[s][n].ragged = ragged]
  BY DEF Allocate
<1> HIDE DEF size
<1>3. b = [a EXCEPT !.info = [a.info EXCEPT ![s] = [a.info[s] EXCEPT ![n] =
                               [a.info[s][n] EXCEPT !.size = size]]]]
  OBVIOUS
<1> HIDE DEF b
<1>4. after = [b EXCEPT !.info = [b.info EXCEPT ![s] = [b.info[s] EXCEPT ![n] =
                                   [b.info[s][n] EXCEPT !.ragged = ragged]]]]
  BY <1>2
<1>5. a = [st EXCEPT !.info = [st.info EXCEPT ![s] = [st.info[s] EXCEPT ![n] =
                                 [st.info[s][n] EXCEPT !.allocated = TRUE]]]]
  OBVIOUS
<1> HIDE DEF a
<1>6. /\ InfoChange(e, cfg, st, a, s, n)
      /\ a.info[s][n] = [st.info[s][n] EXCEPT !.allocated = TRUE]
  <2>1. st \in States(e, cfg) /\ st.info[s][n] \in InfoRecords
    BY StateTyped DEF InfoChange
  <2> DEFINE r == [st.info[s][n] EXCEPT !.allocated = TRUE]
  <2>2. r \in InfoRecords
    BY <2>1 DEF InfoRecords
  <2>3. a = WithInfo(st, s, n, r)
    BY <1>5 DEF WithInfo
  <2> HIDE DEF r
  <2>4. InfoChange(e, cfg, st, WithInfo(st, s, n, r), s, n) /\ WithInfo(st, s, n, r).info[s][n] = r
    BY <2>1, <2>2, InfoChanged
  <2> QED
    BY <2>3, <2>4 DEF r
<1>7. /\ InfoChange(e, cfg, a, b, s, n)
      /\ b.info[s][n] = [a.info[s][n] EXCEPT !.size = size]
  <2>1. a \in States(e, cfg) /\ a.info[s][n] \in InfoRecords
    BY <1>6, StateTyped DEF InfoChange
  <2> DEFINE r == [a.info[s][n] EXCEPT !.size = size]
  <2>2. r \in InfoRecords
    BY <1>1, <2>1 DEF InfoRecords
  <2>3. b = WithInfo(a, s, n, r)
    BY <1>3 DEF WithInfo
  <2> HIDE DEF r
  <2>4. InfoChange(e, cfg, a, WithInfo(a, s, n, r), s, n) /\ WithInfo(a, s, n, r).info[s][n] = r
    BY <2>1, <2>2, InfoChanged
  <2> QED
    BY <2>3, <2>4 DEF r
<1>8. /\ InfoChange(e, cfg, b, after, s, n)
      /\ after.info[s][n] = [b.info[s][n] EXCEPT !.ragged = ragged]
  <2>1. b \in States(e, cfg) /\ b.info[s][n] \in InfoRecords
    BY <1>7, StateTyped DEF InfoChange
  <2> DEFINE r == [b.info[s][n] EXCEPT !.ragged = ragged]
  <2>2. r \in InfoRecords
    BY <2>1 DEF InfoRecords
  <2>3. after = WithInfo(b, s, n, r)
    BY <1>4 DEF WithInfo
  <2> HIDE DEF r
  <2>4. InfoChange(e, cfg, b, WithInfo(b, s, n, r), s, n) /\ WithInfo(b, s, n, r).info[s][n] = r
    BY <2>1, <2>2, InfoChanged
  <2> QED
    BY <2>3, <2>4 DEF r
<1>9. InfoChange(e, cfg, st, after, s, n)
  BY <1>6, <1>7, <1>8 DEF InfoChange
<1>10. after.info[s][n].allocated /\ after.info[s][n].size = size
  <2>1. /\ st.info[s][n] \in InfoRecords /\ a.info[s][n] \in InfoRecords
        /\ b.info[s][n] \in InfoRecords
    BY <1>6, <1>7, StateTyped DEF InfoChange
  <2>2. a.info[s][n].allocated /\ b.info[s][n].allocated /\ after.info[s][n].allocated
    BY <1>6, <1>7, <1>8, <2>1 DEF InfoRecords
  <2>3. b.info[s][n].size = size /\ after.info[s][n].size = size
    BY <1>7, <1>8, <2>1 DEF InfoRecords
  <2> QED
    BY <2>2, <2>3
<1> QED
  BY <1>1, <1>9, <1>10

\* Nothing shrinks and nothing is forgotten where nothing changes.
LEMMA ShrinksSame ==
  ASSUME NEW e, NEW cfg, NEW st \in States(e, cfg), NEW after, after.max = st.max,
         \A c \in Contexts(cfg) : st.given[c] \subseteq after.given[c]
  PROVE  Shrinks(e, cfg, st, after)
<1>1. \A c \in Contexts(cfg), n \in InputNames(e) :
        \A d \in 1 .. Len(st.max[c][n]) : st.max[c][n][d] \in Nat
  <2>1. \A m \in Seq(Nat) : \A d \in 1 .. Len(m) : m[d] \in Nat
    OBVIOUS
  <2> QED
    BY <2>1, StateTyped
<1>2. \A x \in Nat : x <= x
  OBVIOUS
<1> QED
  BY <1>1, <1>2 DEF Shrinks

\* Information that HasRoom does not read.
LEMMA FlagGood ==
  ASSUME NEW e, NEW cfg, Loadable(e, cfg), NEW st, Good(e, cfg, st), st.ok,
         NEW s \in BufferSets(cfg), NEW n, NEW r,
         n \in Names(e) => r \in InfoRecords /\ SameBuffer(st.info[s][n], r)
  PROVE  /\ Good(e, cfg, WithInfo(st, s, n, r))
         /\ InfoChange(e, cfg, st, WithInfo(st, s, n, r), s, n)
         /\ n \in Names(e) => WithInfo(st, s, n, r).info[s][n] = r
<1>1. st \in States(e, cfg)
  BY DEF Good
<1> DEFINE after == WithInfo(st, s, n, r)
<1>2. InfoChange(e, cfg, st, after, s, n) /\ (n \in Names(e) => after.info[s][n] = r)
  BY <1>1, InfoChanged
<1> HIDE DEF after
<1>3. after \in States(e, cfg) /\ after.max = st.max /\ after.given = st.given
  BY <1>2 DEF InfoChange
<1>4. Shrinks(e, cfg, st, after)
  BY <1>1, <1>3, ShrinksSame
<1>5. \A t \in BufferSets(cfg), k \in Names(e) : SameBuffer(st.info[t][k], after.info[t][k])
  BY <1>2 DEF InfoChange, SameBuffer
<1>6. Good(e, cfg, after)
  BY <1>3, <1>4, <1>5, GoodChange
<1> QED
  BY <1>2, <1>6 DEF after

LEMMA BatchOutputGood ==
  ASSUME NEW e, NEW cfg, Loadable(e, cfg), NEW st, Good(e, cfg, st), st.ok,
         NEW s \in BufferSets(cfg), NEW io
  PROVE  Good(e, cfg, InitializeBatchOutputBinding(e, st, s, io))
<1> DEFINE n == io.name
           r == [st.info[s][n] EXCEPT !.ragged = TRUE]
<1>1. st \in States(e, cfg)
  BY DEF Good
<1>2. n \in Names(e) => r \in InfoRecords /\ SameBuffer(st.info[s][n], r)
  <2>1. n \in Names(e) => st.info[s][n] \in InfoRecords
    BY <1>1, StateTyped
  <2> QED
    BY <2>1 DEF InfoRecords, SameBuffer
<1>3. \/ InitializeBatchOutputBinding(e, st, s, io) = Refuse(st)
      \/ InitializeBatchOutputBinding(e, st, s, io) = WithInfo(st, s, n, r)
  BY DEF InitializeBatchOutputBinding, WithInfo
<1> HIDE DEF n, r
<1>4. Good(e, cfg, Refuse(st)) /\ Good(e, cfg, WithInfo(st, s, n, r))
  BY <1>2, RefusalGood, FlagGood
<1> QED
  BY <1>3, <1>4

\* A buffer that Allocate made for a tensor that had none.
LEMMA AllocationGood ==
  ASSUME NEW e, NEW cfg, Loadable(e, cfg), NEW st, Good(e, cfg, st), st.ok,
         NEW mid \in States(e, cfg), Shrinks(e, cfg, st, mid),
         NEW s \in BufferSets(cfg), NEW n \in Names(e),
         \A t \in BufferSets(cfg), k \in Names(e) :
           t # s \/ k # n => mid.info[t][k] = st.info[t][k],
         NEW sizes \in [Contexts(cfg) -> Int], NEW ragged \in BOOLEAN,
         \A c \in Contexts(cfg) :
           /\ n \in InputNames(e) => sizes[c] = InputSize(e, mid, c, n)
           /\ n \notin InputNames(e) /\ ~IsShape(e, n) =>
                /\ Tensor(e, n).from \in mid.given[c]
                /\ sizes[c] = GetFullByteSize(e, mid, c, n)
  PROVE  Good(e, cfg, Allocate(mid, s, n, sizes, ragged))
<1> DEFINE after == Allocate(mid, s, n, sizes, ragged)
<1>1. /\ InfoChange(e, cfg, mid, after, s, n)
      /\ \A c \in Contexts(cfg) : sizes[c] <= after.info[s][n].size
  BY AllocateEffect
<1> HIDE DEF after
<1>2. after \in States(e, cfg) /\ after.max = mid.max /\ after.given = mid.given
  BY <1>1 DEF InfoChange
<1>3. Shrinks(e, cfg, st, after)
  BY <1>2 DEF Shrinks
<1>4. \A t \in BufferSets(cfg), k \in Names(e) :
        t # s \/ k # n => SameBuffer(st.info[t][k], after.info[t][k])
  BY <1>1 DEF InfoChange, SameBuffer
<1>5. \A c \in Contexts(cfg) :
        /\ InputSize(e, after, c, n) = InputSize(e, mid, c, n)
        /\ GetFullByteSize(e, after, c, n) = GetFullByteSize(e, mid, c, n)
  BY <1>2 DEF InputSize, GetFullByteSize, OutputShape
<1>6. HasRoom(e, cfg, after, s, n)
  BY <1>1, <1>2, <1>5 DEF HasRoom
<1>7. Good(e, cfg, after)
  BY <1>2, <1>3, <1>4, <1>6, GoodChange
<1> QED
  BY <1>7 DEF after

LEMMA ShapeInputGood ==
  ASSUME NEW e, NEW cfg, Loadable(e, cfg), NEW st, Good(e, cfg, st), st.ok,
         NEW s \in BufferSets(cfg), NEW io
  PROVE  Good(e, cfg, InitializeShapeInputBinding(e, cfg, st, s, io))
<1> DEFINE n == io.name
           values == [c \in Contexts(cfg) |-> Volume(st.max[c][n])]
           given == [c \in Contexts(cfg) |-> st.given[c] \cup {n}]
           seen == [st EXCEPT !.given = given, !.nb = values]
<1>0. st \in States(e, cfg)
  BY DEF Good
<1>1. Good(e, cfg, Refuse(st))
  BY RefusalGood
<1>2. ASSUME IsInput(e, n), IsShape(e, n)
      PROVE  Good(e, cfg, seen) /\ Good(e, cfg, Allocate(seen, s, n, values, FALSE))
  <2>1. n \in InputNames(e) /\ n \in Names(e)
    BY <1>2, InputsAreNames
  <2>2. \A c \in Contexts(cfg) : values[c] = Volume(e.profiles[c][n].max) /\ values[c] \in Int
    <3>1. TAKE c \in Contexts(cfg)
    <3>2. st.max[c][n] = e.profiles[c][n].max
      BY <1>2, <2>1 DEF Good
    <3>3. st.max[c][n] \in Seq(Nat)
      BY <1>0, <2>1, StateTyped
    <3>4. st.max[c][n] \in Seq(Int)
      BY <3>3
    <3> QED
      BY <3>2, <3>4, VolumeIsInt
  <2>3. values \in [Contexts(cfg) -> Int]
    BY <2>2
  <2>4. given \in [Contexts(cfg) -> SUBSET InputNames(e)]
    BY <1>0, <2>1, StateTyped
  <2> HIDE DEF values, given
  <2>5. /\ seen \in States(e, cfg) /\ seen.max = st.max /\ seen.given = given
        /\ seen.info = st.info /\ seen.ok = st.ok
    BY <1>0, <2>3, <2>4 DEF States
  <2> HIDE DEF seen
  <2>6. Shrinks(e, cfg, st, seen)
    BY <1>0, <2>5, ShrinksSame DEF given
  <2>7. Good(e, cfg, seen)
    BY <2>5, <2>6, GoodChange DEF SameBuffer
  <2>8. \A c \in Contexts(cfg) : values[c] = InputSize(e, seen, c, n)
    BY <1>2, <2>2 DEF InputSize
  <2>9. \A t \in BufferSets(cfg), k \in Names(e) :
          t # s \/ k # n => seen.info[t][k] = st.info[t][k]
    BY <2>5
  <2>10. Good(e, cfg, Allocate(seen, s, n, values, FALSE))
    BY <2>1, <2>3, <2>5, <2>6, <2>8, <2>9, AllocationGood
  <2> QED
    BY <2>7, <2>10
<1>3. LET result == InitializeShapeInputBinding(e, cfg, st, s, io)
      IN  \/ result = Refuse(st) \/ result = st
          \/ /\ IsInput(e, n) /\ IsShape(e, n)
             /\ result = seen \/ result = Allocate(seen, s, n, values, FALSE)
  BY DEF InitializeShapeInputBinding
<1> HIDE DEF n, values, given, seen
<1> QED
  BY <1>1, <1>2, <1>3

\* An output that is bound, either to the output allocator or to a buffer for
\* the largest shape TensorRT knows.
LEMMA BindGood ==
  ASSUME NEW e, NEW cfg, Loadable(e, cfg), NEW st, Good(e, cfg, st), st.ok,
         NEW s \in BufferSets(cfg), NEW n \in Names(e), n \notin InputNames(e),
         NEW dynamic, IsShape(e, n) \/ dynamic = UnresolvedOutput(e, cfg, st, n)
  PROVE  Good(e, cfg, BindOutput(e, cfg, st, s, n, dynamic))
<1>0. st \in States(e, cfg)
  BY DEF Good
<1>1. CASE dynamic
  <2> DEFINE a == [st EXCEPT !.info[s][n].allocated = TRUE]
             b == [a EXCEPT !.info[s][n].dynamic = TRUE]
             r == [st.info[s][n] EXCEPT !.allocated = TRUE]
             q == [a.info[s][n] EXCEPT !.dynamic = TRUE]
  <2>1. BindOutput(e, cfg, st, s, n, dynamic) = b
    BY <1>1 DEF BindOutput
  <2>2. b = WithInfo(a, s, n, q)
    BY DEF WithInfo
  <2>3. a = WithInfo(st, s, n, r)
    BY DEF WithInfo
  <2> HIDE DEF a, b
  <2>4. st.info[s][n] \in InfoRecords
    BY <1>0, StateTyped
  <2>5. r \in InfoRecords
    BY <2>4 DEF InfoRecords
  <2> HIDE DEF r
  <2>6. InfoChange(e, cfg, st, a, s, n) /\ a \in States(e, cfg)
    <3>1. InfoChange(e, cfg, st, WithInfo(st, s, n, r), s, n)
      BY <1>0, <2>5, InfoChanged
    <3> QED
      BY <2>3, <3>1 DEF InfoChange
  <2>7. a.info[s][n] \in InfoRecords
    BY <2>6, StateTyped
  <2>8. q \in InfoRecords /\ q.dynamic
    BY <2>7 DEF InfoRecords
  <2> HIDE DEF q
  <2>9. InfoChange(e, cfg, a, b, s, n) /\ b.info[s][n] = q
    BY <2>2, <2>6, <2>8, InfoChanged
  <2>10. InfoChange(e, cfg, st, b, s, n)
    BY <2>6, <2>9 DEF InfoChange
  <2>11. b \in States(e, cfg) /\ b.max = st.max /\ b.given = st.given
    BY <2>10 DEF InfoChange
  <2>12. Shrinks(e, cfg, st, b)
    BY <1>0, <2>11, ShrinksSame
  <2>13. HasRoom(e, cfg, b, s, n)
    BY <2>8, <2>9 DEF HasRoom
  <2>14. \A t \in BufferSets(cfg), k \in Names(e) :
           t # s \/ k # n => SameBuffer(st.info[t][k], b.info[t][k])
    BY <2>10 DEF InfoChange, SameBuffer
  <2> QED
    BY <2>1, <2>11, <2>12, <2>13, <2>14, GoodChange
<1>2. CASE ~dynamic
  <2> DEFINE sizes == [c \in Contexts(cfg) |-> GetFullByteSize(e, st, c, n)]
  <2>1. BindOutput(e, cfg, st, s, n, dynamic) = Allocate(st, s, n, sizes, st.info[s][n].ragged)
    BY <1>2 DEF BindOutput
  <2>2. \A c \in Contexts(cfg) : GetFullByteSize(e, st, c, n) \in Int
    BY <1>0, OutputShapeTyped
  <2>3. sizes \in [Contexts(cfg) -> Int]
    BY <2>2
  <2>4. st.info[s][n].ragged \in BOOLEAN
    BY <1>0, StateTyped DEF InfoRecords
  <2>5. ASSUME NEW c \in Contexts(cfg), ~IsShape(e, n)
        PROVE  Tensor(e, n).from \in st.given[c]
    <3>1. ~ContainsWildcard(OutputShape(e, st, c, n))
      BY <1>2, <2>5 DEF UnresolvedOutput
    <3>2. ContainsWildcard(<<WILDCARD_DIM>>)
      <4>1. 1 \in DOMAIN <<WILDCARD_DIM>> /\ <<WILDCARD_DIM>>[1] = WILDCARD_DIM
        OBVIOUS
      <4> QED
        BY <4>1 DEF ContainsWildcard
    <3> QED
      BY <2>5, <3>1, <3>2 DEF OutputShape
  <2>6. \A c \in Contexts(cfg) : sizes[c] = GetFullByteSize(e, st, c, n)
    OBVIOUS
  <2> HIDE DEF sizes
  <2>7. Shrinks(e, cfg, st, st)
    BY <1>0, ShrinksSame
  <2>8. Good(e, cfg, Allocate(st, s, n, sizes, st.info[s][n].ragged))
    BY <1>0, <2>3, <2>4, <2>5, <2>6, <2>7, AllocationGood
  <2> QED
    BY <2>1, <2>8
<1> QED
  BY <1>1, <1>2

LEMMA ExecuteOutputGood ==
  ASSUME NEW e, NEW cfg, Loadable(e, cfg), NEW st, Good(e, cfg, st), st.ok,
         NEW s \in BufferSets(cfg), NEW io
  PROVE  Good(e, cfg, InitializeExecuteOutputBinding(e, cfg, st, s, io))
<1> DEFINE n == io.name
           named == IF io.role = "state" THEN [st EXCEPT !.info[s][n].state = TRUE]
                    ELSE [st EXCEPT !.info[s][n].requested = TRUE]
           bound == BindOutput(e, cfg, named, s, n, UnresolvedOutput(e, cfg, st, n))
<1>0. st \in States(e, cfg)
  BY DEF Good
<1>1. Good(e, cfg, Refuse(st))
  BY RefusalGood
<1>2. ASSUME n \in Names(e)
      PROVE  /\ Good(e, cfg, named)
             /\ named.ok = st.ok /\ named.max = st.max /\ named.given = st.given
  <2> DEFINE r == IF io.role = "state" THEN [st.info[s][n] EXCEPT !.state = TRUE]
                  ELSE [st.info[s][n] EXCEPT !.requested = TRUE]
  <2>1. st.info[s][n] \in InfoRecords
    BY <1>0, <1>2, StateTyped
  <2>2. r \in InfoRecords /\ SameBuffer(st.info[s][n], r)
    BY <2>1 DEF InfoRecords, SameBuffer
  <2>3. named = WithInfo(st, s, n, r)
    BY DEF WithInfo
  <2> HIDE DEF r, named
  <2>4. Good(e, cfg, WithInfo(st, s, n, r)) /\ InfoChange(e, cfg, st, WithInfo(st, s, n, r), s, n)
    BY <2>2, FlagGood
  <2> QED
    BY <2>3, <2>4 DEF InfoChange
<1>3. ASSUME n \in Names(e), ~Tensor(e, n).input
      PROVE  Good(e, cfg, bound)
  <2>1. n \notin InputNames(e)
    BY <1>3 DEF InputNames, IsInput
  <2>2. Good(e, cfg, named) /\ named.ok
    BY <1>2, <1>3
  <2>3. UnresolvedOutput(e, cfg, named, n) = UnresolvedOutput(e, cfg, st, n)
    BY <1>2, <1>3 DEF UnresolvedOutput, OutputShape
  <2> HIDE DEF n, named
  <2> QED
    BY <1>3, <2>1, <2>2, <2>3, BindGood
<1>4. LET result == InitializeExecuteOutputBinding(e, cfg, st, s, io)
      IN  \/ result = Refuse(st) \/ result = st
          \/ n \in Names(e) /\ result = named
          \/ n \in Names(e) /\ ~Tensor(e, n).input /\ result = bound
  BY DEF InitializeExecuteOutputBinding, ExecuteOutputAccepted
<1> HIDE DEF n, named, bound
<1> QED
  BY <1>1, <1>2, <1>3, <1>4

LEMMA ShapeOutputGood ==
  ASSUME NEW e, NEW cfg, Loadable(e, cfg), NEW st, Good(e, cfg, st), st.ok,
         NEW s \in BufferSets(cfg), NEW io, io.shape => IsShape(e, io.name)
  PROVE  Good(e, cfg, InitializeShapeOutputBinding(e, cfg, st, s, io))
<1> DEFINE n == io.name
           bound == BindOutput(e, cfg, st, s, n, ContainsWildcard(Tensor(e, n).dims))
<1>1. Good(e, cfg, Refuse(st))
  BY RefusalGood
<1>2. ASSUME io.shape, ~IsInput(e, n)
      PROVE  Good(e, cfg, bound)
  <2>1. IsShape(e, n) /\ n \in Names(e) /\ n \notin InputNames(e)
    BY <1>2, InputsAreNames
  <2> QED
    BY <2>1, BindGood
<1>3. LET result == InitializeShapeOutputBinding(e, cfg, st, s, io)
      IN  \/ result = Refuse(st) \/ result = st
          \/ io.shape /\ ~IsInput(e, n) /\ result = bound
  BY DEF InitializeShapeOutputBinding
<1> HIDE DEF n, bound
<1> QED
  BY <1>1, <1>2, <1>3

LEMMA MinOfTwo ==
  ASSUME NEW a \in Int, NEW b \in Int
  PROVE  Min({a, b}) \in Int /\ Min({a, b}) <= a /\ Min({a, b}) \in {a, b}
<1>1. IsFiniteSet({a, b}) /\ {a, b} # {} /\ {a, b} \subseteq Int
  <2>1. IsFiniteSet({a})
    BY FS_Singleton
  <2>2. IsFiniteSet({a} \cup {b})
    BY <2>1, FS_AddElement
  <2>3. {a, b} = {a} \cup {b}
    OBVIOUS
  <2> QED
    BY <2>2, <2>3
<1>2. Min({a, b}) \in {a, b} /\ \A y \in {a, b} : Min({a, b}) <= y
  BY <1>1, Extremes
<1> QED
  BY <1>2

\* The configuration prunes the largest shape and never enlarges it.
LEMMA MaximumDimsShrink ==
  ASSUME NEW cfg, NEW min \in Seq(Nat), NEW max \in Seq(Nat), Len(min) = Len(max),
         NEW full \in Seq(Int), ConfigureInputDimensions(cfg, min, max, full)
  PROVE  /\ MaximumDims(cfg, max, full) \in Seq(Nat)
         /\ Len(MaximumDims(cfg, max, full)) = Len(max)
         /\ \A d \in 1 .. Len(max) : MaximumDims(cfg, max, full)[d] <= max[d]
<1> DEFINE checked == IF Batching(cfg) THEN [full EXCEPT ![1] = WILDCARD_DIM] ELSE full
           top == MaximumDims(cfg, max, full)
           n == Len(max)
<1>1. /\ n \in Nat /\ DOMAIN max = 1 .. n /\ DOMAIN min = 1 .. n
      /\ \A d \in 1 .. n : max[d] \in Nat /\ min[d] \in Nat
  OBVIOUS
<1>2. /\ Len(checked) = n
      /\ \A d \in DOMAIN checked : checked[d] = WILDCARD_DIM \/ checked[d] \in min[d] .. max[d]
      /\ \A d \in 1 .. n : top[d] >= min[d]
  BY DEF ConfigureInputDimensions, ValidateDimension
<1>3. /\ DOMAIN checked = DOMAIN full /\ Len(checked) = Len(full)
      /\ \A d \in DOMAIN full : (d = 1 /\ Batching(cfg)) \/ checked[d] = full[d]
  <2>1. CASE Batching(cfg)
    <3>1. checked = [d \in 1 .. Len(full) |-> IF d = 1 THEN WILDCARD_DIM ELSE full[d]]
      BY <2>1, SeqExcept
    <3> QED
      BY <2>1, <3>1
  <2>2. CASE ~Batching(cfg)
    BY <2>2
  <2> QED
    BY <2>1, <2>2
<1>4. DOMAIN full = 1 .. n /\ \A d \in 1 .. n : full[d] \in Int
  BY <1>2, <1>3
<1>5. ASSUME NEW d \in 1 .. n
      PROVE  top[d] \in Nat /\ top[d] <= max[d]
  <2>0. top[d] = IF full[d] = WILDCARD_DIM THEN max[d]
                 ELSE IF d = 1 /\ Batching(cfg) THEN Min({max[d], full[d]})
                 ELSE full[d]
    BY <1>1 DEF MaximumDims
  <2>1. CASE full[d] = WILDCARD_DIM
    BY <1>1, <2>0, <2>1
  <2>2. CASE full[d] # WILDCARD_DIM /\ d = 1 /\ Batching(cfg)
    <3>0. max[d] \in Int /\ full[d] \in Int
      BY <1>1, <1>4
    <3> DEFINE least == Min({max[d], full[d]})
    <3>3. least \in Int /\ least <= max[d]
      BY <3>0, MinOfTwo
    <3>4. top[d] = least
      BY <2>0, <2>2
    <3> HIDE DEF least
    <3>1. top[d] \in Int /\ top[d] <= max[d]
      BY <3>3, <3>4
    <3>2. top[d] >= min[d] /\ min[d] \in Nat
      BY <1>1, <1>2
    <3> QED
      BY <3>1, <3>2
  <2>3. CASE full[d] # WILDCARD_DIM /\ ~(d = 1 /\ Batching(cfg))
    <3>1. top[d] = full[d] /\ checked[d] = full[d]
      BY <1>3, <1>4, <2>0, <2>3
    <3>2. full[d] \in min[d] .. max[d]
      BY <1>2, <1>3, <1>4, <2>3, <3>1
    <3> QED
      BY <1>1, <3>1, <3>2
  <2> QED
    BY <2>1, <2>2, <2>3
<1>6. top = [d \in 1 .. n |-> top[d]]
  BY <1>1 DEF MaximumDims
<1> HIDE DEF top, checked
<1>7. top \in Seq(Nat) /\ Len(top) = n
  BY <1>1, <1>5, <1>6
<1> QED
  BY <1>5, <1>7 DEF top

LEMMA ExecuteInputGood ==
  ASSUME NEW e, NEW cfg, Loadable(e, cfg), NEW st, Good(e, cfg, st), st.ok,
         NEW s \in BufferSets(cfg), NEW io, io.ragged \in BOOLEAN,
         FullConfigDims(cfg, io) \in Seq(Int)
  PROVE  Good(e, cfg, InitializeExecuteInputBinding(e, cfg, st, s, io))
<1> DEFINE n == io.name
           full == FullConfigDims(cfg, io)
           max == [c \in Contexts(cfg) |-> MaximumDims(cfg, st.max[c][n], full)]
           newMax == [c \in Contexts(cfg) |-> [st.max[c] EXCEPT ![n] = max[c]]]
           newGiven == [c \in Contexts(cfg) |-> st.given[c] \cup {n}]
           batch == (io.role = "batch")
           pruned == [st EXCEPT !.max = newMax, !.given = newGiven]
           bound == [pruned EXCEPT !.info[s][n].batchInput = batch]
           sizes == [c \in Contexts(cfg) |-> Volume(Padded(Tensor(e, n).format, max[c]))]
           made == Allocate(bound, s, n, sizes, io.ragged)
<1>0. st \in States(e, cfg)
  BY DEF Good
<1>1. Good(e, cfg, Refuse(st))
  BY RefusalGood
<1>2. ASSUME ~IsShape(e, n), n \in InputNames(e), n \in Names(e),
             \A c \in Contexts(cfg) :
               ConfigureInputDimensions(cfg, e.profiles[c][n].min, st.max[c][n], full)
      PROVE  Good(e, cfg, made)
  <2>1. \A c \in Contexts(cfg) :
          /\ max[c] \in Seq(Nat) /\ Len(max[c]) = Len(st.max[c][n])
          /\ \A d \in 1 .. Len(st.max[c][n]) : max[c][d] <= st.max[c][n][d]
    <3>1. TAKE c \in Contexts(cfg)
    <3>2. st.max[c][n] \in Seq(Nat)
      BY <1>0, <1>2, StateTyped
    <3>3. e.profiles[c][n].min \in Seq(Nat) /\ Len(e.profiles[c][n].min) = Len(st.max[c][n])
      BY <1>2, ProfileTyped DEF Good
    <3>4. ConfigureInputDimensions(cfg, e.profiles[c][n].min, st.max[c][n], full)
      BY <1>2
    <3>5. max[c] = MaximumDims(cfg, st.max[c][n], full)
      OBVIOUS
    <3>6. full \in Seq(Int)
      OBVIOUS
    <3> DEFINE lo == e.profiles[c][n].min
               hi == st.max[c][n]
    <3> HIDE DEF max, full, lo, hi
    <3>7. /\ lo \in Seq(Nat) /\ hi \in Seq(Nat) /\ Len(lo) = Len(hi)
          /\ ConfigureInputDimensions(cfg, lo, hi, full)
      BY <3>2, <3>3, <3>4 DEF lo, hi
    <3>8. /\ MaximumDims(cfg, hi, full) \in Seq(Nat)
          /\ Len(MaximumDims(cfg, hi, full)) = Len(hi)
          /\ \A d \in 1 .. Len(hi) : MaximumDims(cfg, hi, full)[d] <= hi[d]
      BY <3>6, <3>7, MaximumDimsShrink
    <3> QED
      BY <3>5, <3>8 DEF hi
  <2>2. newMax \in [Contexts(cfg) -> [InputNames(e) -> Seq(Nat)]]
    <3>1. \A c \in Contexts(cfg) : st.max[c] \in [InputNames(e) -> Seq(Nat)] /\ max[c] \in Seq(Nat)
      BY <1>0, <2>1 DEF States
    <3> HIDE DEF max
    <3> QED
      BY <3>1
  <2>3. \A c \in Contexts(cfg) :
          /\ newMax[c][n] = max[c]
          /\ \A k \in InputNames(e) : k # n => newMax[c][k] = st.max[c][k]
    <3>1. \A c \in Contexts(cfg) : st.max[c] \in [InputNames(e) -> Seq(Nat)]
      BY <1>0 DEF States
    <3> HIDE DEF max
    <3> QED
      BY <1>2, <3>1
  <2>4. newGiven \in [Contexts(cfg) -> SUBSET InputNames(e)]
    BY <1>0, <1>2, StateTyped
  <2>5. \A c \in Contexts(cfg) : st.given[c] \subseteq newGiven[c]
    OBVIOUS
  <2>6. \A c \in Contexts(cfg) : sizes[c] = Volume(Padded(Tensor(e, n).format, max[c]))
    OBVIOUS
  <2>7. made = Allocate(bound, s, n, sizes, io.ragged)
    OBVIOUS
  <2>8. batch \in BOOLEAN
    OBVIOUS
  <2> HIDE DEF made, sizes, newGiven, newMax, max, full, batch
  <2>9. /\ pruned \in States(e, cfg) /\ pruned.max = newMax /\ pruned.given = newGiven
        /\ pruned.info = st.info
    BY <1>0, <2>2, <2>4 DEF States
  <2> DEFINE r == [pruned.info[s][n] EXCEPT !.batchInput = batch]
  <2>10. bound = WithInfo(pruned, s, n, r)
    BY DEF WithInfo
  <2> HIDE DEF pruned, bound
  <2>11. r \in InfoRecords
    <3>1. pruned.info[s][n] \in InfoRecords
      BY <1>2, <2>9, StateTyped
    <3> QED
      BY <2>8, <3>1 DEF InfoRecords
  <2> HIDE DEF r
  <2>12. InfoChange(e, cfg, pruned, bound, s, n)
    <3>1. InfoChange(e, cfg, pruned, WithInfo(pruned, s, n, r), s, n)
      BY <2>9, <2>11, InfoChanged
    <3> QED
      BY <2>10, <3>1
  <2>13. bound \in States(e, cfg) /\ bound.max = newMax /\ bound.given = newGiven
    BY <2>9, <2>12 DEF InfoChange
  <2>14. Shrinks(e, cfg, st, bound)
    <3>1. Shrinks(e, cfg, st, st)
      BY <1>0, ShrinksSame
    <3> SUFFICES ASSUME NEW c \in Contexts(cfg), NEW k \in InputNames(e)
                 PROVE  /\ IsShape(e, k) => bound.max[c][k] = st.max[c][k]
                        /\ Len(bound.max[c][k]) = Len(st.max[c][k])
                        /\ \A d \in 1 .. Len(st.max[c][k]) : bound.max[c][k][d] <= st.max[c][k][d]
      BY <2>5, <2>13 DEF Shrinks
    <3>2. CASE k = n
      BY <1>2, <2>1, <2>3, <2>13, <3>2
    <3>3. CASE k # n
      <4>1. bound.max[c][k] = st.max[c][k]
        BY <2>3, <2>13, <3>3
      <4> QED
        BY <3>1, <4>1 DEF Shrinks
    <3> QED
      BY <3>2, <3>3
  <2>15. \A t \in BufferSets(cfg), k \in Names(e) :
           t # s \/ k # n => bound.info[t][k] = st.info[t][k]
    BY <2>9, <2>12 DEF InfoChange
  <2>16. \A c \in Contexts(cfg) : sizes[c] = InputSize(e, bound, c, n)
    BY <1>2, <2>3, <2>6, <2>13 DEF InputSize
  <2>17. sizes \in [Contexts(cfg) -> Int]
    <3>1. \A c \in Contexts(cfg) : sizes[c] \in Int
      BY <1>2, <2>13, <2>16, InputSizeTyped
    <3> QED
      BY <3>1 DEF sizes
  <2> HIDE DEF n
  <2>18. Good(e, cfg, Allocate(bound, s, n, sizes, io.ragged))
    BY <1>2, <2>13, <2>14, <2>15, <2>16, <2>17, AllocationGood
  <2> QED
    BY <2>7, <2>18
<1>3. LET result == InitializeExecuteInputBinding(e, cfg, st, s, io)
      IN  \/ result = Refuse(st) \/ result = st
          \/ /\ ~ExecuteInputSkipped(e, st, s, io)
             /\ ExecuteInputAccepted(e, cfg, st, s, io)
             /\ result = made
  BY DEF InitializeExecuteInputBinding
<1>4. ~ExecuteInputSkipped(e, st, s, io) /\ ExecuteInputAccepted(e, cfg, st, s, io) =>
        /\ ~IsShape(e, n) /\ n \in InputNames(e) /\ n \in Names(e)
        /\ \A c \in Contexts(cfg) :
             ConfigureInputDimensions(cfg, e.profiles[c][n].min, st.max[c][n], full)
  BY InputsAreNames DEF ExecuteInputSkipped, ExecuteInputAccepted
<1> HIDE DEF made, n, full
<1> QED
  BY <1>1, <1>2, <1>3, <1>4

-----------------------------------------------------------------------------
(***************************************************************************)
(* What InitIOBindingBuffers goes through.                                 *)
(***************************************************************************)
IOStep(e, cfg, step) ==
  /\ step.set \in BufferSets(cfg)
  /\ step.kind \in {"shape input", "input", "batch output", "shape output", "output"}
  /\ step.kind = "input" =>
       step.io.ragged \in BOOLEAN /\ FullConfigDims(cfg, step.io) \in Seq(Int)
  /\ step.kind = "shape output" /\ step.io.shape => IsShape(e, step.io.name)

IOSteps(e, cfg, steps) ==
  steps \in Seq(ToSet(steps)) /\ \A k \in DOMAIN steps : IOStep(e, cfg, steps[k])

LEMMA StepGood ==
  ASSUME NEW e, NEW cfg, Loadable(e, cfg), NEW st, Good(e, cfg, st), st.ok,
         NEW step, IOStep(e, cfg, step)
  PROVE  Good(e, cfg, Initialize(e, cfg, st, step))
<1> DEFINE s == step.set
           io == step.io
<1>1. /\ s \in BufferSets(cfg)
      /\ step.kind \in {"shape input", "input", "batch output", "shape output", "output"}
      /\ step.kind = "input" => io.ragged \in BOOLEAN /\ FullConfigDims(cfg, io) \in Seq(Int)
      /\ step.kind = "shape output" => (io.shape => IsShape(e, io.name))
  BY DEF IOStep
<1>2. CASE step.kind = "shape input"
  <2>1. Initialize(e, cfg, st, step) = InitializeShapeInputBinding(e, cfg, st, s, io)
    BY <1>2 DEF Initialize
  <2> HIDE DEF s, io
  <2> QED
    BY <1>1, <2>1, ShapeInputGood
<1>3. CASE step.kind = "input"
  <2>1. Initialize(e, cfg, st, step) = InitializeExecuteInputBinding(e, cfg, st, s, io)
    BY <1>3 DEF Initialize
  <2> HIDE DEF s, io
  <2> QED
    BY <1>1, <1>3, <2>1, ExecuteInputGood
<1>4. CASE step.kind = "batch output"
  <2>1. Initialize(e, cfg, st, step) = InitializeBatchOutputBinding(e, st, s, io)
    BY <1>4 DEF Initialize
  <2> HIDE DEF s, io
  <2> QED
    BY <1>1, <2>1, BatchOutputGood
<1>5. CASE step.kind = "shape output"
  <2>1. Initialize(e, cfg, st, step) = InitializeShapeOutputBinding(e, cfg, st, s, io)
    BY <1>5 DEF Initialize
  <2> HIDE DEF s, io
  <2> QED
    BY <1>1, <1>5, <2>1, ShapeOutputGood
<1>6. CASE step.kind = "output"
  <2>1. Initialize(e, cfg, st, step) = InitializeExecuteOutputBinding(e, cfg, st, s, io)
    BY <1>6 DEF Initialize
  <2> HIDE DEF s, io
  <2> QED
    BY <1>1, <2>1, ExecuteOutputGood
<1> QED
  BY <1>1, <1>2, <1>3, <1>4, <1>5, <1>6

LEMMA SeqOfOwn ==
  ASSUME NEW T, NEW p \in Seq(T)
  PROVE  p \in Seq(ToSet(p)) /\ ToSet(p) \subseteq T
<1>1. DOMAIN p = 1 .. Len(p) /\ Len(p) \in Nat /\ \A k \in 1 .. Len(p) : p[k] \in T
  OBVIOUS
<1>2. ToSet(p) \subseteq T /\ \A k \in 1 .. Len(p) : p[k] \in ToSet(p)
  BY <1>1 DEF ToSet
<1>3. p = [k \in 1 .. Len(p) |-> p[k]]
  OBVIOUS
<1> HIDE DEF ToSet
<1>4. p \in Seq(ToSet(p))
  BY <1>1, <1>2, <1>3
<1> QED
  BY <1>2, <1>4

LEMMA StepsOfAll ==
  ASSUME NEW e, NEW cfg, NEW steps, NEW T, steps \in Seq(T), \A step \in T : IOStep(e, cfg, step)
  PROVE  IOSteps(e, cfg, steps)
<1>1. \A k \in DOMAIN steps : steps[k] \in T
  OBVIOUS
<1> QED
  BY <1>1, SeqOfOwn DEF IOSteps

LEMMA StepsConcat ==
  ASSUME NEW e, NEW cfg, NEW a, NEW b, IOSteps(e, cfg, a), IOSteps(e, cfg, b)
  PROVE  IOSteps(e, cfg, a \o b)
<1> DEFINE T == ToSet(a) \cup ToSet(b)
<1>1. \A step \in T : IOStep(e, cfg, step)
  BY DEF IOSteps, ToSet
<1>2. a \in Seq(ToSet(a)) /\ b \in Seq(ToSet(b))
  BY DEF IOSteps
<1>3. a \in Seq(T) /\ b \in Seq(T)
  <2> HIDE DEF ToSet
  <2> QED
    BY <1>2
<1> HIDE DEF T
<1>4. a \o b \in Seq(T)
  BY <1>3
<1> QED
  BY <1>1, <1>4, StepsOfAll

LEMMA StepsFlattened ==
  ASSUME NEW e, NEW cfg, NEW n \in Nat, NEW A, DOMAIN A = 1 .. n, A = [k \in 1 .. n |-> A[k]],
         \A k \in 1 .. n : IOSteps(e, cfg, A[k])
  PROVE  IOSteps(e, cfg, FlattenSeq(A))
<1> DEFINE T == UNION {ToSet(A[k]) : k \in 1 .. n}
<1>1. \A step \in T : IOStep(e, cfg, step)
  BY DEF IOSteps, ToSet
<1>2. \A k \in 1 .. n : A[k] \in Seq(T)
  <2>1. TAKE k \in 1 .. n
  <2>2. A[k] \in Seq(ToSet(A[k])) /\ ToSet(A[k]) \subseteq T
    BY DEF IOSteps
  <2> HIDE DEF T
  <2> QED
    BY <2>2
<1> HIDE DEF T
<1>3. A \in Seq(Seq(T))
  BY <1>2
<1>4. FlattenSeq(A) \in Seq(T)
  BY <1>3, FlattenSeqPairs
<1> QED
  BY <1>1, <1>4, StepsOfAll

LEMMA StepsTyped ==
  ASSUME NEW e, NEW cfg, NEW kind, NEW s, NEW n \in Nat, NEW ios, DOMAIN ios = 1 .. n,
         \A k \in 1 .. n : IOStep(e, cfg, [kind |-> kind, set |-> s, io |-> ios[k]])
  PROVE  IOSteps(e, cfg, Steps(kind, s, ios))
<1> DEFINE p == Steps(kind, s, ios)
           T == ToSet(p)
<1>1. /\ p = [k \in 1 .. n |-> p[k]]
      /\ \A k \in 1 .. n : p[k] = [kind |-> kind, set |-> s, io |-> ios[k]]
  BY DEF Steps
<1>2. \A k \in 1 .. n : p[k] \in T
  BY <1>1 DEF ToSet
<1> HIDE DEF T
<1>3. p \in Seq(T)
  <2> HIDE DEF p
  <2> QED
    BY <1>1, <1>2
<1>4. \A k \in DOMAIN p : IOStep(e, cfg, p[k])
  BY <1>1
<1> HIDE DEF p
<1> QED
  BY <1>3, <1>4 DEF IOSteps, T, p

\* A description of the right types.
IOTyped(io) ==
  /\ io.dims \in Seq(Int) /\ io.reshape \in Seq(Seq(Int))
  /\ io.ragged \in BOOLEAN /\ io.shape \in BOOLEAN

LEMMA ConfigDimsTyped ==
  ASSUME NEW io, IOTyped(io)
  PROVE  ConfigDims(io) \in Seq(Int)
<1>1. \A r \in Seq(Seq(Int)) : r # << >> => r[1] \in Seq(Int)
  OBVIOUS
<1> QED
  BY <1>1 DEF ConfigDims, IOTyped

LEMMA FullDimsTyped ==
  ASSUME NEW cfg, cfg.maxBatch \in Nat, NEW io, IOTyped(io)
  PROVE  FullConfigDims(cfg, io) \in Seq(Int)
<1> DEFINE dims == ConfigDims(io)
           first == IF io.role = "batch" THEN WILDCARD_DIM ELSE cfg.maxBatch
<1>1. dims \in Seq(Int)
  BY ConfigDimsTyped
<1>2. first \in Int /\ WILDCARD_DIM \in Int
  BY DEF WILDCARD_DIM
<1>3. FullConfigDims(cfg, io) = IF io.ragged THEN <<WILDCARD_DIM>>
                                ELSE IF ~Batching(cfg) THEN dims ELSE <<first>> \o dims
  BY DEF FullConfigDims
<1> HIDE DEF dims, first
<1>4. <<first>> \o dims \in Seq(Int)
  BY <1>1, <1>2
<1>5. <<WILDCARD_DIM>> \in Seq(Int)
  BY <1>2
<1> QED
  BY <1>1, <1>3, <1>4, <1>5

LEMMA BatchInputDimsTyped ==
  ASSUME NEW cfg, ConfigTyped(cfg), NEW input, input.kind \in BatchInputKinds
  PROVE  BatchInputDims(cfg, input) \in Seq(Int)
<1> DEFINE sources == {k \in DOMAIN cfg.inputs : cfg.inputs[k].name = input.source}
           rank == IF sources = {} THEN 0 ELSE Len(ConfigDims(cfg.inputs[Min(sources)]))
           item == IF rank = 0 THEN << >> ELSE <<rank>>
<1>1. rank \in Int
  <2>1. CASE sources = {}
    BY <2>1
  <2>2. CASE sources # {}
    <3>1. cfg.inputs \in Seq(ToSet(cfg.inputs))
      BY DEF ConfigTyped, DescriptionsTyped
    <3>2. DOMAIN cfg.inputs = 1 .. Len(cfg.inputs) /\ Len(cfg.inputs) \in Nat
      BY <3>1
    <3>3. IsFiniteSet(1 .. Len(cfg.inputs)) /\ sources \subseteq 1 .. Len(cfg.inputs)
      BY <3>2, FS_Interval
    <3>4. IsFiniteSet(sources) /\ sources \subseteq Int
      BY <3>3, FS_Subset
    <3>5. Min(sources) \in sources
      <4> HIDE DEF sources
      <4> QED
        BY <2>2, <3>4, Extremes
    <3>6. Min(sources) \in DOMAIN cfg.inputs
      BY <3>5
    <3>7. IOTyped(cfg.inputs[Min(sources)])
      <4> HIDE DEF sources
      <4> QED
        BY <3>6 DEF ConfigTyped, DescriptionsTyped, IOTyped
    <3>8. ConfigDims(cfg.inputs[Min(sources)]) \in Seq(Int)
      BY <3>7, ConfigDimsTyped
    <3>9. Len(ConfigDims(cfg.inputs[Min(sources)])) \in Int
      <4> HIDE DEF sources
      <4> QED
        BY <3>8
    <3> QED
      BY <2>2, <3>9
  <2> QED
    BY <2>1, <2>2
<1>2. BatchInputDims(cfg, input) =
        IF Batching(cfg) THEN IF input.kind = "BATCH_ITEM_SHAPE" THEN item ELSE << >>
        ELSE CASE input.kind \in {"BATCH_ELEMENT_COUNT", "BATCH_ACCUMULATED_ELEMENT_COUNT"} -> <<1>>
               [] input.kind = "BATCH_ACCUMULATED_ELEMENT_COUNT_WITH_ZERO" -> <<2>>
               [] input.kind = "BATCH_MAX_ELEMENT_COUNT_AS_SHAPE" -> <<WILDCARD_DIM>>
               [] input.kind = "BATCH_ITEM_SHAPE" -> <<1>> \o item
               [] input.kind = "BATCH_ITEM_SHAPE_FLATTEN" -> item
  BY DEF BatchInputDims
<1> HIDE DEF rank
<1>3. item \in Seq(Int)
  BY <1>1
<1> HIDE DEF item
<1>4. /\ <<1>> \in Seq(Int) /\ <<2>> \in Seq(Int) /\ <<WILDCARD_DIM>> \in Seq(Int)
      /\ << >> \in Seq(Int) /\ <<1>> \o item \in Seq(Int)
  BY <1>3 DEF WILDCARD_DIM
<1>5. /\ input.kind \in {"BATCH_ELEMENT_COUNT", "BATCH_ACCUMULATED_ELEMENT_COUNT"} \/
         input.kind = "BATCH_ACCUMULATED_ELEMENT_COUNT_WITH_ZERO" \/
         input.kind = "BATCH_MAX_ELEMENT_COUNT_AS_SHAPE" \/
         input.kind = "BATCH_ITEM_SHAPE" \/ input.kind = "BATCH_ITEM_SHAPE_FLATTEN"
  BY DEF BatchInputKinds
<1> QED
  BY <1>2, <1>3, <1>4, <1>5

LEMMA InputStep ==
  ASSUME NEW e, NEW cfg, ConfigTyped(cfg), NEW s \in BufferSets(cfg), NEW io, IOTyped(io)
  PROVE  /\ IOStep(e, cfg, [kind |-> "input", set |-> s, io |-> io])
         /\ IOStep(e, cfg, [kind |-> "shape input", set |-> s, io |-> io])
         /\ IOStep(e, cfg, [kind |-> "output", set |-> s, io |-> io])
<1>1. FullConfigDims(cfg, io) \in Seq(Int)
  BY FullDimsTyped DEF ConfigTyped
<1> QED
  BY <1>1 DEF IOStep, IOTyped

LEMMA ConfiguredTyped ==
  ASSUME NEW ios, DescriptionsTyped(ios)
  PROVE  /\ Len(ios) \in Nat /\ DOMAIN Configured(ios) = 1 .. Len(ios) /\ DOMAIN ios = 1 .. Len(ios)
         /\ \A k \in 1 .. Len(ios) :
              /\ IOTyped(Configured(ios)[k])
              /\ Configured(ios)[k].shape = ios[k].shape /\ Configured(ios)[k].name = ios[k].name
<1>1. ios \in Seq(ToSet(ios))
  BY DEF DescriptionsTyped
<1>2. Len(ios) \in Nat /\ DOMAIN ios = 1 .. Len(ios)
  BY <1>1
<1>3. DOMAIN Configured(ios) = 1 .. Len(ios)
  BY <1>2 DEF Configured
<1>4. ASSUME NEW k \in 1 .. Len(ios)
      PROVE  /\ IOTyped(Configured(ios)[k])
             /\ Configured(ios)[k].shape = ios[k].shape /\ Configured(ios)[k].name = ios[k].name
  <2>1. /\ ios[k].dims \in Seq(Int) /\ ios[k].reshape \in Seq(Seq(Int))
        /\ ios[k].ragged \in BOOLEAN /\ ios[k].shape \in BOOLEAN
    BY <1>2 DEF DescriptionsTyped
  <2>2. Configured(ios)[k] =
          [name |-> ios[k].name, type |-> ios[k].type, dims |-> ios[k].dims,
           reshape |-> ios[k].reshape, ragged |-> ios[k].ragged, shape |-> ios[k].shape,
           role |-> "config"]
    BY <1>2 DEF Configured
  <2> QED
    BY <2>1, <2>2 DEF IOTyped
<1> QED
  BY <1>2, <1>3, <1>4

LEMMA DescriptionTyped ==
  ASSUME NEW name, NEW type, NEW dims \in Seq(Int), NEW role
  PROVE  IOTyped(Description(name, type, dims, role))
<1>1. << >> \in Seq(Seq(Int))
  OBVIOUS
<1> QED
  BY <1>1 DEF IOTyped, Description

LEMMA InputStepsTyped ==
  ASSUME NEW e, NEW cfg, ConfigTyped(cfg), NEW s \in BufferSets(cfg)
  PROVE  IOSteps(e, cfg, InputSteps(cfg, s))
<1> DEFINE controls == [k \in DOMAIN cfg.controls |->
                          Description(cfg.controls[k].name, cfg.controls[k].type, <<1>>, "control")]
           batches == [k \in DOMAIN cfg.batchInputs |->
                         Description(cfg.batchInputs[k].name, cfg.batchInputs[k].type,
                                     BatchInputDims(cfg, cfg.batchInputs[k]), "batch")]
           states == [k \in DOMAIN cfg.states |->
                        Description(cfg.states[k].input, cfg.states[k].type, cfg.states[k].dims, "state")]
           ios == Configured(cfg.inputs)
<1>1. IOSteps(e, cfg, Steps("shape input", s, ios)) /\ IOSteps(e, cfg, Steps("input", s, ios))
  <2>1. /\ Len(cfg.inputs) \in Nat /\ DOMAIN ios = 1 .. Len(cfg.inputs)
        /\ \A k \in 1 .. Len(cfg.inputs) : IOTyped(ios[k])
    BY ConfiguredTyped DEF ConfigTyped
  <2> HIDE DEF ios
  <2> QED
    BY <2>1, InputStep, StepsTyped
<1>2. IOSteps(e, cfg, Steps("input", s, controls))
  <2>1. cfg.controls \in Seq(ToSet(cfg.controls))
    BY DEF ConfigTyped
  <2>2. Len(cfg.controls) \in Nat /\ DOMAIN cfg.controls = 1 .. Len(cfg.controls)
    BY <2>1
  <2>3. <<1>> \in Seq(Int)
    OBVIOUS
  <2>4. DOMAIN controls = 1 .. Len(cfg.controls) /\ \A k \in 1 .. Len(cfg.controls) : IOTyped(controls[k])
    BY <2>2, <2>3, DescriptionTyped
  <2> HIDE DEF controls
  <2> QED
    BY <2>2, <2>4, InputStep, StepsTyped
<1>3. IOSteps(e, cfg, Steps("input", s, batches))
  <2>1. cfg.batchInputs \in Seq(ToSet(cfg.batchInputs))
    BY DEF ConfigTyped
  <2>2. Len(cfg.batchInputs) \in Nat /\ DOMAIN cfg.batchInputs = 1 .. Len(cfg.batchInputs)
    BY <2>1
  <2>3. \A k \in 1 .. Len(cfg.batchInputs) : BatchInputDims(cfg, cfg.batchInputs[k]) \in Seq(Int)
    BY <2>2, BatchInputDimsTyped DEF ConfigTyped
  <2>4. DOMAIN batches = 1 .. Len(cfg.batchInputs) /\ \A k \in 1 .. Len(cfg.batchInputs) : IOTyped(batches[k])
    BY <2>2, <2>3, DescriptionTyped
  <2> HIDE DEF batches
  <2> QED
    BY <2>2, <2>4, InputStep, StepsTyped
<1>4. IOSteps(e, cfg, Steps("input", s, states))
  <2>1. cfg.states \in Seq(ToSet(cfg.states)) /\ \A k \in DOMAIN cfg.states : cfg.states[k].dims \in Seq(Int)
    BY DEF ConfigTyped
  <2>2. Len(cfg.states) \in Nat /\ DOMAIN cfg.states = 1 .. Len(cfg.states)
    BY <2>1
  <2>4. DOMAIN states = 1 .. Len(cfg.states) /\ \A k \in 1 .. Len(cfg.states) : IOTyped(states[k])
    BY <2>1, <2>2, DescriptionTyped
  <2> HIDE DEF states
  <2> QED
    BY <2>2, <2>4, InputStep, StepsTyped
<1>5. InputSteps(cfg, s) =
        Steps("shape input", s, ios) \o Steps("input", s, ios) \o Steps("input", s, controls)
          \o Steps("input", s, batches) \o Steps("input", s, states)
  BY DEF InputSteps
<1> HIDE DEF ios, controls, batches, states
<1>6. IOSteps(e, cfg, Steps("shape input", s, ios) \o Steps("input", s, ios))
  BY <1>1, StepsConcat
<1>7. IOSteps(e, cfg, Steps("shape input", s, ios) \o Steps("input", s, ios)
                        \o Steps("input", s, controls))
  BY <1>2, <1>6, StepsConcat
<1>8. IOSteps(e, cfg, Steps("shape input", s, ios) \o Steps("input", s, ios)
                        \o Steps("input", s, controls) \o Steps("input", s, batches))
  BY <1>3, <1>7, StepsConcat
<1>9. IOSteps(e, cfg, Steps("shape input", s, ios) \o Steps("input", s, ios)
                        \o Steps("input", s, controls) \o Steps("input", s, batches)
                        \o Steps("input", s, states))
  BY <1>4, <1>8, StepsConcat
<1> QED
  BY <1>5, <1>9

LEMMA OutputStepsTyped ==
  ASSUME NEW e, NEW cfg, ConfigTyped(cfg), ValidateIO(e, cfg), NEW s \in BufferSets(cfg)
  PROVE  IOSteps(e, cfg, OutputSteps(cfg, s))
<1> DEFINE state == [k \in DOMAIN cfg.states |->
                       Description(cfg.states[k].output, cfg.states[k].type, cfg.states[k].dims, "state")]
           ios == Configured(cfg.outputs)
           n == Len(cfg.outputs)
<1>1. /\ n \in Nat /\ DOMAIN ios = 1 .. n /\ DOMAIN cfg.outputs = 1 .. n
      /\ \A k \in 1 .. n :
           /\ IOTyped(ios[k])
           /\ ios[k].shape = cfg.outputs[k].shape /\ ios[k].name = cfg.outputs[k].name
  BY ConfiguredTyped DEF ConfigTyped
<1>2. \A k \in 1 .. n : ios[k].shape => IsShape(e, ios[k].name)
  <2>1. \A k \in 1 .. n : /\ cfg.outputs[k].name \in Names(e)
                          /\ cfg.outputs[k].shape = Tensor(e, cfg.outputs[k].name).shape
    BY <1>1 DEF ValidateIO, AllowedIO, ValidateIOHelper
  <2> HIDE DEF ios, n
  <2> QED
    BY <1>1, <2>1 DEF IsShape
<1>3. IOSteps(e, cfg, Steps("batch output", s, cfg.batchOutputs))
  <2>1. cfg.batchOutputs \in Seq(ToSet(cfg.batchOutputs))
    BY DEF ConfigTyped
  <2>2. Len(cfg.batchOutputs) \in Nat /\ DOMAIN cfg.batchOutputs = 1 .. Len(cfg.batchOutputs)
    BY <2>1
  <2>3. \A k \in 1 .. Len(cfg.batchOutputs) :
          IOStep(e, cfg, [kind |-> "batch output", set |-> s, io |-> cfg.batchOutputs[k]])
    BY DEF IOStep
  <2> QED
    BY <2>2, <2>3, StepsTyped
<1>4. IOSteps(e, cfg, Steps("shape output", s, ios)) /\ IOSteps(e, cfg, Steps("output", s, ios))
  <2> HIDE DEF ios, n
  <2>1. \A k \in 1 .. n : /\ IOStep(e, cfg, [kind |-> "shape output", set |-> s, io |-> ios[k]])
                          /\ IOStep(e, cfg, [kind |-> "output", set |-> s, io |-> ios[k]])
    BY <1>2 DEF IOStep
  <2> QED
    BY <1>1, <2>1, StepsTyped
<1>5. IOSteps(e, cfg, Steps("output", s, state))
  <2>1. cfg.states \in Seq(ToSet(cfg.states)) /\ \A k \in DOMAIN cfg.states : cfg.states[k].dims \in Seq(Int)
    BY DEF ConfigTyped
  <2>2. Len(cfg.states) \in Nat /\ DOMAIN cfg.states = 1 .. Len(cfg.states)
    BY <2>1
  <2>4. DOMAIN state = 1 .. Len(cfg.states)
    BY <2>2
  <2>5. \A k \in 1 .. Len(cfg.states) : IOStep(e, cfg, [kind |-> "output", set |-> s, io |-> state[k]])
    BY DEF IOStep
  <2> HIDE DEF state
  <2> QED
    BY <2>2, <2>4, <2>5, StepsTyped
<1>6. OutputSteps(cfg, s) =
        Steps("batch output", s, cfg.batchOutputs) \o Steps("shape output", s, ios)
          \o Steps("output", s, ios) \o Steps("output", s, state)
  BY DEF OutputSteps
<1> HIDE DEF ios, n, state
<1>7. IOSteps(e, cfg, Steps("batch output", s, cfg.batchOutputs) \o Steps("shape output", s, ios))
  BY <1>3, <1>4, StepsConcat
<1>8. IOSteps(e, cfg, Steps("batch output", s, cfg.batchOutputs) \o Steps("shape output", s, ios)
                        \o Steps("output", s, ios))
  BY <1>4, <1>7, StepsConcat
<1>9. IOSteps(e, cfg, Steps("batch output", s, cfg.batchOutputs) \o Steps("shape output", s, ios)
                        \o Steps("output", s, ios) \o Steps("output", s, state))
  BY <1>5, <1>8, StepsConcat
<1> QED
  BY <1>6, <1>9

LEMMA InitializationStepsTyped ==
  ASSUME NEW e, NEW cfg, ConfigTyped(cfg), ValidateIO(e, cfg)
  PROVE  IOSteps(e, cfg, InitializationSteps(cfg))
<1> DEFINE sets == IF cfg.separateOutput THEN <<0, 1>> ELSE <<0>>
           n == IF cfg.separateOutput THEN 2 ELSE 1
           ins == [k \in DOMAIN sets |-> InputSteps(cfg, sets[k])]
           outs == [k \in DOMAIN sets |-> OutputSteps(cfg, sets[k])]
<1>1. n \in Nat /\ DOMAIN sets = 1 .. n /\ \A k \in 1 .. n : sets[k] \in BufferSets(cfg)
  <2>1. CASE cfg.separateOutput
    BY <2>1 DEF BufferSets
  <2>2. CASE ~cfg.separateOutput
    BY <2>2 DEF BufferSets
  <2> QED
    BY <2>1, <2>2
<1>2. InitializationSteps(cfg) = FlattenSeq(ins) \o FlattenSeq(outs)
  BY Zenon DEF InitializationSteps
<1> HIDE DEF sets, n
<1>3. /\ DOMAIN ins = 1 .. n /\ ins = [k \in 1 .. n |-> ins[k]]
      /\ \A k \in 1 .. n : IOSteps(e, cfg, ins[k])
  BY <1>1, InputStepsTyped
<1>4. /\ DOMAIN outs = 1 .. n /\ outs = [k \in 1 .. n |-> outs[k]]
      /\ \A k \in 1 .. n : IOSteps(e, cfg, outs[k])
  BY <1>1, OutputStepsTyped
<1> HIDE DEF ins, outs
<1>5. IOSteps(e, cfg, FlattenSeq(ins)) /\ IOSteps(e, cfg, FlattenSeq(outs))
  BY <1>1, <1>3, <1>4, StepsFlattened
<1>6. IOSteps(e, cfg, FlattenSeq(ins) \o FlattenSeq(outs))
  BY <1>5, StepsConcat
<1> QED
  BY <1>2, <1>6

-----------------------------------------------------------------------------
(***************************************************************************)
(* The initialization goes through the steps until one is refused: g[s] is *)
(* what it has made of the steps at the places in s.                       *)
(***************************************************************************)
Unless(e, cfg, st, step) == IF st.ok THEN Initialize(e, cfg, st, step) ELSE st

Progress(g, e, cfg, steps, n) ==
  g = [s \in SUBSET (1 .. n) |->
         IF s = {} THEN Start(e, cfg) ELSE Unless(e, cfg, g[s \ {Max(s)}], steps[Max(s)])]

LEMMA ProgressExists ==
  ASSUME NEW e, NEW cfg, NEW steps
  PROVE  \A n \in Nat : \E g : Progress(g, e, cfg, steps, n)
<1> DEFINE T == {n \in Nat : \E g : Progress(g, e, cfg, steps, n)}
<1>1. 0 \in T
  <2> DEFINE g == [s \in SUBSET (1 .. 0) |-> Start(e, cfg)]
  <2>1. \A s \in SUBSET (1 .. 0) : s = {}
    OBVIOUS
  <2>2. Progress(g, e, cfg, steps, 0)
    BY <2>1 DEF Progress
  <2> QED
    BY <2>2
<1>2. ASSUME NEW n \in Nat, n \in T
      PROVE  n + 1 \in T
  <2>1. PICK h : Progress(h, e, cfg, steps, n)
    BY <1>2
  <2> DEFINE next(k) == [s \in SUBSET (1 .. n + 1) |->
                           IF s = {} THEN Start(e, cfg)
                           ELSE Unless(e, cfg, k[s \ {Max(s)}], steps[Max(s)])]
             g == next(h)
  <2>2. \A s \in SUBSET (1 .. n) : g[s] = h[s]
    <3>1. TAKE s \in SUBSET (1 .. n)
    <3>2. s \in SUBSET (1 .. n + 1)
      OBVIOUS
    <3> QED
      BY <2>1, <3>2 DEF Progress
  <2>3. \A s \in SUBSET (1 .. n + 1) : s # {} => s \ {Max(s)} \in SUBSET (1 .. n)
    BY IndexSetShrinks
  <2>4. next(h) = next(g)
    <3> HIDE DEF g
    <3> QED
      BY <2>2, <2>3
  <2>5. Progress(g, e, cfg, steps, n + 1)
    <3>1. g = next(g)
      <4> HIDE DEF next
      <4> QED
        BY <2>4
    <3> HIDE DEF g
    <3> QED
      BY <3>1 DEF Progress
  <2> HIDE DEF g
  <2> QED
    BY <2>5
<1>3. Nat \subseteq T
  <2> HIDE DEF T
  <2> QED
    BY <1>1, <1>2, InductionOnSet
<1> QED
  BY <1>3

\* Where the initialization ends.
Done(e, cfg) ==
  FoldLeft(LAMBDA st, step : Unless(e, cfg, st, step), Start(e, cfg), InitializationSteps(cfg))

LEMMA InitIsDone ==
  ASSUME NEW e, NEW cfg
  PROVE  InitIOBindingBuffers(e, cfg) = [Done(e, cfg) EXCEPT !.ok = @ /\ AllAllocated(Done(e, cfg))]
BY Zenon DEF InitIOBindingBuffers, Done, Unless

LEMMA DoneEquation ==
  ASSUME NEW e, NEW cfg, NEW n \in Nat, DOMAIN InitializationSteps(cfg) = 1 .. n
  PROVE  \E g : Progress(g, e, cfg, InitializationSteps(cfg), n) /\ Done(e, cfg) = g[1 .. n]
<1> DEFINE steps == InitializationSteps(cfg)
<1>1. Done(e, cfg) = (CHOOSE g : Progress(g, e, cfg, steps, n))[1 .. n]
  BY Zenon DEF Done, FoldLeft, MapThenFoldSet, Progress
<1> QED
  BY <1>1, ProgressExists

LEMMA StartGood ==
  ASSUME NEW e, NEW cfg, Loadable(e, cfg)
  PROVE  Good(e, cfg, Start(e, cfg))
<1> DEFINE st == Start(e, cfg)
           info == [s \in BufferSets(cfg) |-> [n \in Names(e) |-> NoInfo]]
           max == [c \in Contexts(cfg) |-> [n \in InputNames(e) |-> e.profiles[c][n].max]]
           given == [c \in Contexts(cfg) |-> {}]
           nb == [c \in Contexts(cfg) |-> 0]
<1>1. st = [ok |-> TRUE, info |-> info, max |-> max, given |-> given, nb |-> nb]
  BY DEF Start
<1>2. NoInfo \in InfoRecords /\ ~NoInfo.allocated
  BY DEF NoInfo, InfoRecords
<1>3. info \in [BufferSets(cfg) -> [Names(e) -> InfoRecords]]
  BY <1>2
<1>4. max \in [Contexts(cfg) -> [InputNames(e) -> Seq(Nat)]]
  <2>1. \A c \in Contexts(cfg), n \in InputNames(e) : e.profiles[c][n].max \in Seq(Nat)
    BY ProfileTyped
  <2> QED
    BY <2>1
<1>5. \A s \in BufferSets(cfg), n \in Names(e) : info[s][n] = NoInfo
  OBVIOUS
<1>6. \A c \in Contexts(cfg), n \in InputNames(e) : max[c][n] = e.profiles[c][n].max
  OBVIOUS
<1>7. given \in [Contexts(cfg) -> SUBSET InputNames(e)] /\ nb \in [Contexts(cfg) -> Int]
  OBVIOUS
<1> HIDE DEF st, info, max, given, nb
<1>8. st \in States(e, cfg) /\ st.info = info /\ st.max = max
  BY <1>1, <1>3, <1>4, <1>7 DEF States
<1>9. \A s \in BufferSets(cfg), n \in Names(e) : HasRoom(e, cfg, st, s, n)
  BY <1>2, <1>5, <1>8 DEF HasRoom
<1>10. Good(e, cfg, st)
  <2>1. \A c \in Contexts(cfg), n \in InputNames(e) :
          /\ Len(st.max[c][n]) = Len(e.profiles[c][n].max)
          /\ IsShape(e, n) => st.max[c][n] = e.profiles[c][n].max
    BY <1>6, <1>8
  <2> QED
    BY <1>8, <1>9, <2>1 DEF Good
<1> QED
  BY <1>10 DEF st

LEMMA UnlessGood ==
  ASSUME NEW e, NEW cfg, Loadable(e, cfg), NEW st, Good(e, cfg, st),
         NEW step, IOStep(e, cfg, step)
  PROVE  Good(e, cfg, Unless(e, cfg, st, step))
BY StepGood DEF Unless

LEMMA DoneGood ==
  ASSUME NEW e, NEW cfg, Loadable(e, cfg), ValidateIO(e, cfg)
  PROVE  Good(e, cfg, Done(e, cfg))
<1> DEFINE steps == InitializationSteps(cfg)
           n == Len(steps)
<1>1. steps \in Seq(ToSet(steps)) /\ \A k \in DOMAIN steps : IOStep(e, cfg, steps[k])
  BY InitializationStepsTyped DEF IOSteps, Loadable
<1>2. n \in Nat /\ DOMAIN steps = 1 .. n
  BY <1>1
<1>3. PICK g : Progress(g, e, cfg, steps, n) /\ Done(e, cfg) = g[1 .. n]
  BY <1>2, DoneEquation
<1> HIDE DEF steps, n
<1> DEFINE T == {k \in Nat : k <= n => Good(e, cfg, g[1 .. k])}
<1>4. 0 \in T
  <2>1. 1 .. 0 = {} /\ 1 .. 0 \in SUBSET (1 .. n)
    OBVIOUS
  <2>2. g[1 .. 0] = Start(e, cfg)
    BY <1>3, <2>1 DEF Progress
  <2> QED
    BY <2>2, StartGood
<1>5. ASSUME NEW k \in Nat, k \in T
      PROVE  k + 1 \in T
  <2> SUFFICES ASSUME k + 1 <= n PROVE Good(e, cfg, g[1 .. k + 1])
    OBVIOUS
  <2>1. Max(1 .. k + 1) = k + 1 /\ (1 .. k + 1) \ {k + 1} = 1 .. k
    BY LastIndex
  <2>2. 1 .. k + 1 \in SUBSET (1 .. n) /\ k + 1 \in 1 .. k + 1 /\ k + 1 \in 1 .. n /\ k <= n
    BY <1>2
  <2>3. 1 .. k + 1 # {}
    BY <2>2
  <2>4. g[1 .. k + 1] = Unless(e, cfg, g[(1 .. k + 1) \ {Max(1 .. k + 1)}], steps[Max(1 .. k + 1)])
    BY <1>3, <2>2, <2>3 DEF Progress
  <2>5. g[1 .. k + 1] = Unless(e, cfg, g[1 .. k], steps[k + 1])
    BY <2>1, <2>4
  <2>6. Good(e, cfg, g[1 .. k])
    BY <1>5, <2>2
  <2>7. IOStep(e, cfg, steps[k + 1])
    BY <1>1, <1>2, <2>2
  <2> QED
    BY <2>5, <2>6, <2>7, UnlessGood
<1>6. Nat \subseteq T
  <2> HIDE DEF T
  <2> QED
    BY <1>4, <1>5, InductionOnSet
<1>7. Good(e, cfg, g[1 .. n])
  BY <1>2, <1>6
<1> QED
  BY <1>3, <1>7

\* What is done with Bindings of an engine and a configuration of the right
\* types, and accepted.
LEMMA AcceptedGood ==
  ASSUME NEW e, NEW cfg, EngineTyped(e), ConfigTyped(cfg), Bindings(e, cfg).ok
  PROVE  /\ Loadable(e, cfg)
         /\ Good(e, cfg, Bindings(e, cfg))
         /\ AllAllocated(Bindings(e, cfg))
<1>1. ProfilesExist(e, cfg) /\ ValidateIO(e, cfg)
  BY DEF Bindings
<1>2. Loadable(e, cfg)
  BY <1>1 DEF Loadable
<1> DEFINE d == Done(e, cfg)
           all == AllAllocated(d)
<1>3. Good(e, cfg, d)
  BY <1>1, <1>2, DoneGood
<1>4. Bindings(e, cfg) = [d EXCEPT !.ok = d.ok /\ all]
  BY <1>1, InitIsDone DEF Bindings
<1> HIDE DEF d
<1>5. d \in States(e, cfg)
  BY <1>3 DEF Good
<1> HIDE DEF all
<1>6. d.ok /\ all
  BY <1>4, <1>5 DEF States
<1>7. Bindings(e, cfg) = d
  <2>1. d = [d EXCEPT !.ok = TRUE]
    BY <1>5, <1>6 DEF States
  <2> QED
    BY <1>4, <1>6, <2>1
<1> QED
  BY <1>2, <1>3, <1>6, <1>7 DEF all

-----------------------------------------------------------------------------
(***************************************************************************)
(* What a run admits fits.                                                 *)
(***************************************************************************)
LEMMA ShapesInTyped ==
  ASSUME NEW min \in Seq(Int), NEW max \in Seq(Int), Len(min) = Len(max),
         NEW v \in ShapesIn(min, max)
  PROVE  v \in Seq(Nat) /\ Len(v) = Len(max) /\ \A d \in 1 .. Len(max) : v[d] <= max[d]
<1> DEFINE n == Len(max)
           S == {max[d] : d \in 1 .. n}
<1>1. /\ n \in Nat /\ DOMAIN max = 1 .. n
      /\ \A d \in 1 .. n : max[d] \in Int /\ min[d] \in Int
  OBVIOUS
<1>2. /\ v \in [1 .. n -> 0 .. Max(S)]
      /\ \A d \in 1 .. n : v[d] \in min[d] .. max[d]
  BY <1>1 DEF ShapesIn
<1>3. ASSUME NEW d \in 1 .. n
      PROVE  v[d] \in Nat /\ v[d] <= max[d]
  <2>1. S # {} /\ S \subseteq Int
    BY <1>1
  <2>2. IsFiniteSet(S)
    <3>1. IsFiniteSet(1 .. n)
      BY <1>1, FS_Interval
    <3> DEFINE f == [k \in 1 .. n |-> max[k]]
    <3>2. f \in Surjection(1 .. n, S)
      BY DEF Surjection
    <3> HIDE DEF f, S
    <3> QED
      BY <3>1, <3>2, FS_Surjection
  <2> HIDE DEF S
  <2>3. Max(S) \in Int
    BY <2>1, <2>2, Extremes
  <2>4. v[d] \in 0 .. Max(S) /\ v[d] \in min[d] .. max[d]
    BY <1>2
  <2>5. max[d] \in Int /\ min[d] \in Int
    BY <1>1
  <2> QED
    BY <2>3, <2>4, <2>5
<1> HIDE DEF S
<1> HIDE DEF n
<1>4. v \in [1 .. n -> Nat]
  BY <1>2, <1>3
<1>5. v \in Seq(Nat) /\ Len(v) = n
  BY <1>1, <1>4
<1> QED
  BY <1>3, <1>5 DEF n

\* The shapes or values of an input that a context admits.
Admitted(e, st, c, n) ==
  IF IsShape(e, n)
  THEN {v \in ShapesIn(e.profiles[c][n].low, e.profiles[c][n].high) :
          ValidateShapeValues(e, st, c, n, v)}
  ELSE {v \in ShapesIn(e.profiles[c][n].min, e.profiles[c][n].max) :
          SetBindingDimensions(e, st, c, n, v)}

\* The largest of them.
LargestAdmitted(e, st, c, n) == IF IsShape(e, n) THEN e.profiles[c][n].high ELSE st.max[c][n]

LEMMA AdmittedBelow ==
  ASSUME NEW e, NEW cfg, Loadable(e, cfg), NEW st \in States(e, cfg),
         NEW c \in Contexts(cfg), NEW n \in InputNames(e), NEW v \in Admitted(e, st, c, n)
  PROVE  /\ v \in Seq(Nat) /\ LargestAdmitted(e, st, c, n) \in Seq(Int)
         /\ Len(v) = Len(LargestAdmitted(e, st, c, n))
         /\ \A d \in 1 .. Len(v) : v[d] <= LargestAdmitted(e, st, c, n)[d]
<1>1. CASE IsShape(e, n)
  <2> DEFINE lo == e.profiles[c][n].low
             hi == e.profiles[c][n].high
  <2>1. lo \in Seq(Int) /\ hi \in Seq(Int) /\ Len(lo) = Len(hi)
    BY <1>1, ProfileTyped
  <2>2. v \in ShapesIn(lo, hi) /\ LargestAdmitted(e, st, c, n) = hi
    BY <1>1 DEF Admitted, LargestAdmitted
  <2> HIDE DEF lo, hi
  <2>3. v \in Seq(Nat) /\ Len(v) = Len(hi) /\ \A d \in 1 .. Len(hi) : v[d] <= hi[d]
    BY <2>1, <2>2, ShapesInTyped
  <2> QED
    BY <2>1, <2>2, <2>3
<1>2. CASE ~IsShape(e, n)
  <2> DEFINE lo == e.profiles[c][n].min
             hi == e.profiles[c][n].max
             top == st.max[c][n]
  <2>1. lo \in Seq(Nat) /\ hi \in Seq(Nat) /\ Len(lo) = Len(hi) /\ top \in Seq(Nat)
    BY ProfileTyped, StateTyped
  <2>2. v \in ShapesIn(lo, hi) /\ LargestAdmitted(e, st, c, n) = top
    BY <1>2 DEF Admitted, LargestAdmitted
  <2>3. Len(v) = Len(top) /\ \A d \in DOMAIN v : v[d] \in lo[d] .. top[d]
    BY <1>2 DEF Admitted, SetBindingDimensions
  <2> HIDE DEF lo, hi, top
  <2>4. lo \in Seq(Int) /\ hi \in Seq(Int)
    BY <2>1
  <2>5. v \in Seq(Nat) /\ Len(v) = Len(hi)
    BY <2>1, <2>2, <2>4, ShapesInTyped
  <2>6. \A d \in 1 .. Len(v) : v[d] <= top[d]
    <3>1. TAKE d \in 1 .. Len(v)
    <3>2. d \in 1 .. Len(lo) /\ d \in 1 .. Len(top) /\ d \in DOMAIN v
      BY <2>1, <2>3, <2>5
    <3>3. lo[d] \in Int /\ top[d] \in Int /\ v[d] \in lo[d] .. top[d]
      BY <2>1, <2>3, <3>2
    <3> QED
      BY <3>3
  <2>7. top \in Seq(Int)
    BY <2>1
  <2> QED
    BY <2>2, <2>3, <2>5, <2>6, <2>7
<1> QED
  BY <1>1, <1>2

LEMMA AdmittedFits ==
  ASSUME NEW e, NEW cfg, Loadable(e, cfg), NEW st, Good(e, cfg, st), st.ok, AllAllocated(st),
         NEW c \in Contexts(cfg), NEW n \in InputNames(e), NEW v \in Admitted(e, st, c, n),
         NEW s \in BufferSets(cfg)
  PROVE  /\ (IF IsShape(e, n) THEN Len(v) ELSE CopiedElements(e, n, v)) <= st.info[s][n].size
         /\ \A o \in RoomMade(e, st.info[s], n) : OutputElements(e, o, v) <= st.info[s][o].size
<1> DEFINE top == LargestAdmitted(e, st, c, n)
<1>0. st \in States(e, cfg)
  BY DEF Good
<1>1. /\ v \in Seq(Nat) /\ top \in Seq(Int) /\ Len(v) = Len(top)
      /\ \A d \in 1 .. Len(v) : v[d] <= top[d]
  BY <1>0, AdmittedBelow
<1>2. \A k \in Names(e) :
        st.info[s][k].allocated /\ HasRoom(e, cfg, st, s, k) /\ st.info[s][k].size \in Int
  <2>1. TAKE k \in Names(e)
  <2>2. s \in DOMAIN st.info /\ k \in DOMAIN st.info[s]
    BY <1>0 DEF States
  <2>3. st.info[s][k] \in InfoRecords
    BY <1>0, StateTyped
  <2> QED
    BY <2>2, <2>3 DEF AllAllocated, Good, InfoRecords
<1>3. EngineTyped(e) /\ n \in Names(e)
  BY InputsAreNames DEF Loadable
<1>4. InputSize(e, st, c, n) \in Int /\ InputSize(e, st, c, n) <= st.info[s][n].size
  BY <1>0, <1>2, <1>3, InputSizeTyped DEF HasRoom
<1>5. (IF IsShape(e, n) THEN Len(v) ELSE CopiedElements(e, n, v)) <= st.info[s][n].size
  <2>1. CASE IsShape(e, n)
    <3>1. Len(v) = InputSize(e, st, c, n)
      BY <1>1, <2>1, ProfileTyped DEF InputSize, LargestAdmitted
    <3> QED
      BY <1>4, <2>1, <3>1
  <2>2. CASE ~IsShape(e, n)
    <3> DEFINE f == Tensor(e, n).format
    <3>1. FormatTyped(f)
      BY <1>3, TensorTyped
    <3>2. CopiedElements(e, n, v) = Volume(Padded(f, v)) /\ InputSize(e, st, c, n) = Volume(Padded(f, top))
      BY <2>2 DEF CopiedElements, InputSize, LargestAdmitted
    <3> HIDE DEF f, top
    <3>3. Volume(Padded(f, v)) <= Volume(Padded(f, top))
      BY <1>1, <3>1, RoundedVolumes
    <3>4. Padded(f, v) \in Seq(Int)
      <4>1. v \in Seq(Int)
        BY <1>1
      <4> QED
        BY <3>1, <4>1, RoundedTyped
    <3>5. Volume(Padded(f, v)) \in Int
      BY <3>4, VolumeIsInt
    <3>6. st.info[s][n].size \in Int
      BY <1>2, <1>3
    <3>7. Volume(Padded(f, v)) <= st.info[s][n].size
      BY <1>4, <3>2, <3>3, <3>5, <3>6
    <3> QED
      BY <2>2, <3>2, <3>7
  <2> QED
    BY <2>1, <2>2
<1>6. ASSUME NEW o \in RoomMade(e, st.info[s], n)
      PROVE  OutputElements(e, o, v) <= st.info[s][o].size
  <2> DEFINE f == Tensor(e, o).format
             size == st.info[s][o].size
  <2>1. /\ o \in Names(e) /\ o \notin InputNames(e) /\ Tensor(e, o).from = n
        /\ ~IsShape(e, o) /\ ~st.info[s][o].dynamic
    BY DEF RoomMade
  <2>2. n \in st.given[c] /\ GetFullByteSize(e, st, c, o) <= size
    BY <1>2, <2>1 DEF HasRoom
  <2>3. OutputShape(e, st, c, o) = top
    BY <2>1, <2>2 DEF OutputShape, LargestAdmitted
  <2>4. GetFullByteSize(e, st, c, o) = Volume(InVectors(f, top))
    BY <2>3 DEF GetFullByteSize
  <2>5. GetFullByteSize(e, st, c, o) \in Int /\ size \in Int
    BY <1>0, <1>2, <2>1, OutputShapeTyped
  <2>6. FormatTyped(f)
    BY <1>3, <2>1, TensorTyped
  <2>7. OutputElements(e, o, v) = Volume(InVectors(f, v))
    BY DEF OutputElements
  <2> HIDE DEF f, top, size
  <2>8. Volume(InVectors(f, v)) <= Volume(InVectors(f, top))
    BY <1>1, <2>6, RoundedVolumes
  <2>9. Volume(InVectors(f, v)) \in Int
    <3>1. v \in Seq(Int)
      BY <1>1
    <3>2. InVectors(f, v) \in Seq(Int)
      BY <2>6, <3>1, RoundedTyped
    <3> QED
      BY <3>2, VolumeIsInt
  <2>10. OutputElements(e, o, v) <= size
    BY <2>2, <2>4, <2>5, <2>7, <2>8, <2>9
  <2> QED
    BY <2>10 DEF size
<1> QED
  BY <1>5, <1>6

-----------------------------------------------------------------------------
(***************************************************************************)
(* A completed configuration is one of the right types.                    *)
(***************************************************************************)
Described(io) ==
  /\ {"name", "type", "dims", "reshape", "ragged", "shape", "nonLinear"} \subseteq DOMAIN io
  /\ IOTyped(io)

LEMMA DescriptionsAre ==
  ASSUME NEW ios
  PROVE  DescriptionsTyped(ios) <=>
           ios \in Seq(ToSet(ios)) /\ \A k \in DOMAIN ios : Described(ios[k])
BY DEF DescriptionsTyped, Described, IOTyped

LEMMA RefTyped ==
  ASSUME NEW maxBatch, NEW tensor, tensor.dims \in Seq(Int), tensor.shape \in BOOLEAN
  PROVE  Described(RefIO(maxBatch, tensor))
<1> DEFINE batching == maxBatch # 0
           own == IF batching /\ tensor.dims # << >> THEN Tail(tensor.dims) ELSE tensor.dims
           values == IF batching THEN [d \in DOMAIN tensor.dims |-> tensor.dims[d] - 1] ELSE tensor.dims
           dims == InitIODims(maxBatch, tensor)
<1>1. own \in Seq(Int)
  OBVIOUS
<1>2. values \in Seq(Int)
  <2> DEFINE n == Len(tensor.dims)
  <2>1. n \in Nat /\ DOMAIN tensor.dims = 1 .. n /\ \A d \in 1 .. n : tensor.dims[d] \in Int
    OBVIOUS
  <2> DEFINE less == [d \in 1 .. n |-> tensor.dims[d] - 1]
  <2>2. less \in [1 .. n -> Int]
    BY <2>1
  <2>3. values = IF batching THEN less ELSE tensor.dims
    BY <2>1
  <2> HIDE DEF n, less, values
  <2>4. less \in Seq(Int)
    BY <2>1, <2>2
  <2> QED
    BY <2>3, <2>4
<1>3. dims = CASE tensor.shape                -> [dims |-> values, reshape |-> << >>]
               [] ~tensor.shape /\ own = << >> -> [dims |-> <<1>>, reshape |-> << << >> >>]
               [] OTHER                        -> [dims |-> own, reshape |-> << >>]
  BY DEF InitIODims
<1>4. RefIO(maxBatch, tensor) =
        [name |-> tensor.name, type |-> tensor.type, dims |-> dims.dims, reshape |-> dims.reshape,
         ragged |-> FALSE, shape |-> tensor.shape, nonLinear |-> ~tensor.format.linear]
  BY DEF RefIO
<1> HIDE DEF own, values, dims
<1>5. /\ <<1>> \in Seq(Int) /\ << >> \in Seq(Seq(Int))
      /\ << << >> >> \in Seq(Seq(Int))
  OBVIOUS
<1>6. dims.dims \in Seq(Int) /\ dims.reshape \in Seq(Seq(Int))
  BY <1>1, <1>2, <1>3, <1>5
<1> QED
  BY <1>4, <1>6 DEF Described, IOTyped

\* g[s] are the descriptions of the inputs, or of the outputs, at the places in s.
RefOf(ios, maxBatch, input, tensor) ==
  IF tensor.input = input THEN Append(ios, RefIO(maxBatch, tensor)) ELSE ios

Listing(g, tensors, maxBatch, input, n) ==
  g = [s \in SUBSET (1 .. n) |->
         IF s = {} THEN << >> ELSE RefOf(g[s \ {Max(s)}], maxBatch, input, tensors[Max(s)])]

LEMMA ListingExists ==
  ASSUME NEW tensors, NEW maxBatch, NEW input
  PROVE  \A n \in Nat : \E g : Listing(g, tensors, maxBatch, input, n)
<1> DEFINE T == {n \in Nat : \E g : Listing(g, tensors, maxBatch, input, n)}
<1>1. 0 \in T
  <2> DEFINE g == [s \in SUBSET (1 .. 0) |-> << >>]
  <2>1. \A s \in SUBSET (1 .. 0) : s = {}
    OBVIOUS
  <2>2. Listing(g, tensors, maxBatch, input, 0)
    BY <2>1 DEF Listing
  <2> QED
    BY <2>2
<1>2. ASSUME NEW n \in Nat, n \in T
      PROVE  n + 1 \in T
  <2>1. PICK h : Listing(h, tensors, maxBatch, input, n)
    BY <1>2
  <2> DEFINE next(k) == [s \in SUBSET (1 .. n + 1) |->
                           IF s = {} THEN << >>
                           ELSE RefOf(k[s \ {Max(s)}], maxBatch, input, tensors[Max(s)])]
             g == next(h)
  <2>2. \A s \in SUBSET (1 .. n) : g[s] = h[s]
    <3>1. TAKE s \in SUBSET (1 .. n)
    <3>2. s \in SUBSET (1 .. n + 1)
      OBVIOUS
    <3> QED
      BY <2>1, <3>2 DEF Listing
  <2>3. \A s \in SUBSET (1 .. n + 1) : s # {} => s \ {Max(s)} \in SUBSET (1 .. n)
    BY IndexSetShrinks
  <2>4. next(h) = next(g)
    <3> HIDE DEF g
    <3> QED
      BY <2>2, <2>3
  <2>5. Listing(g, tensors, maxBatch, input, n + 1)
    <3>1. g = next(g)
      <4> HIDE DEF next
      <4> QED
        BY <2>4
    <3> HIDE DEF g
    <3> QED
      BY <3>1 DEF Listing
  <2> HIDE DEF g
  <2> QED
    BY <2>5
<1>3. Nat \subseteq T
  <2> HIDE DEF T
  <2> QED
    BY <1>1, <1>2, InductionOnSet
<1> QED
  BY <1>3

\* refs are the descriptions of inputs, or of outputs, of the engine, of each once.
Listed(e, maxBatch, input, refs) ==
  /\ refs \in Seq({RefIO(maxBatch, e.tensors[k]) : k \in DOMAIN e.tensors})
  /\ \A a \in DOMAIN refs : \E k \in DOMAIN e.tensors :
       e.tensors[k].input = input /\ refs[a] = RefIO(maxBatch, e.tensors[k])
  /\ \A a, b \in DOMAIN refs : refs[a].name = refs[b].name => a = b
  /\ \A k \in DOMAIN e.tensors : e.tensors[k].input = input =>
       \E a \in DOMAIN refs : refs[a] = RefIO(maxBatch, e.tensors[k])

LEMMA RefsListed ==
  ASSUME NEW e, EngineTyped(e), NEW maxBatch, NEW input
  PROVE  Listed(e, maxBatch, input, GetRefIO(e, maxBatch, input))
<1> DEFINE n == Len(e.tensors)
           R == {RefIO(maxBatch, e.tensors[k]) : k \in DOMAIN e.tensors}
           Of(r, k) == \E l \in 1 .. k : e.tensors[l].input = input /\ r = RefIO(maxBatch, e.tensors[l])
           Once(refs, k) == /\ refs \in Seq(R)
                            /\ \A a \in 1 .. Len(refs) : Of(refs[a], k)
                            /\ \A a, b \in 1 .. Len(refs) : refs[a].name = refs[b].name => a = b
           In(l, refs) == \E a \in 1 .. Len(refs) : refs[a] = RefIO(maxBatch, e.tensors[l])
           All(refs, k) == \A l \in 1 .. k : e.tensors[l].input = input => In(l, refs)
<1>1. e.tensors \in Seq(ToSet(e.tensors))
  BY DEF EngineTyped
<1>2. n \in Nat /\ DOMAIN e.tensors = 1 .. n
  BY <1>1
<1>3. \A k \in 1 .. n : RefIO(maxBatch, e.tensors[k]).name = e.tensors[k].name
  BY DEF RefIO
<1>4. GetRefIO(e, maxBatch, input) =
        (CHOOSE g : Listing(g, e.tensors, maxBatch, input, n))[1 .. n]
  BY <1>2, Zenon DEF GetRefIO, FoldLeft, MapThenFoldSet, Listing, RefOf
<1>5. PICK g : /\ Listing(g, e.tensors, maxBatch, input, n)
               /\ GetRefIO(e, maxBatch, input) = g[1 .. n]
  BY <1>2, <1>4, ListingExists
<1> DEFINE T == {k \in Nat : k <= n => Once(g[1 .. k], k) /\ All(g[1 .. k], k)}
<1>6. 0 \in T
  <2>1. 1 .. 0 = {} /\ 1 .. 0 \in SUBSET (1 .. n)
    OBVIOUS
  <2>2. g[1 .. 0] = << >>
    BY <1>5, <2>1 DEF Listing
  <2> HIDE DEF R, Of
  <2>3. Once(<< >>, 0) /\ All(<< >>, 0)
    OBVIOUS
  <2> HIDE DEF Once, All
  <2> QED
    BY <2>2, <2>3
<1>7. ASSUME NEW k \in Nat, k \in T
      PROVE  k + 1 \in T
  <2> HIDE DEF Once, All
  <2> SUFFICES ASSUME k + 1 <= n PROVE Once(g[1 .. k + 1], k + 1) /\ All(g[1 .. k + 1], k + 1)
    OBVIOUS
  <2> USE DEF Once, All
  <2>1. Max(1 .. k + 1) = k + 1 /\ (1 .. k + 1) \ {k + 1} = 1 .. k
    BY LastIndex
  <2>2. 1 .. k + 1 \in SUBSET (1 .. n) /\ k + 1 \in 1 .. k + 1 /\ k + 1 \in 1 .. n /\ k <= n
    BY <1>2
  <2>3. 1 .. k + 1 # {}
    BY <2>2
  <2>4. g[1 .. k + 1] = RefOf(g[(1 .. k + 1) \ {Max(1 .. k + 1)}], maxBatch, input,
                              e.tensors[Max(1 .. k + 1)])
    BY <1>5, <2>2, <2>3 DEF Listing
  <2> DEFINE refs == g[1 .. k]
             r == RefIO(maxBatch, e.tensors[k + 1])
             t == e.tensors[k + 1]
  <2>5. g[1 .. k + 1] = IF t.input = input THEN Append(refs, r) ELSE refs
    BY <2>1, <2>4 DEF RefOf
  <2>6. Once(refs, k) /\ All(refs, k) /\ r \in R
    <3> HIDE DEF Once, All
    <3> QED
      BY <1>2, <1>7, <2>2
  <2>7. \A x : Of(x, k) => Of(x, k + 1)
    OBVIOUS
  <2>8. \A x : Of(x, k) => x.name # t.name
    <3> SUFFICES ASSUME NEW x, NEW l \in 1 .. k, x = RefIO(maxBatch, e.tensors[l]) PROVE x.name # t.name
      OBVIOUS
    <3>1. l \in 1 .. n /\ l # k + 1
      BY <1>2
    <3>2. e.tensors[l].name # t.name
      BY <1>2, <2>2, <3>1 DEF EngineTyped
    <3> QED
      BY <1>3, <3>1, <3>2
  <2>9. r.name = t.name
    BY <1>3, <2>2
  <2>10. t.input = input => Of(r, k + 1)
    BY <2>2
  <2>13. \A l \in 1 .. k + 1 : l \in 1 .. k \/ l = k + 1
    OBVIOUS
  <2> HIDE DEF R, refs, r, Of
  <2>11. CASE t.input # input
    <3>1. Once(refs, k + 1)
      BY <2>6, <2>7
    <3>2. All(refs, k + 1)
      <4> HIDE DEF In
      <4> QED
        BY <2>6, <2>11, <2>13
    <3> QED
      BY <2>5, <2>11, <3>1, <3>2
  <2>12. CASE t.input = input
    <3> DEFINE q == Append(refs, r)
    <3>1. /\ q \in Seq(R) /\ Len(refs) \in Nat /\ Len(q) = Len(refs) + 1 /\ q[Len(refs) + 1] = r
          /\ \A a \in 1 .. Len(refs) : q[a] = refs[a]
      BY <2>6
    <3>2. \A a \in 1 .. Len(q) : a \in 1 .. Len(refs) \/ a = Len(refs) + 1
      BY <3>1
    <3> HIDE DEF q
    <3>3. \A a \in 1 .. Len(q) : Of(q[a], k + 1)
      BY <2>6, <2>7, <2>10, <2>12, <3>1, <3>2
    <3>4. \A a, b \in 1 .. Len(q) : q[a].name = q[b].name => a = b
      BY <2>6, <2>8, <2>9, <3>1, <3>2
    <3>5. g[1 .. k + 1] = q
      BY <2>5, <2>12 DEF q
    <3>6. All(q, k + 1)
      <4>1. \A l : In(l, refs) => In(l, q)
        BY <3>1
      <4>2. In(k + 1, q)
        BY <3>1 DEF r
      <4> HIDE DEF In
      <4> QED
        BY <2>6, <2>13, <4>1, <4>2
    <3> QED
      BY <3>1, <3>3, <3>4, <3>5, <3>6
  <2> QED
    BY <2>11, <2>12
<1>8. Nat \subseteq T
  <2> HIDE DEF T
  <2> QED
    BY <1>6, <1>7, InductionOnSet
<1>9. Once(GetRefIO(e, maxBatch, input), n) /\ All(GetRefIO(e, maxBatch, input), n)
  <2>1. n \in T /\ n <= n
    <3> HIDE DEF T
    <3> QED
      BY <1>2, <1>8
  <2> HIDE DEF Once, All
  <2> QED
    BY <1>5, <2>1
<1> DEFINE refs == GetRefIO(e, maxBatch, input)
<1> HIDE DEF refs, R
<1>10. DOMAIN refs = 1 .. Len(refs)
  BY <1>9 DEF refs
<1> QED
  BY <1>2, <1>9, <1>10 DEF Listed, refs, R

LEMMA RefsTyped ==
  ASSUME NEW e, EngineTyped(e), NEW maxBatch, NEW input
  PROVE  DescriptionsTyped(GetRefIO(e, maxBatch, input))
<1> DEFINE R == {RefIO(maxBatch, e.tensors[k]) : k \in DOMAIN e.tensors}
           refs == GetRefIO(e, maxBatch, input)
<1>1. \A r \in R : Described(r)
  BY RefTyped DEF EngineTyped
<1>2. refs \in Seq(R)
  BY RefsListed DEF Listed
<1> HIDE DEF R, refs
<1>3. refs \in Seq(ToSet(refs))
  BY <1>2, SeqOfOwn
<1>4. \A k \in DOMAIN refs : refs[k] \in R
  BY <1>2
<1> QED
  BY <1>1, <1>3, <1>4, DescriptionsAre DEF refs

LEMMA FixedTyped ==
  ASSUME NEW io, Described(io), NEW ref, Described(ref)
  PROVE  Described(FixDescription(io, ref))
<1> DEFINE type == IF io.type = "" THEN ref.type ELSE io.type
           dims == IF io.dims = << >> THEN ref.dims ELSE io.dims
           reshape == IF io.dims = << >> /\ ref.reshape # << >> THEN ref.reshape ELSE io.reshape
           fixed == FixDescription(io, ref)
<1>1. dims \in Seq(Int) /\ reshape \in Seq(Seq(Int))
  BY DEF Described, IOTyped
<1>2. fixed = [io EXCEPT !.type = type, !.dims = dims, !.reshape = reshape,
                         !.shape = ref.shape, !.nonLinear = ref.nonLinear]
  BY DEF FixDescription
<1> HIDE DEF type, dims, reshape, fixed
<1>3. DOMAIN fixed = DOMAIN io
  BY <1>2
<1>4. /\ fixed.dims = dims /\ fixed.reshape = reshape /\ fixed.shape = ref.shape
      /\ fixed.ragged = io.ragged
  BY <1>2 DEF Described
<1> QED
  BY <1>1, <1>3, <1>4 DEF Described, IOTyped, fixed

LEMMA FixIOTyped ==
  ASSUME NEW refs, DescriptionsTyped(refs), NEW ios, DescriptionsTyped(ios)
  PROVE  DescriptionsTyped(FixIO(refs, ios))
<1> DEFINE n == Len(ios)
           refOf(io) == {k \in DOMAIN refs : refs[k].name = io.name}
           fixed == FixIO(refs, ios)
<1>1. ios \in Seq(ToSet(ios)) /\ refs \in Seq(ToSet(refs))
  BY DEF DescriptionsTyped
<1>2. /\ n \in Nat /\ DOMAIN ios = 1 .. n
      /\ Len(refs) \in Nat /\ DOMAIN refs = 1 .. Len(refs)
  BY <1>1
<1>3. CASE ios = << >>
  BY <1>3 DEF FixIO
<1>4. CASE ios # << >>
  <2>1. fixed = [k \in 1 .. n |-> IF refOf(ios[k]) = {} THEN ios[k]
                                  ELSE FixDescription(ios[k], refs[Min(refOf(ios[k]))])]
    BY <1>2, <1>4 DEF FixIO
  <2>2. ASSUME NEW k \in 1 .. n
        PROVE  Described(fixed[k])
    <3> DEFINE S == refOf(ios[k])
    <3>1. Described(ios[k])
      BY <1>2, DescriptionsAre
    <3>2. fixed[k] = IF S = {} THEN ios[k] ELSE FixDescription(ios[k], refs[Min(S)])
      BY <2>1
    <3>3. CASE S = {}
      BY <3>1, <3>2, <3>3
    <3>4. CASE S # {}
      <4>1. S \subseteq 1 .. Len(refs) /\ S \subseteq Int
        BY <1>2
      <4> HIDE DEF S
      <4>2. IsFiniteSet(S)
        <5>1. IsFiniteSet(1 .. Len(refs))
          BY <1>2, FS_Interval
        <5> QED
          BY <4>1, <5>1, FS_Subset
      <4>3. Min(S) \in S
        BY <3>4, <4>1, <4>2, Extremes
      <4>4. Described(refs[Min(S)])
        BY <1>2, <4>1, <4>3, DescriptionsAre
      <4> QED
        BY <3>1, <3>2, <3>4, <4>4, FixedTyped
    <3> QED
      BY <3>3, <3>4
  <2>3. DOMAIN fixed = 1 .. n
    BY <2>1
  <2>4. fixed = [k \in 1 .. n |-> fixed[k]]
    BY <2>1
  <2> HIDE DEF fixed, n
  <2>5. fixed \in Seq(ToSet(fixed))
    <3> DEFINE T == ToSet(fixed)
    <3>1. \A k \in 1 .. n : fixed[k] \in T
      BY <2>3 DEF ToSet
    <3> HIDE DEF T
    <3>2. fixed \in Seq(T)
      BY <1>2, <2>4, <3>1
    <3> QED
      BY <3>2 DEF T
  <2>6. DescriptionsTyped(fixed)
    BY <2>2, <2>3, <2>5, DescriptionsAre
  <2> QED
    BY <2>6 DEF fixed
<1> QED
  BY <1>3, <1>4

LEMMA NamesFinite ==
  ASSUME NEW e, EngineTyped(e)
  PROVE  IsFiniteSet(InputNames(e))
<1> DEFINE n == Len(e.tensors)
           S == {e.tensors[k].name : k \in 1 .. n}
<1>1. e.tensors \in Seq(ToSet(e.tensors))
  BY DEF EngineTyped
<1>2. n \in Nat /\ DOMAIN e.tensors = 1 .. n
  BY <1>1
<1>3. IsFiniteSet(1 .. n)
  <2> HIDE DEF n
  <2> QED
    BY <1>2, FS_Interval
<1>4. InputNames(e) \subseteq S
  BY <1>2 DEF InputNames, Names
<1> DEFINE f == [k \in 1 .. n |-> e.tensors[k].name]
<1>5. f \in Surjection(1 .. n, S)
  BY DEF Surjection
<1> HIDE DEF S, f
<1>6. IsFiniteSet(S)
  BY <1>3, <1>5, FS_Surjection
<1> QED
  BY <1>4, <1>6, FS_Subset

\* The image of a finite set of names, and of a finite set of profiles.
LEMMA FiniteImage ==
  ASSUME NEW S, IsFiniteSet(S), NEW f, DOMAIN f = S, f = [x \in S |-> f[x]]
  PROVE  IsFiniteSet({f[x] : x \in S})
<1> DEFINE T == {f[x] : x \in S}
<1>1. f \in Surjection(S, T)
  BY DEF Surjection
<1> HIDE DEF T
<1>2. IsFiniteSet(T)
  BY <1>1, FS_Surjection
<1> QED
  BY <1>2 DEF T

LEMMA ProfileBatchTyped ==
  ASSUME NEW e, EngineTyped(e), FirstDimensions(e), NEW c \in DOMAIN e.profiles
  PROVE  GetProfileMaxBatchSize(e, c) \in Int
<1> DEFINE f == [n \in InputNames(e) |->
                   IF IsShape(e, n) THEN e.profiles[c][n].high[1] ELSE e.profiles[c][n].max[1]]
           S == {f[n] : n \in InputNames(e)}
<1>1. IsFiniteSet(S)
  <2>1. DOMAIN f = InputNames(e) /\ f = [n \in InputNames(e) |-> f[n]]
    OBVIOUS
  <2> HIDE DEF f
  <2> QED
    BY <2>1, NamesFinite, FiniteImage
<1>2. \A n \in InputNames(e) : f[n] \in Int
  <2>1. TAKE n \in InputNames(e)
  <2>2. \A q \in Seq(Int) : q # << >> => q[1] \in Int
    OBVIOUS
  <2>3. CASE IsShape(e, n)
    <3>1. e.profiles[c][n].high \in Seq(Int) /\ e.profiles[c][n].high # << >>
      BY <2>3 DEF EngineTyped, FirstDimensions
    <3> QED
      BY <2>2, <2>3, <3>1
  <2>4. CASE ~IsShape(e, n)
    <3>1. e.profiles[c][n].max \in Seq(Nat) /\ e.profiles[c][n].max # << >>
      BY <2>4 DEF EngineTyped, FirstDimensions
    <3>2. e.profiles[c][n].max \in Seq(Int)
      BY <3>1
    <3> QED
      BY <2>2, <2>4, <3>1, <3>2
  <2> QED
    BY <2>3, <2>4
<1>3. GetProfileMaxBatchSize(e, c) = Min({INT_MAX} \cup S)
  BY DEF GetProfileMaxBatchSize
<1>4. S \subseteq Int
  BY <1>2
<1> HIDE DEF S
<1>5. IsFiniteSet({INT_MAX} \cup S)
  <2>1. IsFiniteSet(S \cup {INT_MAX})
    BY <1>1, FS_AddElement
  <2>2. S \cup {INT_MAX} = {INT_MAX} \cup S
    OBVIOUS
  <2> QED
    BY <2>1, <2>2
<1>6. {INT_MAX} \cup S \subseteq Int /\ {INT_MAX} \cup S # {}
  BY <1>4 DEF INT_MAX
<1>7. Min({INT_MAX} \cup S) \in Int
  BY <1>5, <1>6, Extremes
<1> QED
  BY <1>3, <1>7

LEMMA SupportedBatchTyped ==
  ASSUME NEW e, EngineTyped(e), FirstDimensions(e), NEW cfg, IsFiniteSet(cfg.groupProfiles),
         ProfileIndices(cfg) \subseteq DOMAIN e.profiles
  PROVE  GetMaxSupportedBatchSize(e, cfg) \in Nat
<1> DEFINE P == ProfileIndices(cfg)
           f == [c \in P |-> GetProfileMaxBatchSize(e, c)]
           S == {f[c] : c \in P}
<1>1. IsFiniteSet(P)
  BY FS_Singleton DEF ProfileIndices
<1>2. DOMAIN f = P /\ f = [c \in P |-> f[c]]
  OBVIOUS
<1>3. GetMaxSupportedBatchSize(e, cfg) = Max({0} \cup S)
  BY DEF GetMaxSupportedBatchSize
<1>4. S \subseteq Int
  BY ProfileBatchTyped
<1> HIDE DEF f
<1>5. IsFiniteSet(S)
  BY <1>1, <1>2, FiniteImage
<1> HIDE DEF S
<1>6. IsFiniteSet({0} \cup S)
  <2>1. IsFiniteSet(S \cup {0})
    BY <1>5, FS_AddElement
  <2>2. S \cup {0} = {0} \cup S
    OBVIOUS
  <2> QED
    BY <2>1, <2>2
<1> DEFINE A == {0} \cup S
<1>7. A \subseteq Int /\ A # {} /\ 0 \in A
  BY <1>4
<1> HIDE DEF A
<1>8. Max(A) \in A /\ \A y \in A : y <= Max(A)
  BY <1>6, <1>7, Extremes DEF A
<1>9. Max(A) \in Nat
  <2>1. Max(A) \in Int
    BY <1>7, <1>8
  <2>2. 0 <= Max(A)
    BY <1>7, <1>8
  <2> QED
    BY <2>1, <2>2
<1> QED
  BY <1>3, <1>9 DEF A

LEMMA CompletionTyped ==
  ASSUME NEW e, EngineTyped(e), FirstDimensions(e),
         NEW cfg, ConfigTyped(cfg), IsFiniteSet(cfg.groupProfiles)
  PROVE  ConfigTyped(AutoCompleteConfigHelper(e, cfg).config)
<1> DEFINE maxBatch == BatchesWanted(e, cfg)
           size == IF cfg.maxBatch = 0 THEN maxBatch ELSE cfg.maxBatch
           inputs == FixIO(GetRefIO(e, size, TRUE), cfg.inputs)
           outputs == FixIO(GetRefIO(e, size, FALSE), cfg.outputs)
           scheduler == IF maxBatch > 1 /\ cfg.scheduler = "none" THEN "dynamic" ELSE cfg.scheduler
           completed == [cfg EXCEPT !.maxBatch = size, !.scheduler = scheduler,
                                    !.inputs = inputs, !.outputs = outputs]
<1>1. \/ AutoCompleteConfigHelper(e, cfg).config = cfg
      \/ /\ ProfileIndices(cfg) \subseteq DOMAIN e.profiles
         /\ AutoCompleteConfigHelper(e, cfg).config = completed
  BY DEF AutoCompleteConfigHelper, Completed, NotCompleted
<1>2. ASSUME ProfileIndices(cfg) \subseteq DOMAIN e.profiles
      PROVE  ConfigTyped(completed)
  <2>1. size \in Nat
    <3>1. maxBatch \in Nat
      BY <1>2, SupportedBatchTyped DEF BatchesWanted
    <3> HIDE DEF maxBatch
    <3> QED
      BY <3>1 DEF ConfigTyped
  <2>2. DescriptionsTyped(inputs) /\ DescriptionsTyped(outputs)
    <3> HIDE DEF size
    <3> QED
      BY RefsTyped, FixIOTyped DEF ConfigTyped
  <2> HIDE DEF size, inputs, outputs, scheduler
  <2>3. DOMAIN completed = DOMAIN cfg
    OBVIOUS
  <2>4. /\ completed.maxBatch = size /\ completed.inputs = inputs /\ completed.outputs = outputs
        /\ completed.profiles = cfg.profiles /\ completed.controls = cfg.controls
        /\ completed.batchInputs = cfg.batchInputs /\ completed.batchOutputs = cfg.batchOutputs
        /\ completed.states = cfg.states
    BY DEF ConfigTyped
  <2> HIDE DEF completed
  <2> QED
    BY <2>1, <2>2, <2>3, <2>4 DEF ConfigTyped
<1> HIDE DEF completed
<1> QED
  BY <1>1, <1>2

-----------------------------------------------------------------------------
(***************************************************************************)
(* The configuration a model is loaded with, and what its instances are    *)
(* bound to.                                                               *)
(***************************************************************************)
\* Completion, where the user wants it, was not refused.
Completable(w, m) ==
  w.autoComplete[m] => Completions[<<w.plan[m][FirstGPU[m]], w.config[m]>>].ok

\* From the time the ModelState is ready its configuration is the completed one,
\* or the user's.
ConfigInv ==
  /\ world \in Worlds /\ DOMAIN config = Models
  /\ \A m \in Models :
       /\ phase[m] \notin {"absent", "gone"} => m \in world.loaded
       /\ phase[m] \in {"absent", "completing"} => config[m] = world.config[m]
       /\ phase[m] = "completing" => world.autoComplete[m]
       /\ phase[m] \in {"creating", "serving", "unloading"} =>
            config[m] = LoadedConfig(world, m) /\ Completable(world, m)

\* An instance that has buffers has those of the engine of its GPU and of the
\* configuration of its model, which did not change since.
BoundInv ==
  /\ DOMAIN io_binding_infos = Instances
  /\ \A i \in Instances : at[i] \in {"bound", "registered"} =>
       Bound(i).ok /\ io_binding_infos[i] = Bound(i)

BindingInv == ConfigInv /\ BoundInv

LEMMA ConfigInit == Init => ConfigInv
BY WorldsAssumption DEF Init, ConfigInv

\* The configuration changes by completion alone.
LEMMA ConfigChanges ==
  ASSUME [Next]_vars
  PROVE  \/ UNCHANGED <<phase, config>>
         \/ \E m \in Models :
              /\ PhaseStep(m) \/ \E t \in Threads : CompletionStep(t, m) \/ FinalizeModel(t, m)
              /\ UNCHANGED config \/ \E t \in Threads : ConfigCompleted(t, m)
<1>1. ASSUME NEW m \in Models, PhaseStep(m) PROVE UNCHANGED config
  BY <1>1 DEF PhaseStep, ModelInitialize, Serve, GiveUp, Unload
<1>2. ASSUME NEW t \in Threads, NEW m \in Models, CompletionStep(t, m) \/ FinalizeModel(t, m)
      PROVE  UNCHANGED config \/ ConfigCompleted(t, m)
  BY <1>2 DEF CompletionStep, AutoCompleteConfig, ConfigNotCompleted, FinalizeModel
<1>3. ASSUME NEW t \in Threads, NEW i \in Instances, InstanceStep(t, i) \/ EngineStep(t, i)
      PROVE  UNCHANGED <<phase, config>>
  BY <1>3 DEF InstanceStep, EngineStep, InitStreamsAndEvents, InitBindings, InitBindingsFails,
              RegisterInstance, InitializeCudaGraphFails, FinalizeInstance, LockCreation,
              ShareEngine, CreateEngine, CreateEngineFails, modelVars
<1>4. ASSUME NEW i \in Instances, AbandonInstance(i) PROVE UNCHANGED <<phase, config>>
  BY <1>4 DEF AbandonInstance, modelVars
<1>5. CASE UNCHANGED vars
  BY <1>5 DEF vars, modelVars
<1> QED
  BY <1>1, <1>2, <1>3, <1>4, <1>5, StepCases

LEMMA ConfigStep ==
  ASSUME TypeOK, ConfigInv, [Next]_vars
  PROVE  ConfigInv'
<1>0. world' = world /\ world \in Worlds /\ DOMAIN config = Models
  BY WorldKept DEF ConfigInv
<1>1. CASE UNCHANGED <<phase, config>>
  BY <1>0, <1>1 DEF ConfigInv
<1>2. ASSUME NEW m \in Models,
             PhaseStep(m) \/ \E t \in Threads : CompletionStep(t, m) \/ FinalizeModel(t, m),
             UNCHANGED config \/ \E t \in Threads : ConfigCompleted(t, m)
      PROVE  ConfigInv'
  <2> DEFINE Fits(p, x) ==
        /\ p \notin {"absent", "gone"} => m \in world.loaded
        /\ p \in {"absent", "completing"} => x = world.config[m]
        /\ p = "completing" => world.autoComplete[m]
        /\ p \in {"creating", "serving", "unloading"} =>
             x = LoadedConfig(world, m) /\ Completable(world, m)
  <2>1. Fits(phase[m], config[m])
    BY DEF ConfigInv
  <2>2. phase \in [Models -> Phases]
    BY DEF TypeOK
  <2>3. /\ \A k \in Models : k # m => phase'[k] = phase[k] /\ config'[k] = config[k]
        /\ DOMAIN config' = Models
    <3>1. \A k \in Models : k # m => phase'[k] = phase[k]
      BY <1>2, <2>2 DEF PhaseStep, ModelInitialize, Serve, GiveUp, Unload, CompletionStep,
                        AutoCompleteConfig, ConfigCompleted, ConfigNotCompleted, FinalizeModel
    <3>2. /\ \A k \in Models : k # m => config'[k] = config[k]
          /\ DOMAIN config' = Models
      <4>1. config' = config \/ config' = [config EXCEPT ![m] = CompletedConfig(m).config]
        BY <1>2 DEF ConfigCompleted
      <4> QED
        BY <1>0, <4>1
    <3> QED
      BY <3>1, <3>2
  <2>4. Fits(phase'[m], config'[m])
    <3>1. CASE \E t \in Threads : ConfigCompleted(t, m)
      <4>1. /\ phase[m] = "completing" /\ phase'[m] = "creating"
            /\ config'[m] = CompletedConfig(m).config /\ CompletedConfig(m).ok
        BY <1>0, <2>2, <3>1 DEF ConfigCompleted
      <4>2. LoadedConfig(world, m) = CompletedConfig(m).config
        BY <2>1, <4>1 DEF LoadedConfig, CompletedConfig
      <4>3. Completable(world, m)
        BY <4>1 DEF Completable, CompletedConfig
      <4> HIDE DEF CompletedConfig
      <4> QED
        BY <2>1, <4>1, <4>2, <4>3
    <3>2. CASE UNCHANGED config
      <4>1. \/ phase[m] = "absent" /\ phase'[m] = "creating"
               /\ m \in world.loaded /\ ~world.autoComplete[m]
            \/ phase[m] = "absent" /\ phase'[m] = "completing"
               /\ m \in world.loaded /\ world.autoComplete[m]
            \/ phase[m] \in {"creating", "serving"} /\ phase'[m] \in {"serving", "unloading"}
            \/ phase'[m] = "gone"
            \/ \E t \in Threads : ConfigCompleted(t, m)
        BY <1>2, <2>2 DEF PhaseStep, ModelInitialize, Serve, GiveUp, Unload, CompletionStep,
                          AutoCompleteConfig, ConfigNotCompleted, FinalizeModel
      <4>2. ~world.autoComplete[m] => LoadedConfig(world, m) = world.config[m] /\ Completable(world, m)
        BY DEF LoadedConfig, Completable
      <4>3. CASE \E t \in Threads : ConfigCompleted(t, m)
        BY <3>1, <4>3
      <4> HIDE DEF LoadedConfig
      <4> QED
        BY <2>1, <3>2, <4>1, <4>2, <4>3
    <3> QED
      BY <1>2, <3>1, <3>2
  <2>5. ASSUME NEW k \in Models
        PROVE  /\ phase'[k] \notin {"absent", "gone"} => k \in world.loaded
               /\ phase'[k] \in {"absent", "completing"} => config'[k] = world.config[k]
               /\ phase'[k] = "completing" => world.autoComplete[k]
               /\ phase'[k] \in {"creating", "serving", "unloading"} =>
                    config'[k] = LoadedConfig(world, k) /\ Completable(world, k)
    <3>1. CASE k = m
      BY <2>4, <3>1
    <3>2. CASE k # m
      BY <2>3, <3>2 DEF ConfigInv
    <3> QED
      BY <3>1, <3>2
  <2> QED
    BY <1>0, <2>3, <2>5 DEF ConfigInv
<1> QED
  BY <1>1, <1>2, ConfigChanges

LEMMA BoundInit == Init => BoundInv
BY DEF Init, BoundInv

\* Buffers are made by InitBindings.
LEMMA BoundChanges ==
  ASSUME TypeOK, DOMAIN io_binding_infos = Instances, [Next]_vars
  PROVE  /\ DOMAIN io_binding_infos' = Instances
         /\ \A i \in Instances : at'[i] \in {"bound", "registered"} =>
              \/ at[i] \in {"bound", "registered"} /\ io_binding_infos'[i] = io_binding_infos[i]
              \/ /\ Bound(i).ok /\ io_binding_infos'[i] = Bound(i)
                 /\ UNCHANGED <<phase, config>>
<1>0. at \in [Instances -> Stages]
  BY DEF TypeOK, Stages
<1> DEFINE Kept == /\ DOMAIN io_binding_infos' = Instances
                   /\ \A i \in Instances : at'[i] \in {"bound", "registered"} =>
                        \/ at[i] \in {"bound", "registered"} /\ io_binding_infos'[i] = io_binding_infos[i]
                        \/ /\ Bound(i).ok /\ io_binding_infos'[i] = Bound(i)
                           /\ UNCHANGED <<phase, config>>
<1> SUFFICES Kept
  OBVIOUS
<1>1. CASE UNCHANGED instanceVars
  BY <1>1 DEF instanceVars
<1>2. ASSUME NEW t \in Threads, NEW i \in Instances, EngineStep(t, i)
      PROVE  Kept
  <2>1. at'[i] \notin {"bound", "registered"} /\ \A k \in Instances : k # i => at'[k] = at[k]
    BY <1>0, <1>2, EngineMoves
  <2>2. UNCHANGED io_binding_infos
    BY <1>2 DEF EngineStep, LockCreation, ShareEngine, CreateEngine, CreateEngineFails
  <2> HIDE DEF Bound
  <2> QED
    BY <2>1, <2>2
<1>3. ASSUME NEW t \in Threads, NEW i \in Instances, InitBindings(t, i)
      PROVE  Kept
  <2>1. /\ Bound(i).ok /\ io_binding_infos' = [io_binding_infos EXCEPT ![i] = Bound(i)]
        /\ at' = [at EXCEPT ![i] = "bound"] /\ UNCHANGED <<phase, config>>
    BY <1>3 DEF InitBindings, modelVars
  <2> HIDE DEF Bound
  <2> QED
    BY <1>0, <2>1
<1>4. ASSUME NEW t \in Threads, NEW i \in Instances, RegisterInstance(t, i)
      PROVE  Kept
  <2>1. /\ at[i] = "bound" /\ at' = [at EXCEPT ![i] = "registered"]
        /\ UNCHANGED io_binding_infos
    BY <1>4 DEF RegisterInstance
  <2> QED
    BY <1>0, <2>1
<1>5. ASSUME NEW t \in Threads, NEW i \in Instances,
             \/ InitStreamsAndEvents(t, i) \/ InitBindingsFails(t, i)
             \/ InitializeCudaGraphFails(t, i) \/ FinalizeInstance(t, i)
      PROVE  Kept
  <2>1. at'[i] \notin {"bound", "registered"} /\ \A k \in Instances : k # i => at'[k] = at[k]
    BY <1>0, <1>5 DEF InitStreamsAndEvents, InitBindingsFails, InitializeCudaGraphFails, CreateFails,
                      FinalizeInstance
  <2>2. \/ UNCHANGED io_binding_infos
        \/ io_binding_infos' = [io_binding_infos EXCEPT ![i] = None]
    BY <1>5 DEF InitStreamsAndEvents, InitBindingsFails, InitializeCudaGraphFails, FinalizeInstance
  <2> QED
    BY <2>1, <2>2
<1>6. ASSUME NEW i \in Instances, AbandonInstance(i)
      PROVE  Kept
  <2>1. at' = [at EXCEPT ![i] = "abandoned"] /\ UNCHANGED io_binding_infos
    BY <1>6 DEF AbandonInstance
  <2> QED
    BY <1>0, <2>1
<1>7. UNCHANGED vars => UNCHANGED instanceVars
  BY DEF vars
<1> HIDE DEF Kept
<1>8. CASE \/ \E m \in Models : PhaseStep(m)
           \/ \E t \in Threads, m \in Models : CompletionStep(t, m) \/ FinalizeModel(t, m)
  <2>1. UNCHANGED instanceVars
    BY <1>8, ModelMoves
  <2> QED
    BY <1>1, <2>1
<1> QED
  BY <1>1, <1>2, <1>3, <1>4, <1>5, <1>6, <1>7, <1>8, StepCases DEF InstanceStep

\* The configuration of a model does not change once it has an instance.
LEMMA ConfigOfInstance ==
  ASSUME TypeOK, PhaseInv, ConfigInv, [Next]_vars,
         NEW i \in Instances, at[i] \in {"bound", "registered"}
  PROVE  Bound(i)' = Bound(i)
<1>1. ModelOf[i] \in Models /\ phase[ModelOf[i]] # "completing"
  BY PlaceTyped DEF PhaseInv, Busy
<1>2. config'[ModelOf[i]] = config[ModelOf[i]]
  <2>1. ASSUME NEW t \in Threads, NEW m \in Models, ConfigCompleted(t, m)
        PROVE  config'[ModelOf[i]] = config[ModelOf[i]]
    <3>1. m # ModelOf[i] /\ config' = [config EXCEPT ![m] = CompletedConfig(m).config]
      BY <1>1, <2>1 DEF ConfigCompleted
    <3> QED
      BY <1>1, <3>1 DEF ConfigInv
  <2> QED
    BY <2>1, ConfigChanges
<1>3. PlanOf(i)' = PlanOf(i)
  BY WorldKept DEF PlanOf
<1> QED
  BY <1>2, <1>3 DEF Bound, Initializations, LoadedConfig, Completions

LEMMA BoundStep ==
  ASSUME TypeOK, PhaseInv, ConfigInv, BoundInv, [Next]_vars
  PROVE  BoundInv'
<1>1. DOMAIN io_binding_infos = Instances
  BY DEF BoundInv
<1> SUFFICES ASSUME NEW i \in Instances, at'[i] \in {"bound", "registered"}
             PROVE  Bound(i)'.ok /\ io_binding_infos'[i] = Bound(i)'
  BY <1>1, BoundChanges DEF BoundInv
<1>2. CASE at[i] \in {"bound", "registered"} /\ io_binding_infos'[i] = io_binding_infos[i]
  <2>1. Bound(i)' = Bound(i)
    BY <1>2, ConfigOfInstance
  <2>2. Bound(i).ok /\ io_binding_infos[i] = Bound(i)
    BY <1>2 DEF BoundInv
  <2> QED
    BY <1>2, <2>1, <2>2
<1>3. CASE Bound(i).ok /\ io_binding_infos'[i] = Bound(i) /\ UNCHANGED <<phase, config>>
  <2>1. PlanOf(i)' = PlanOf(i)
    BY WorldKept DEF PlanOf
  <2>2. Bound(i)' = Bound(i)
    BY <1>3, <2>1 DEF Bound, Initializations, LoadedConfig, Completions
  <2> QED
    BY <1>3, <2>2
<1> QED
  BY <1>1, <1>2, <1>3, BoundChanges

-----------------------------------------------------------------------------
\* The configuration of a model in use is one of the right types.
LEMMA LoadedTyped ==
  ASSUME ConfigInv, NEW m \in Models, phase[m] \in {"creating", "serving", "unloading"}
  PROVE  m \in world.loaded /\ ConfigTyped(config[m])
<1>1. m \in world.loaded /\ config[m] = LoadedConfig(world, m) /\ world \in Worlds
  BY DEF ConfigInv
<1>2. ConfigTyped(world.config[m])
  BY <1>1, WorldsAssumption
<1>3. CASE ~world.autoComplete[m]
  BY <1>1, <1>2, <1>3 DEF LoadedConfig
<1>4. CASE world.autoComplete[m]
  <2> DEFINE e == world.plan[m][FirstGPU[m]]
             cfg == world.config[m]
  <2>1. FirstGPU[m] \in GPUs
    BY PlaceTyped
  <2>2. EngineTyped(e) /\ FirstDimensions(e) /\ IsFiniteSet(cfg.groupProfiles)
    BY <1>1, <1>4, <2>1, WorldsAssumption
  <2>3. config[m] = Completions[<<e, cfg>>].config
    BY <1>1, <1>4 DEF LoadedConfig
  <2>4. <<e, cfg>> \in UNION {{<<w.plan[k][FirstGPU[k]], w.config[k]>> : k \in w.loaded} : w \in Worlds}
    BY <1>1
  <2> HIDE DEF e, cfg
  <2>5. Completions[<<e, cfg>>] = AutoCompleteConfigHelper(e, cfg)
    BY <2>4 DEF Completions
  <2>6. ConfigTyped(cfg)
    BY <1>2 DEF cfg
  <2>7. ConfigTyped(AutoCompleteConfigHelper(e, cfg).config)
    BY <2>2, <2>6, CompletionTyped
  <2>8. ConfigTyped(config[m])
    BY <2>3, <2>5, <2>7
  <2> QED
    BY <1>1, <2>8
<1> QED
  BY <1>1, <1>3, <1>4

\* What an instance that is registered is bound to.
LEMMA RegisteredGood ==
  ASSUME PhaseInv, ConfigInv, BoundInv, NEW i \in Instances, at[i] = "registered"
  PROVE  LET e   == PlanOf(i)
             cfg == config[ModelOf[i]]
             st  == io_binding_infos[i]
         IN  Loadable(e, cfg) /\ Good(e, cfg, st) /\ st.ok /\ AllAllocated(st)
<1> DEFINE m == ModelOf[i]
           e == PlanOf(i)
           cfg == config[m]
           st == io_binding_infos[i]
<1>1. m \in Models /\ PlaceOf[i].gpu \in GPUs /\ phase[m] \in {"creating", "serving", "unloading"}
  BY PlaceTyped DEF PhaseInv
<1>2. m \in world.loaded /\ ConfigTyped(cfg) /\ world \in Worlds /\ cfg = LoadedConfig(world, m)
  BY <1>1, LoadedTyped DEF ConfigInv
<1>3. EngineTyped(e)
  BY <1>1, <1>2, WorldsAssumption DEF PlanOf
<1>4. st = Initializations[<<e, cfg>>] /\ st.ok
  BY DEF BoundInv, Bound
<1>5. <<e, cfg>> \in
        UNION {{<<w.plan[ModelOf[j]][PlaceOf[j].gpu], LoadedConfig(w, ModelOf[j])>> :
                  j \in {k \in Instances : ModelOf[k] \in w.loaded}} : w \in Worlds}
  BY <1>2 DEF PlanOf
<1> HIDE DEF e, cfg, st
<1>6. st = Bindings(e, cfg)
  BY <1>4, <1>5 DEF Initializations
<1>7. Loadable(e, cfg) /\ Good(e, cfg, st) /\ st.ok /\ AllAllocated(st)
  BY <1>2, <1>3, <1>4, <1>6, AcceptedGood
<1> QED
  BY <1>7 DEF e, cfg, st

LEMMA RegisteredHolds ==
  ASSUME PhaseInv, ConfigInv, BoundInv
  PROVE  BuffersHoldAdmitted
<1> SUFFICES ASSUME NEW i \in Instances, at[i] = "registered",
                    NEW c \in DOMAIN io_binding_infos[i].max, NEW n \in InputNames(PlanOf(i)),
                    NEW v \in Admitted(PlanOf(i), io_binding_infos[i], c, n),
                    NEW s \in DOMAIN io_binding_infos[i].info
             PROVE  /\ (IF IsShape(PlanOf(i), n) THEN Len(v) ELSE CopiedElements(PlanOf(i), n, v))
                         <= io_binding_infos[i].info[s][n].size
                    /\ \A o \in RoomMade(PlanOf(i), io_binding_infos[i].info[s], n) :
                         OutputElements(PlanOf(i), o, v) <= io_binding_infos[i].info[s][o].size
  BY DEF BuffersHoldAdmitted, Admitted
<1> DEFINE e == PlanOf(i)
           cfg == config[ModelOf[i]]
           st == io_binding_infos[i]
<1>1. Loadable(e, cfg) /\ Good(e, cfg, st) /\ st.ok /\ AllAllocated(st)
  BY RegisteredGood
<1> HIDE DEF cfg
<1>2. c \in Contexts(cfg) /\ s \in BufferSets(cfg)
  BY <1>1 DEF Good, States
<1> HIDE DEF e, st
<1>3. /\ (IF IsShape(e, n) THEN Len(v) ELSE CopiedElements(e, n, v)) <= st.info[s][n].size
      /\ \A o \in RoomMade(e, st.info[s], n) : OutputElements(e, o, v) <= st.info[s][o].size
  <2>1. n \in InputNames(e) /\ v \in Admitted(e, st, c, n)
    BY DEF e, st
  <2> QED
    BY <1>1, <1>2, <2>1, AdmittedFits
<1> QED
  BY <1>3 DEF e, st

\* The configuration an instance is bound to, and what it is bound to, stay the
\* same from the initialization of its bindings on: by PhaseInv a configuration is
\* completed only while its model has no instance.
LEMMA BindingInvariant == Spec => []BindingInv
<1>1. Init => BindingInv
  BY ConfigInit, BoundInit DEF BindingInv
<1>2. IInv /\ BindingInv /\ [Next]_vars => BindingInv'
  BY ConfigStep, BoundStep DEF IInv, BindingInv
<1> QED
  BY <1>1, <1>2, LoadingInvariant, PTL DEF Spec

\* Whatever shapes and values Run admits for whichever context of an instance
\* that serves, the inputs it copies and the outputs TensorRT writes fit in the
\* buffers that the instance allocated when it was initialized, of either set.
THEOREM BuffersHold == Spec => []BuffersHoldAdmitted
<1>1. IInv /\ BindingInv => BuffersHoldAdmitted
  BY RegisteredHolds DEF IInv, BindingInv
<1> QED
  BY <1>1, LoadingInvariant, BindingInvariant, PTL

=============================================================================
