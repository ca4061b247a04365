--------------------------- MODULE RecursionFacts ---------------------------
(***************************************************************************)
(* What the recursive operators of the community modules that the models   *)
(* use compute: FlattenSeq and sums by FoldFunction.                       *)
(*                                                                         *)
(* Each of them is the value of a recursive function, which TLA+ defines   *)
(* as a choice of a solution of its equation.  Each needs two inductions,  *)
(* one that a solution exists and one on what a solution is.  Induction is *)
(* used in the form "the set of naturals the claim holds of contains all   *)
(* naturals", which has no operator as a parameter.                        *)
(***************************************************************************)
EXTENDS SequencesExt, SequenceTheorems, FiniteSetTheorems, TLAPS

-----------------------------------------------------------------------------
(***************************************************************************)
(* Naturals.                                                               *)
(***************************************************************************)
LEMMA LeastNat ==
  ASSUME NEW T \in SUBSET Nat, T # {}
  PROVE  \E n \in T : \A m \in T : n <= m
<1> DEFINE R == OpToRel(<, Nat)
<1>1. IsWellFoundedOn(R, Nat)
  BY NatLessThanWellFounded
<1>2. \A m, n \in Nat : <<m, n>> \in R <=> m < n
  BY DEF OpToRel
<1> HIDE DEF R
<1>3. PICK n \in T : \A m \in T : ~(<<m, n>> \in R)
  BY <1>1, WFMin
<1>4. \A m \in T : ~(m < n)
  BY <1>2, <1>3
<1>5. \A m \in T : n <= m
  BY <1>4
<1> QED
  BY <1>5

LEMMA InductionOnSet ==
  ASSUME NEW T, 0 \in T, \A n \in Nat : n \in T => n + 1 \in T
  PROVE  Nat \subseteq T
<1> DEFINE Out == Nat \ T
<1> SUFFICES ASSUME Out # {} PROVE FALSE
  OBVIOUS
<1>1. PICK n \in Out : \A m \in Out : n <= m
  <2>1. Out \in SUBSET Nat
    OBVIOUS
  <2> QED
    BY <2>1, LeastNat
<1>2. n # 0 /\ n - 1 \in Nat /\ n - 1 \notin Out
  BY <1>1
<1> QED
  BY <1>1, <1>2

-----------------------------------------------------------------------------
(***************************************************************************)
(* FlattenSeq.                                                             *)
(***************************************************************************)
\* f[i] is the concatenation of the first i elements of s, for i up to n.
Flattens(f, s, n) ==
  f = [i \in 1 .. n |-> IF i = 1 THEN s[i] ELSE f[i-1] \o s[i]]

LEMMA FlattensExists ==
  ASSUME NEW s
  PROVE  \A n \in Nat : \E f : Flattens(f, s, n)
<1> DEFINE T == {n \in Nat : \E f : Flattens(f, s, n)}
<1>1. 0 \in T
  <2>1. Flattens([i \in 1 .. 0 |-> 0], s, 0)
    BY DEF Flattens
  <2> QED
    BY <2>1
<1>2. ASSUME NEW n \in Nat, n \in T
      PROVE  n + 1 \in T
  <2>1. PICK f : Flattens(f, s, n)
    BY <1>2
  <2> DEFINE next(h) == [i \in 1 .. n+1 |-> IF i = 1 THEN s[i] ELSE h[i-1] \o s[i]]
             g == next(f)
  <2>2. \A i \in 1 .. n : g[i] = f[i]
    <3>1. TAKE i \in 1 .. n
    <3>2. f[i] = IF i = 1 THEN s[i] ELSE f[i-1] \o s[i]
      BY <2>1 DEF Flattens
    <3> QED
      BY <3>2
  <2>3. next(f) = next(g)
    <3> HIDE DEF g
    <3>1. \A i \in 1 .. n + 1 : i # 1 => f[i-1] = g[i-1]
      BY <2>2
    <3> QED
      BY <3>1
  <2>4. g = next(g)
    <3> HIDE DEF next
    <3> QED
      BY <2>3
  <2> HIDE DEF g
  <2>5. Flattens(g, s, n + 1)
    BY <2>4 DEF Flattens
  <2> QED
    BY <2>5
<1>3. Nat \subseteq T
  <2> HIDE DEF T
  <2> QED
    BY <1>1, <1>2, InductionOnSet
<1> QED
  BY <1>3

LEMMA FlattenSeqEquation ==
  ASSUME NEW s, Len(s) \in Nat, Len(s) # 0
  PROVE  \E f : Flattens(f, s, Len(s)) /\ FlattenSeq(s) = f[Len(s)]
BY FlattensExists DEF FlattenSeq, Flattens

(***************************************************************************)
(* The pairs of elements at the same place of two sequences.  Sequences of *)
(* sequences of the same lengths are flattened to sequences that pair the  *)
(* same elements.                                                          *)
(***************************************************************************)
Pairs(s, t) == {<<s[p], t[p]>> : p \in 1 .. Len(s)}
PairsWithin(A, B, n) == UNION {Pairs(A[i], B[i]) : i \in 1 .. n}

LEMMA PairsOfConcat ==
  ASSUME NEW T, NEW s \in Seq(T), NEW t \in Seq(T), Len(s) = Len(t),
         NEW v \in Seq(T), NEW w \in Seq(T), Len(v) = Len(w)
  PROVE  /\ s \o v \in Seq(T) /\ t \o w \in Seq(T)
         /\ Len(s \o v) = Len(t \o w)
         /\ Pairs(s \o v, t \o w) = Pairs(s, t) \cup Pairs(v, w)
<1>0. s \o v \in Seq(T) /\ t \o w \in Seq(T) /\ Len(s \o v) = Len(t \o w)
  OBVIOUS
<1>1. Len(s \o v) = Len(s) + Len(v)
  OBVIOUS
<1>2. \A p \in 1 .. Len(s) : (s \o v)[p] = s[p] /\ (t \o w)[p] = t[p]
  OBVIOUS
<1>3. \A p \in 1 .. Len(v) :
        /\ Len(s) + p \in 1 .. Len(s) + Len(v)
        /\ (s \o v)[Len(s) + p] = v[p] /\ (t \o w)[Len(s) + p] = w[p]
  OBVIOUS
<1>4. \A p \in 1 .. Len(s) + Len(v) :
        p \in 1 .. Len(s) \/ (p - Len(s) \in 1 .. Len(v) /\ p = Len(s) + (p - Len(s)))
  OBVIOUS
<1>5. Pairs(s \o v, t \o w) \subseteq Pairs(s, t) \cup Pairs(v, w)
  BY <1>1, <1>2, <1>3, <1>4 DEF Pairs
<1>6. Pairs(s, t) \subseteq Pairs(s \o v, t \o w)
  BY <1>1, <1>2 DEF Pairs
<1>7. Pairs(v, w) \subseteq Pairs(s \o v, t \o w)
  BY <1>1, <1>3 DEF Pairs
<1> QED
  BY <1>0, <1>5, <1>6, <1>7

LEMMA FlattenSeqPairs ==
  ASSUME NEW T, NEW A \in Seq(Seq(T)), NEW B \in Seq(Seq(T)), Len(A) = Len(B),
         \A i \in 1 .. Len(A) : Len(A[i]) = Len(B[i])
  PROVE  /\ FlattenSeq(A) \in Seq(T)
         /\ FlattenSeq(B) \in Seq(T)
         /\ Len(FlattenSeq(A)) = Len(FlattenSeq(B))
         /\ Pairs(FlattenSeq(A), FlattenSeq(B)) = PairsWithin(A, B, Len(A))
<1>1. CASE Len(A) = 0
  <2>1. A = << >> /\ B = << >>
    BY <1>1, EmptySeq
  <2>2. FlattenSeq(A) = A /\ FlattenSeq(B) = B
    BY <1>1 DEF FlattenSeq
  <2>3. 1 .. 0 = {}
    OBVIOUS
  <2>4. Pairs(A, B) = {} /\ PairsWithin(A, B, Len(A)) = {}
    BY <1>1, <2>3 DEF Pairs, PairsWithin
  <2> QED
    BY <1>1, <2>1, <2>2, <2>4, EmptySeq
<1>2. CASE Len(A) # 0
  <2>0. Len(A) \in Nat /\ Len(B) \in Nat /\ Len(B) # 0
    BY <1>2
  <2>1. PICK f : Flattens(f, A, Len(A)) /\ FlattenSeq(A) = f[Len(A)]
    BY <1>2, <2>0, FlattenSeqEquation
  <2>2. PICK g : Flattens(g, B, Len(B)) /\ FlattenSeq(B) = g[Len(B)]
    BY <2>0, FlattenSeqEquation
  <2>3. \A i \in 1 .. Len(A) : f[i] = IF i = 1 THEN A[i] ELSE f[i-1] \o A[i]
    BY <2>1 DEF Flattens
  <2>4. \A i \in 1 .. Len(A) : g[i] = IF i = 1 THEN B[i] ELSE g[i-1] \o B[i]
    BY <2>2 DEF Flattens
  <2> DEFINE Paired(k) == /\ f[k] \in Seq(T)
                          /\ g[k] \in Seq(T)
                          /\ Len(f[k]) = Len(g[k])
                          /\ Pairs(f[k], g[k]) = PairsWithin(A, B, k)
             N == {n \in Nat : n \in 1 .. Len(A) => Paired(n)}
  <2>5. ASSUME NEW n \in Nat, n \in N
        PROVE  n + 1 \in N
    <3> SUFFICES ASSUME n + 1 \in 1 .. Len(A) PROVE Paired(n + 1)
      OBVIOUS
    <3>1. /\ A[n + 1] \in Seq(T) /\ B[n + 1] \in Seq(T)
          /\ Len(A[n + 1]) = Len(B[n + 1])
      OBVIOUS
    <3>2. CASE n = 0
      <4>1. f[1] = A[1] /\ g[1] = B[1]
        <5>1. 1 \in 1 .. Len(A) /\ 1 \in 1 .. Len(B)
          BY <3>2
        <5> HIDE DEF N, Paired
        <5> QED
          BY <2>3, <2>4, <5>1
      <4>2. 1 .. 1 = {1}
        OBVIOUS
      <4>3. PairsWithin(A, B, 1) = Pairs(A[1], B[1])
        BY <4>2 DEF PairsWithin
      <4> QED
        BY <3>1, <3>2, <4>1, <4>3
    <3>3. CASE n # 0
      <4>1. Paired(n)
        BY <2>5, <3>3
      <4>2. (n + 1) - 1 = n /\ n + 1 # 1
        BY <3>3
      <4>3. f[n + 1] = f[(n + 1) - 1] \o A[n + 1] /\ g[n + 1] = g[(n + 1) - 1] \o B[n + 1]
        BY <2>3, <2>4, <4>2
      <4>4. f[n + 1] = f[n] \o A[n + 1] /\ g[n + 1] = g[n] \o B[n + 1]
        BY <4>2, <4>3
      <4> HIDE DEF N
      <4>8. /\ f[n] \in Seq(T) /\ g[n] \in Seq(T) /\ Len(f[n]) = Len(g[n])
        BY <4>1
      <4> HIDE DEF Paired
      <4> DEFINE fn == f[n]
                 gn == g[n]
                 an == A[n + 1]
                 bn == B[n + 1]
      <4>5. /\ fn \in Seq(T) /\ gn \in Seq(T) /\ Len(fn) = Len(gn)
            /\ an \in Seq(T) /\ bn \in Seq(T) /\ Len(an) = Len(bn)
        BY <3>1, <4>8
      <4>9. /\ fn \o an \in Seq(T) /\ gn \o bn \in Seq(T)
            /\ Len(fn \o an) = Len(gn \o bn)
            /\ Pairs(fn \o an, gn \o bn) = Pairs(fn, gn) \cup Pairs(an, bn)
        <5> HIDE DEF fn, gn, an, bn
        <5> QED
          BY <4>5, PairsOfConcat
      <4>6. PairsWithin(A, B, n + 1) = PairsWithin(A, B, n) \cup Pairs(A[n + 1], B[n + 1])
        <5>1. 1 .. n + 1 = (1 .. n) \cup {n + 1}
          OBVIOUS
        <5> QED
          BY <5>1 DEF PairsWithin
      <4> QED
        BY <4>1, <4>4, <4>6, <4>9 DEF Paired
    <3> QED
      BY <3>2, <3>3
  <2>6. Nat \subseteq N
    <3>1. 0 \in N
      OBVIOUS
    <3> HIDE DEF N
    <3> QED
      BY <2>5, <3>1, InductionOnSet
  <2>7. Paired(Len(A))
    <3> HIDE DEF Paired
    <3> QED
      BY <1>2, <2>0, <2>6
  <2> QED
    BY <2>1, <2>2, <2>7
<1> QED
  BY <1>1, <1>2

-----------------------------------------------------------------------------
(***************************************************************************)
(* Sums.                                                                   *)
(***************************************************************************)
SumOf(f) == FoldFunction(+, 0, f)

\* The element the fold takes first, and the sets of at most n elements.
Pick(s) == CHOOSE x \in s : TRUE
Small(S, n) == {s \in SUBSET S : Cardinality(s) <= n}

\* g[s] is the sum of f over s, for every s of D.
Sums(g, f, D) ==
  g = [s \in D |-> IF s = {} THEN 0 ELSE f[Pick(s)] + g[s \ {Pick(s)}]]

LEMMA RemovePicked ==
  ASSUME NEW S, IsFiniteSet(S), NEW s \in SUBSET S, s # {}
  PROVE  /\ Pick(s) \in s
         /\ s \ {Pick(s)} \in SUBSET S
         /\ IsFiniteSet(s)
         /\ Cardinality(s) \in Nat /\ Cardinality(s) # 0
         /\ Cardinality(s \ {Pick(s)}) = Cardinality(s) - 1
<1>1. Pick(s) \in s
  BY DEF Pick
<1>2. IsFiniteSet(s)
  BY FS_Subset
<1>3. Cardinality(s) \in Nat /\ Cardinality(s) # 0
  BY <1>2, FS_CardinalityType, FS_EmptySet
<1>4. Cardinality(s \ {Pick(s)}) = Cardinality(s) - 1
  BY <1>1, <1>2, FS_RemoveElement
<1> QED
  BY <1>1, <1>2, <1>3, <1>4

LEMMA SumsExist ==
  ASSUME NEW f, NEW S, IsFiniteSet(S)
  PROVE  \E g : Sums(g, f, SUBSET S)
<1> DEFINE T == {n \in Nat : \E g : Sums(g, f, Small(S, n))}
<1>1. 0 \in T
  <2> DEFINE g == [s \in Small(S, 0) |-> 0]
  <2>1. \A s \in Small(S, 0) : s = {}
    <3>1. TAKE s \in Small(S, 0)
    <3>2. s \in SUBSET S /\ Cardinality(s) <= 0
      BY DEF Small
    <3>3. s # {} => Cardinality(s) \in Nat /\ Cardinality(s) # 0
      BY <3>2, RemovePicked
    <3> QED
      BY <3>2, <3>3
  <2>2. Sums(g, f, Small(S, 0))
    BY <2>1 DEF Sums
  <2> QED
    BY <2>2
<1>2. ASSUME NEW n \in Nat, n \in T
      PROVE  n + 1 \in T
  <2>1. PICK h : Sums(h, f, Small(S, n))
    BY <1>2
  <2> DEFINE step(k) == [s \in Small(S, n + 1) |->
                        IF s = {} THEN 0 ELSE f[Pick(s)] + k[s \ {Pick(s)}]]
             g == step(h)
  <2>2. \A s \in Small(S, n) : g[s] = h[s]
    <3>1. TAKE s \in Small(S, n)
    <3>2. s \in Small(S, n + 1)
      <4>1. s \in SUBSET S /\ Cardinality(s) <= n
        BY DEF Small
      <4>2. IsFiniteSet(s)
        BY <4>1, FS_Subset
      <4>3. Cardinality(s) \in Nat
        BY <4>2, FS_CardinalityType
      <4> QED
        BY <4>1, <4>3 DEF Small
    <3> QED
      BY <2>1, <3>2 DEF Sums
  <2>3. \A s \in Small(S, n + 1) : s # {} => s \ {Pick(s)} \in Small(S, n)
    BY RemovePicked DEF Small
  <2>4. step(h) = step(g)
    <3> HIDE DEF g
    <3> QED
      BY <2>2, <2>3
  <2>5. Sums(g, f, Small(S, n + 1))
    <3>1. g = step(g)
      <4> HIDE DEF step
      <4> QED
        BY <2>4
    <3> HIDE DEF g
    <3> QED
      BY <3>1 DEF Sums
  <2> HIDE DEF g
  <2> QED
    BY <2>5
<1>3. Nat \subseteq T
  <2> HIDE DEF T
  <2> QED
    BY <1>1, <1>2, InductionOnSet
<1>4. Cardinality(S) \in Nat
  BY FS_CardinalityType
<1>5. Small(S, Cardinality(S)) = SUBSET S
  BY FS_Subset DEF Small
<1>6. PICK g : Sums(g, f, Small(S, Cardinality(S)))
  BY <1>3, <1>4
<1> QED
  BY <1>5, <1>6

LEMMA SumEquation ==
  ASSUME NEW f, IsFiniteSet(DOMAIN f)
  PROVE  \E g : Sums(g, f, SUBSET DOMAIN f) /\ SumOf(f) = g[DOMAIN f]
<1>1. SumOf(f) = (CHOOSE g : Sums(g, f, SUBSET DOMAIN f))[DOMAIN f]
  BY Zenon DEF SumOf, FoldFunction, FoldFunctionOnSet, MapThenFoldSet, Sums, Pick
<1> QED
  BY <1>1, SumsExist

LEMMA SumIsNat ==
  ASSUME NEW f, IsFiniteSet(DOMAIN f), \A x \in DOMAIN f : f[x] \in Nat
  PROVE  SumOf(f) \in Nat
<1>1. PICK g : Sums(g, f, SUBSET DOMAIN f) /\ SumOf(f) = g[DOMAIN f]
  BY SumEquation
<1> DEFINE S == DOMAIN f
           T == {n \in Nat : \A s \in Small(S, n) : g[s] \in Nat}
<1>6. Sums(g, f, SUBSET S)
  BY <1>1
<1>2. 0 \in T
  <2> SUFFICES ASSUME NEW s \in Small(S, 0) PROVE g[s] \in Nat
    OBVIOUS
  <2>1. s \in SUBSET S /\ Cardinality(s) <= 0
    BY DEF Small
  <2>2. s = {}
    <3>1. s # {} => Cardinality(s) \in Nat /\ Cardinality(s) # 0
      BY <2>1, RemovePicked
    <3> QED
      BY <2>1, <3>1
  <2> QED
    BY <1>6, <2>1, <2>2 DEF Sums
<1>3. ASSUME NEW n \in Nat, n \in T
      PROVE  n + 1 \in T
  <2> SUFFICES ASSUME NEW s \in Small(S, n + 1) PROVE g[s] \in Nat
    OBVIOUS
  <2>1. s \in SUBSET S /\ Cardinality(s) <= n + 1
    BY DEF Small
  <2>2. CASE s = {}
    BY <1>6, <2>1, <2>2 DEF Sums
  <2>3. CASE s # {}
    <3>1. s \in SUBSET S /\ s \ {Pick(s)} \in Small(S, n) /\ Pick(s) \in S
      <4>1. /\ Pick(s) \in s /\ s \ {Pick(s)} \in SUBSET S
            /\ Cardinality(s) \in Nat /\ Cardinality(s \ {Pick(s)}) = Cardinality(s) - 1
        BY <2>1, <2>3, RemovePicked
      <4> QED
        BY <2>1, <4>1 DEF Small
    <3>2. g[s] = f[Pick(s)] + g[s \ {Pick(s)}]
      BY <1>6, <2>3, <3>1 DEF Sums
    <3>3. g[s \ {Pick(s)}] \in Nat
      BY <1>3, <3>1
    <3> QED
      BY <3>1, <3>2, <3>3
  <2> QED
    BY <2>2, <2>3
<1>4. Nat \subseteq T
  <2> HIDE DEF T
  <2> QED
    BY <1>2, <1>3, InductionOnSet
<1>5. Cardinality(S) \in Nat /\ S \in Small(S, Cardinality(S))
  BY FS_CardinalityType DEF Small
<1> QED
  BY <1>1, <1>4, <1>5

=============================================================================
