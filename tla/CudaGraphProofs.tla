--------------------------- MODULE CudaGraphProofs ---------------------------
(***************************************************************************)
(* What CudaGraphs promises of the graphs it captures and launches, for    *)
(* every number of inputs and profiles, every configuration and batch.     *)
(*                                                                         *)
(* A key is flattened from the shapes of the inputs and compared with      *)
(* others entry by entry or lexicographically; the first part of the       *)
(* module says what such comparisons mean for the shapes.                  *)
(***************************************************************************)
EXTENDS CudaGraphs, RecursionFacts

-----------------------------------------------------------------------------
(***************************************************************************)
(* Keys of the same length, in the order of the map.                       *)
(***************************************************************************)
LEMMA KeyOrderTotal ==
  ASSUME NEW n \in Nat, NEW k \in [1 .. n -> Nat], NEW l \in [1 .. n -> Nat], k # l
  PROVE  KeyBefore(k, l) \/ KeyBefore(l, k)
<1> DEFINE D == {i \in 1 .. n : k[i] # l[i]}
<1>1. D # {}
  OBVIOUS
<1>2. PICK i \in D : \A j \in D : i <= j
  <2>1. D \in SUBSET Nat
    OBVIOUS
  <2> HIDE DEF D
  <2> QED
    BY <1>1, <2>1, LeastNat
<1>3. \A j \in 1 .. i - 1 : k[j] = l[j]
  BY <1>2
<1>4. k[i] < l[i] \/ l[i] < k[i]
  OBVIOUS
<1> QED
  BY <1>3, <1>4 DEF KeyBefore

LEMMA KeyOrderStrict ==
  ASSUME NEW n \in Nat, NEW k \in [1 .. n -> Nat], NEW l \in [1 .. n -> Nat]
  PROVE  /\ ~KeyBefore(k, k)
         /\ KeyBefore(k, l) => ~KeyBefore(l, k)
<1>1. ~KeyBefore(k, k)
  BY DEF KeyBefore
<1>2. ASSUME KeyBefore(k, l), KeyBefore(l, k)
      PROVE  FALSE
  <2>1. PICK i \in 1 .. n : k[i] < l[i] /\ \A j \in 1 .. i - 1 : k[j] = l[j]
    BY <1>2 DEF KeyBefore
  <2>2. PICK m \in 1 .. n : l[m] < k[m] /\ \A j \in 1 .. m - 1 : l[j] = k[j]
    BY <1>2 DEF KeyBefore
  <2>3. CASE i < m
    <3>1. i \in 1 .. m - 1
      BY <2>3
    <3> QED
      BY <2>1, <2>2, <3>1
  <2>4. CASE m < i
    <3>1. m \in 1 .. i - 1
      BY <2>4
    <3> QED
      BY <2>1, <2>2, <3>1
  <2>5. CASE m = i
    BY <2>1, <2>2, <2>5
  <2> QED
    BY <2>3, <2>4, <2>5
<1> QED
  BY <1>1, <1>2

LEMMA FirstEntryOrdered ==
  ASSUME NEW n \in Nat \ {0}, NEW k \in [1 .. n -> Nat], NEW l \in [1 .. n -> Nat],
         KeyBefore(k, l)
  PROVE  k[1] <= l[1]
<1>1. PICK i \in 1 .. n : k[i] < l[i] /\ \A j \in 1 .. i - 1 : k[j] = l[j]
  BY DEF KeyBefore
<1>2. i = 1 \/ 1 \in 1 .. i - 1
  OBVIOUS
<1> QED
  BY <1>1, <1>2

LEMMA NoneBelowIsBefore ==
  ASSUME NEW n \in Nat, NEW k \in [1 .. n -> Nat], NEW l \in [1 .. n -> Nat],
         \A i \in 1 .. n : l[i] <= k[i]
  PROVE  ~KeyBefore(k, l)
BY DEF KeyBefore

\* The order of keys is well founded, so the map has a first graph; no two
\* graphs of it have the same key.
LEMMA FirstGraphExists ==
  ASSUME NEW n \in Nat, NEW graphs, graphs # {},
         \A g \in graphs : g.key \in [1 .. n -> Nat],
         \A g, h \in graphs : g.key = h.key => g = h
  PROVE  /\ FirstGraph(graphs) \in graphs
         /\ \A h \in graphs \ {FirstGraph(graphs)} :
              KeyBefore(FirstGraph(graphs).key, h.key)
<1> DEFINE R == OpToRel(<, Nat)
           L == LexProductOrdering(R, Nat, n)
           T == {g.key : g \in graphs}
<1>1. IsWellFoundedOn(L, [1 .. n -> Nat])
  <2>1. IsWellFoundedOn(R, Nat)
    BY NatLessThanWellFounded
  <2> HIDE DEF R
  <2> QED
    BY <2>1, WFLexProductOrdering
<1>2. \A k, l \in [1 .. n -> Nat] : KeyBefore(k, l) => <<k, l>> \in L
  <2>1. \A a, b \in Nat : a < b => <<a, b>> \in R
    BY DEF OpToRel
  <2> HIDE DEF R
  <2>2. TAKE k, l \in [1 .. n -> Nat]
  <2> SUFFICES ASSUME KeyBefore(k, l) PROVE <<k, l>> \in L
    OBVIOUS
  <2>3. PICK i \in 1 .. n : k[i] < l[i] /\ \A j \in 1 .. i - 1 : k[j] = l[j]
    BY DEF KeyBefore
  <2>4. <<k[i], l[i]>> \in R
    BY <2>1, <2>3
  <2> QED
    BY <2>3, <2>4 DEF LexProductOrdering
<1>3. PICK k \in T : \A l \in T : ~(<<l, k>> \in L)
  <2>1. T \subseteq [1 .. n -> Nat] /\ T # {}
    OBVIOUS
  <2> HIDE DEF L, T
  <2> QED
    BY <1>1, <2>1, WFMin
<1>4. PICK g \in graphs : g.key = k
  OBVIOUS
<1>5. \A h \in graphs \ {g} : KeyBefore(g.key, h.key)
  <2>1. TAKE h \in graphs \ {g}
  <2>2. h.key \in [1 .. n -> Nat] /\ g.key \in [1 .. n -> Nat] /\ h.key # g.key
    OBVIOUS
  <2>3. ~KeyBefore(h.key, g.key)
    <3> HIDE DEF L
    <3> QED
      BY <1>2, <1>3, <1>4, <2>2
  <2> QED
    BY <2>2, <2>3, KeyOrderTotal
<1> QED
  BY <1>5 DEF FirstGraph

-----------------------------------------------------------------------------
(***************************************************************************)
(* Keys and the shapes they are flattened from.                            *)
(***************************************************************************)
\* The number of dimensions of an input.
Dims(i) == IF Inputs[i] = "plain" /\ MaxBatchSize > 0 THEN 2 ELSE 1

\* Shapes of all inputs, each of its number of dimensions.
IsShapes(A) ==
  /\ A \in Seq(Seq(Int)) /\ Len(A) = Len(Inputs)
  /\ \A i \in InputIndices : Len(A[i]) = Dims(i)

LEMMA InputsCounted == Len(Inputs) \in Nat
BY ProfilesAssumption

\* The entries k and l have at the same place are a and b, or those A and B
\* have at the same place, and all of them are there.
PairsOnly(k, l, a, b, A, B) ==
  \A p \in 1 .. Len(k) :
    \/ k[p] = a /\ l[p] = b
    \/ \E i \in InputIndices : \E d \in 1 .. Dims(i) : k[p] = A[i][d] /\ l[p] = B[i][d]
PairsAll(k, l, A, B) ==
  \A i \in InputIndices : \A d \in 1 .. Dims(i) :
    \E p \in 1 .. Len(k) : k[p] = A[i][d] /\ l[p] = B[i][d]

\* Two keys, place by place: batch sizes first, then dimension for dimension.
Aligned(k, l, a, b, A, B) ==
  /\ k \in Seq(Int) /\ l \in Seq(Int)
  /\ Len(k) = Len(l) /\ Len(k) \in Nat \ {0}
  /\ k[1] = a /\ l[1] = b
  /\ PairsOnly(k, l, a, b, A, B) /\ PairsAll(k, l, A, B)

LEMMA KeyPairs ==
  ASSUME NEW a \in Int, NEW b \in Int, NEW A, NEW B, IsShapes(A), IsShapes(B),
         NEW k, NEW l, k = Key(a, A), l = Key(b, B)
  PROVE  Aligned(k, l, a, b, A, B)
<1> DEFINE F == FlattenSeq(A)
           G == FlattenSeq(B)
<1>1. /\ F \in Seq(Int) /\ G \in Seq(Int) /\ Len(F) = Len(G)
      /\ Pairs(F, G) = PairsWithin(A, B, Len(A))
  <2>1. /\ A \in Seq(Seq(Int)) /\ B \in Seq(Seq(Int)) /\ Len(A) = Len(B)
        /\ \A i \in 1 .. Len(A) : Len(A[i]) = Len(B[i])
    BY DEF IsShapes, InputIndices
  <2> QED
    BY <2>1, FlattenSeqPairs
<1>2. k = <<a>> \o F /\ l = <<b>> \o G
  BY DEF Key
<1> HIDE DEF F, G
<1>3. /\ k \in Seq(Int) /\ l \in Seq(Int)
      /\ Len(k) = Len(F) + 1 /\ Len(l) = Len(G) + 1
      /\ k[1] = a /\ l[1] = b
      /\ \A p \in 1 .. Len(F) : k[p + 1] = F[p] /\ l[p + 1] = G[p]
  BY <1>1, <1>2
<1>4. \A p \in 1 .. Len(F) : \E i \in InputIndices : \E d \in 1 .. Dims(i) :
        F[p] = A[i][d] /\ G[p] = B[i][d]
  <2>1. TAKE p \in 1 .. Len(F)
  <2>2. <<F[p], G[p]>> \in PairsWithin(A, B, Len(A))
    BY <1>1 DEF Pairs
  <2>3. PICK i \in 1 .. Len(A) : <<F[p], G[p]>> \in Pairs(A[i], B[i])
    BY <2>2 DEF PairsWithin
  <2>4. PICK d \in 1 .. Len(A[i]) : <<F[p], G[p]>> = <<A[i][d], B[i][d]>>
    BY <2>3 DEF Pairs
  <2> QED
    BY <2>4 DEF IsShapes, InputIndices
<1>5. \A i \in InputIndices : \A d \in 1 .. Dims(i) : \E p \in 1 .. Len(F) :
        F[p] = A[i][d] /\ G[p] = B[i][d]
  <2>1. TAKE i \in InputIndices
  <2>2. TAKE d \in 1 .. Dims(i)
  <2>3. i \in 1 .. Len(A) /\ d \in 1 .. Len(A[i])
    BY DEF IsShapes, InputIndices
  <2>4. <<A[i][d], B[i][d]>> \in Pairs(A[i], B[i])
    BY <2>3 DEF Pairs
  <2>5. <<A[i][d], B[i][d]>> \in Pairs(F, G)
    BY <1>1, <2>3, <2>4 DEF PairsWithin
  <2> QED
    BY <2>5 DEF Pairs
<1>6. Len(F) \in Nat /\ Len(k) \in Nat \ {0} /\ Len(k) = Len(l)
  BY <1>1, <1>3
<1>7. PairsOnly(k, l, a, b, A, B)
  <2> USE DEF PairsOnly
  <2>1. TAKE p \in 1 .. Len(k)
  <2>2. CASE p = 1
    BY <1>3, <2>2
  <2>3. CASE p # 1
    <3>1. p - 1 \in 1 .. Len(F) /\ (p - 1) + 1 = p
      BY <1>3, <1>6, <2>3
    <3>2. k[p] = F[p - 1] /\ l[p] = G[p - 1]
      BY <1>3, <3>1
    <3> QED
      BY <1>4, <3>1, <3>2
  <2> QED
    BY <2>2, <2>3
<1>8. PairsAll(k, l, A, B)
  <2> USE DEF PairsAll
  <2>1. TAKE i \in InputIndices
  <2>2. TAKE d \in 1 .. Dims(i)
  <2>3. PICK p \in 1 .. Len(F) : F[p] = A[i][d] /\ G[p] = B[i][d]
    BY <1>5
  <2>4. p + 1 \in 1 .. Len(k)
    BY <1>3, <1>6
  <2> QED
    BY <1>3, <2>3, <2>4
<1> QED
  BY <1>3, <1>6, <1>7, <1>8 DEF Aligned

\* Keys of shapes compare as their batch sizes and dimensions do.
LEMMA KeysPointwise ==
  ASSUME NEW a \in Int, NEW b \in Int, NEW A, NEW B, IsShapes(A), IsShapes(B),
         NEW k, NEW l, k = Key(a, A), l = Key(b, B)
  PROVE  /\ (\A p \in DOMAIN k : k[p] <= l[p])
              <=> /\ a <= b
                  /\ \A i \in InputIndices : \A d \in 1 .. Dims(i) : A[i][d] <= B[i][d]
         /\ k = l <=> /\ a = b
                      /\ \A i \in InputIndices : \A d \in 1 .. Dims(i) : A[i][d] = B[i][d]
<1>0. Aligned(k, l, a, b, A, B)
  BY KeyPairs
<1>1. /\ k \in Seq(Int) /\ l \in Seq(Int)
      /\ Len(k) = Len(l) /\ Len(k) \in Nat \ {0}
      /\ k[1] = a /\ l[1] = b
  BY <1>0 DEF Aligned
<1>2. PairsOnly(k, l, a, b, A, B) /\ PairsAll(k, l, A, B)
  BY <1>0 DEF Aligned
<1>3. DOMAIN k = 1 .. Len(k) /\ 1 \in 1 .. Len(k)
  BY <1>1
<1>4. (\A p \in DOMAIN k : k[p] <= l[p])
        <=> /\ a <= b
            /\ \A i \in InputIndices : \A d \in 1 .. Dims(i) : A[i][d] <= B[i][d]
  <2>1. ASSUME \A p \in DOMAIN k : k[p] <= l[p]
        PROVE  /\ a <= b
               /\ \A i \in InputIndices : \A d \in 1 .. Dims(i) : A[i][d] <= B[i][d]
    <3>1. a <= b
      BY <1>1, <1>3, <2>1
    <3>2. ASSUME NEW i \in InputIndices, NEW d \in 1 .. Dims(i)
          PROVE  A[i][d] <= B[i][d]
      <4>1. PICK p \in 1 .. Len(k) : k[p] = A[i][d] /\ l[p] = B[i][d]
        BY <1>2 DEF PairsAll
      <4> QED
        BY <1>3, <2>1, <4>1
    <3> QED
      BY <3>1, <3>2
  <2>2. ASSUME a <= b,
               \A i \in InputIndices : \A d \in 1 .. Dims(i) : A[i][d] <= B[i][d]
        PROVE  \A p \in DOMAIN k : k[p] <= l[p]
    BY <1>2, <1>3, <2>2 DEF PairsOnly
  <2> QED
    BY <2>1, <2>2
<1>5. k = l <=> /\ a = b
                /\ \A i \in InputIndices : \A d \in 1 .. Dims(i) : A[i][d] = B[i][d]
  <2>1. ASSUME k = l
        PROVE  /\ a = b
               /\ \A i \in InputIndices : \A d \in 1 .. Dims(i) : A[i][d] = B[i][d]
    BY <1>1, <1>2, <2>1 DEF PairsAll
  <2>2. ASSUME a = b,
               \A i \in InputIndices : \A d \in 1 .. Dims(i) : A[i][d] = B[i][d]
        PROVE  k = l
    <3>1. \A p \in 1 .. Len(k) : k[p] = l[p]
      BY <1>2, <2>2 DEF PairsOnly
    <3> QED
      BY <1>1, <3>1, SeqEqual
  <2> QED
    BY <2>1, <2>2
<1> QED
  BY <1>4, <1>5

-----------------------------------------------------------------------------
(***************************************************************************)
(* Shapes of batches, profiles and graph specs.                            *)
(***************************************************************************)
LEMMA ShapeOfDims ==
  ASSUME NEW b, NEW i
  PROVE  /\ DOMAIN ShapeOf(b, i) = 1 .. Dims(i)
         /\ Len(ShapeOf(b, i)) = Dims(i)
         /\ Dims(i) \in {1, 2}
         /\ ShapeOf(b, i)[Dims(i)] = b.own[i]
         /\ Dims(i) = 2 => ShapeOf(b, i)[1] = b.batch
         /\ b.batch \in Int /\ b.own[i] \in Int => ShapeOf(b, i) \in Seq(Int)
<1>1. CASE Inputs[i] = "plain" /\ MaxBatchSize > 0
  <2>1. Dims(i) = 2 /\ ShapeOf(b, i) = <<b.batch, b.own[i]>>
    BY <1>1 DEF ShapeOf, Dims
  <2> QED
    BY <2>1
<1>2. CASE ~(Inputs[i] = "plain" /\ MaxBatchSize > 0)
  <2>1. Dims(i) = 1 /\ ShapeOf(b, i) = <<b.own[i]>>
    BY <1>2 DEF ShapeOf, Dims
  <2> QED
    BY <2>1
<1> QED
  BY <1>1, <1>2

LEMMA ContextsCounted == Len(Profiles) \in Nat /\ Len(Profiles) # 0
<1> DEFINE P == [min : Sizes, opt : Sizes, max : Sizes]
<1>1. Profiles \in Seq(P) /\ Profiles # << >>
  BY ProfilesAssumption
<1> HIDE DEF P
<1> QED
  BY <1>1

LEMMA ProfileBounds ==
  ASSUME NEW c \in Contexts
  PROVE  Profiles[c].min \in Sizes /\ Profiles[c].opt \in Sizes /\ Profiles[c].max \in Sizes
<1> DEFINE P == [min : Sizes, opt : Sizes, max : Sizes]
<1>1. Profiles[c] \in P
  <2>1. Profiles \in Seq(P)
    BY ProfilesAssumption
  <2> HIDE DEF P
  <2> QED
    BY <2>1 DEF Contexts
<1> QED
  BY <1>1

LEMMA SizesShapes ==
  ASSUME NEW b \in Sizes, NEW i \in InputIndices
  PROVE  /\ b.batch \in Nat /\ b.own[i] \in Nat
         /\ ShapeOf(b, i) \in Seq(Int)
         /\ \A d \in 1 .. Dims(i) : ShapeOf(b, i)[d] \in Nat
<1>1. b.batch \in Nat /\ b.own[i] \in Nat
  BY DEF Sizes
<1> QED
  BY <1>1, ShapeOfDims

\* What a profile admits has its dimensions, all natural numbers.
LEMMA InProfileShape ==
  ASSUME NEW c \in Contexts, NEW i \in InputIndices, NEW shape \in Seq(Int),
         InProfile(c, i, shape)
  PROVE  /\ Len(shape) = Dims(i)
         /\ \A d \in 1 .. Dims(i) : shape[d] \in Nat
<1>1. Len(shape) = Dims(i)
  BY ShapeOfDims DEF InProfile
<1>2. \A d \in 1 .. Dims(i) : ShapeOf(Profiles[c].min, i)[d] \in Nat
  BY ProfileBounds, SizesShapes
<1>3. \A d \in 1 .. Dims(i) : shape[d] \in Int /\ ShapeOf(Profiles[c].min, i)[d] <= shape[d]
  BY <1>1, <1>2 DEF InProfile
<1> QED
  BY <1>1, <1>2, <1>3

BatchShapes(b) == [i \in InputIndices |-> ShapeOf(b, i)]

LEMMA BatchShapesTyped ==
  ASSUME NEW b \in Sizes
  PROVE  IsShapes(BatchShapes(b))
BY SizesShapes, ShapeOfDims, InputsCounted DEF BatchShapes, IsShapes, InputIndices

\* Specs that passed ValidateGraphSpec.
ValidSpecs == {spec \in GraphSpecs : ValidateGraphSpec(spec)}

LEMMA ValidSpecTyped ==
  ASSUME NEW spec \in ValidSpecs
  PROVE  /\ spec.batch \in Nat /\ spec.lower_batch \in Nat
         /\ spec.lower_batch <= spec.batch
         /\ LowerBatch(spec) \in Nat
         /\ MaxBatchSize > 0 => LowerBatch(spec) = spec.lower_batch
         /\ spec.shapes \in Seq(Int)
         /\ \A i \in DOMAIN spec.shapes :
              /\ spec.shapes[i] \in Int /\ spec.lower_shapes[i] \in Int
              /\ spec.lower_shapes[i] <= spec.shapes[i]
         /\ ~spec.bounded =>
              spec.lower_batch = spec.batch /\ spec.lower_shapes = spec.shapes
<1>1. /\ spec.batch \in Int /\ spec.lower_batch \in Int
      /\ spec.shapes \in Seq(Int) /\ spec.lower_shapes \in Seq(Int)
      /\ ~spec.bounded =>
           spec.lower_batch = spec.batch /\ spec.lower_shapes = spec.shapes
      /\ ValidateGraphSpec(spec)
  BY DEF ValidSpecs, GraphSpecs
<1>2. /\ spec.batch \in Nat /\ spec.lower_batch \in Nat
      /\ spec.lower_batch <= spec.batch
      /\ MaxBatchSize > 0 => spec.lower_batch # 0
  BY <1>1, ProfilesAssumption DEF ValidateGraphSpec, ValidBatchSize
<1>3. LowerBatch(spec) \in Nat /\ (MaxBatchSize > 0 => LowerBatch(spec) = spec.lower_batch)
  BY <1>2 DEF LowerBatch
<1>4. \A i \in DOMAIN spec.shapes :
        /\ spec.shapes[i] \in Int /\ spec.lower_shapes[i] \in Int
        /\ spec.lower_shapes[i] <= spec.shapes[i]
  BY <1>1 DEF ValidateGraphSpec
<1> QED
  BY <1>1, <1>2, <1>3, <1>4

LEMMA DefaultSpecValid ==
  ASSUME NEW n, ValidateGraphSpec(DefaultSpec(n))
  PROVE  DefaultSpec(n) \in ValidSpecs
<1>1. n \in Int
  BY ProfilesAssumption DEF ValidateGraphSpec, ValidBatchSize, DefaultSpec
<1>2. DefaultSpec(n) \in GraphSpecs
  BY <1>1 DEF DefaultSpec, GraphSpecs
<1> QED
  BY <1>2 DEF ValidSpecs

GraphShapes(spec, c) == [i \in InputIndices |-> GraphShape(spec, c, i)]
LowerShapes(spec, c) == [i \in InputIndices |-> LowerShape(spec, c, i)]

LEMMA GraphShapeTyped ==
  ASSUME NEW spec \in ValidSpecs, NEW c \in Contexts, NEW i \in InputIndices,
         spec.shapes # << >> => i \in DOMAIN spec.shapes
  PROVE  GraphShape(spec, c, i) \in Seq(Int) /\ Len(GraphShape(spec, c, i)) = Dims(i)
<1>1. CASE spec.shapes # << >>
  <2> DEFINE b == [batch |-> spec.batch, own |-> spec.shapes]
  <2>1. b.batch \in Int /\ b.own[i] \in Int
    BY <1>1, ValidSpecTyped
  <2>2. GraphShape(spec, c, i) = ShapeOf(b, i)
    BY <1>1 DEF GraphShape
  <2> HIDE DEF b
  <2> QED
    BY <2>1, <2>2, ShapeOfDims
<1>2. CASE spec.shapes = << >>
  <2> DEFINE opt == ShapeOf(Profiles[c].opt, i)
  <2>1. opt \in Seq(Int) /\ Len(opt) = Dims(i) /\ Dims(i) \in {1, 2}
    BY ProfileBounds, SizesShapes, ShapeOfDims
  <2>2. GraphShape(spec, c, i) \in {opt, [opt EXCEPT ![1] = spec.batch]}
    BY <1>2 DEF GraphShape
  <2>3. spec.batch \in Int
    BY ValidSpecTyped
  <2> HIDE DEF opt
  <2>4. [opt EXCEPT ![1] = spec.batch] \in Seq(Int) /\ Len([opt EXCEPT ![1] = spec.batch]) = Len(opt)
    <3>1. 1 \in 1 .. Len(opt)
      BY <2>1
    <3> QED
      BY <2>1, <2>3, <3>1, ExceptSeq
  <2> QED
    BY <2>1, <2>2, <2>4
<1> QED
  BY <1>1, <1>2

LEMMA LowerShapeTyped ==
  ASSUME NEW spec \in ValidSpecs, NEW c \in Contexts, NEW i \in InputIndices,
         spec.shapes # << >> => i \in DOMAIN spec.shapes
  PROVE  /\ LowerShape(spec, c, i) \in Seq(Int)
         /\ MaxBatchSize > 0 => Len(LowerShape(spec, c, i)) = Dims(i)
<1>1. CASE spec.shapes = << >>
  <2>1. LowerShape(spec, c, i) = GraphShape(spec, c, i)
    BY <1>1 DEF LowerShape
  <2> QED
    BY <2>1, GraphShapeTyped
<1>2. CASE spec.shapes # << >>
  <2>1. spec.lower_shapes[i] \in Int /\ LowerBatch(spec) \in Int
    BY <1>2, ValidSpecTyped
  <2>2. CASE Inputs[i] = "plain"
    <3>1. LowerShape(spec, c, i) = <<LowerBatch(spec), spec.lower_shapes[i]>>
      BY <1>2, <2>2 DEF LowerShape
    <3> HIDE DEF LowerBatch
    <3> QED
      BY <2>1, <2>2, <3>1 DEF Dims
  <2>3. CASE Inputs[i] # "plain"
    <3>1. LowerShape(spec, c, i) = <<spec.lower_shapes[i]>>
      BY <1>2, <2>3 DEF LowerShape
    <3> QED
      BY <2>1, <2>3, <3>1 DEF Dims
  <2> QED
    BY <2>2, <2>3
<1> QED
  BY <1>1, <1>2

LEMMA SpecShapesTyped ==
  ASSUME NEW spec \in ValidSpecs, NEW c \in Contexts, ShapesAccepted(spec, c)
  PROVE  /\ IsShapes(GraphShapes(spec, c))
         /\ \A i \in InputIndices : \A d \in 1 .. Dims(i) :
              GraphShapes(spec, c)[i][d] \in Nat
         /\ MaxBatchSize > 0 => IsShapes(LowerShapes(spec, c))
<1>1. \A i \in InputIndices : spec.shapes # << >> => i \in DOMAIN spec.shapes
  BY DEF ShapesAccepted
<1>2. IsShapes(GraphShapes(spec, c))
  BY <1>1, GraphShapeTyped, InputsCounted DEF GraphShapes, IsShapes, InputIndices
<1>3. \A i \in InputIndices : \A d \in 1 .. Dims(i) : GraphShapes(spec, c)[i][d] \in Nat
  BY <1>1, GraphShapeTyped, InProfileShape DEF GraphShapes, ShapesAccepted
<1>4. MaxBatchSize > 0 => IsShapes(LowerShapes(spec, c))
  BY <1>1, LowerShapeTyped, InputsCounted DEF LowerShapes, IsShapes, InputIndices
<1> QED
  BY <1>2, <1>3, <1>4

-----------------------------------------------------------------------------
(***************************************************************************)
(* Graphs and their lookup.                                                *)
(***************************************************************************)
\* A graph captured for a spec of the configuration in context c.
IsGraph(g, c) ==
  /\ g.spec \in ValidSpecs
  /\ ShapesAccepted(g.spec, c)
  /\ g.key = Key(g.spec.batch, GraphShapes(g.spec, c))
  /\ g.input_dims = GraphShapes(g.spec, c)
  /\ g.lower_bound_key = Key(LowerBatch(g.spec), LowerShapes(g.spec, c))
  /\ g.buffers \in 0 .. NumCopyStreams - 1

\* What an event set of context c holds: no key twice, and a graph with bounds
\* only when lookups may be inexact.
IsMap(graphs, c) ==
  /\ \A g \in graphs : IsGraph(g, c) /\ (g.spec.bounded => allow_inexact_match_)
  /\ \A g, h \in graphs : g.key = h.key => g = h

LEMMA BatchKeyIsKey ==
  ASSUME NEW b
  PROVE  BatchKey(b) = Key(b.batch, BatchShapes(b))
BY DEF BatchKey, BatchShapes

LEMMA GraphKeyTyped ==
  ASSUME NEW c \in Contexts, NEW g, IsGraph(g, c), NEW b \in Sizes
  PROVE  LET n == Len(BatchKey(b))
         IN  /\ n \in Nat \ {0}
             /\ DOMAIN BatchKey(b) = 1 .. n
             /\ BatchKey(b) \in [1 .. n -> Nat]
             /\ g.key \in [1 .. n -> Nat]
             /\ g.key # << >>
             /\ BatchKey(b)[1] = b.batch /\ g.key[1] = g.spec.batch
             /\ MaxBatchSize > 0 => Len(g.lower_bound_key) = Len(g.key)
<1> DEFINE k == BatchKey(b)
           A == BatchShapes(b)
           B == GraphShapes(g.spec, c)
           C == LowerShapes(g.spec, c)
<1>1. /\ IsShapes(A) /\ IsShapes(B) /\ (MaxBatchSize > 0 => IsShapes(C))
      /\ b.batch \in Nat /\ g.spec.batch \in Nat /\ LowerBatch(g.spec) \in Nat
  BY BatchShapesTyped, SpecShapesTyped, ValidSpecTyped DEF IsGraph, Sizes
<1>2. /\ \A i \in InputIndices : \A d \in 1 .. Dims(i) : A[i][d] \in Nat
      /\ \A i \in InputIndices : \A d \in 1 .. Dims(i) : B[i][d] \in Nat
  BY SizesShapes, SpecShapesTyped DEF BatchShapes, IsGraph
<1>3. /\ k = Key(b.batch, A) /\ g.key = Key(g.spec.batch, B)
      /\ g.lower_bound_key = Key(LowerBatch(g.spec), C)
  BY BatchKeyIsKey DEF IsGraph
<1> HIDE DEF k, A, B, C
<1>4. /\ k \in Seq(Int) /\ g.key \in Seq(Int)
      /\ Len(k) = Len(g.key) /\ Len(k) \in Nat \ {0}
      /\ k[1] = b.batch /\ g.key[1] = g.spec.batch
      /\ PairsOnly(k, g.key, b.batch, g.spec.batch, A, B)
  <2> DEFINE x == b.batch
             y == g.spec.batch
             l == g.key
  <2>1. x \in Int /\ y \in Int /\ k = Key(x, A) /\ l = Key(y, B)
    BY <1>1, <1>3
  <2> HIDE DEF x, y, l
  <2>2. Aligned(k, l, x, y, A, B)
    BY <1>1, <2>1, KeyPairs
  <2> QED
    BY <2>2 DEF x, y, l, Aligned
<1>5. \A p \in 1 .. Len(k) : k[p] \in Nat /\ g.key[p] \in Nat
  BY <1>1, <1>2, <1>4 DEF PairsOnly
<1>6. k \in [1 .. Len(k) -> Nat] /\ g.key \in [1 .. Len(k) -> Nat] /\ DOMAIN k = 1 .. Len(k)
  BY <1>4, <1>5
<1>7. ASSUME MaxBatchSize > 0
      PROVE  Len(g.lower_bound_key) = Len(g.key)
  <2> DEFINE x == LowerBatch(g.spec)
             y == g.spec.batch
             l == g.lower_bound_key
             m == g.key
  <2>1. /\ x \in Int /\ y \in Int /\ IsShapes(C)
        /\ l = Key(x, C) /\ m = Key(y, B)
    BY <1>1, <1>3, <1>7
  <2> HIDE DEF x, y, l, m
  <2>2. Aligned(l, m, x, y, C, B)
    BY <1>1, <2>1, KeyPairs
  <2> QED
    BY <2>2 DEF l, m, Aligned
<1>8. g.key # << >>
  BY <1>4
<1> QED
  BY <1>4, <1>6, <1>7, <1>8 DEF k

\* The lookup finds a graph of the set, exact or standing for the batch, none
\* of a smaller batch size stands for it, and an exact one is preferred.
LEMMA LookupFinds ==
  ASSUME NEW c \in Contexts, NEW s, IsMap(cuda_graph_execs_[c][s], c),
         NEW b \in Sizes,
         FindClosestCudaGraph(c, s, BatchKey(b)) # NoGraph
  PROVE  LET found == FindClosestCudaGraph(c, s, BatchKey(b))
         IN  /\ found \in cuda_graph_execs_[c][s]
             /\ found.key = BatchKey(b) \/ Stands(found, BatchKey(b))
             /\ \A g \in cuda_graph_execs_[c][s] :
                  /\ Stands(g, BatchKey(b)) => g.spec.batch >= found.spec.batch
                  /\ g.key = BatchKey(b) => found = g
<1> DEFINE graphs == cuda_graph_execs_[c][s]
           k == BatchKey(b)
           n == Len(k)
           from == {g \in graphs : ~KeyBefore(g.key, k)}
           near == {g \in from : Stands(g, k)}
           found == FindClosestCudaGraph(c, s, k)
<1>1. \A g \in graphs :
        /\ IsGraph(g, c) /\ n \in Nat \ {0}
        /\ DOMAIN k = 1 .. n /\ k \in [1 .. n -> Nat] /\ g.key \in [1 .. n -> Nat]
        /\ g.key # << >> /\ k[1] = b.batch /\ g.key[1] = g.spec.batch
        /\ g.spec.batch \in Nat
  BY GraphKeyTyped, ValidSpecTyped DEF IsMap, IsGraph
<1>2. \A g, h \in graphs : g.key = h.key => g = h
  BY DEF IsMap
<1>3. found = IF FirstGraph(from).key = k THEN FirstGraph(from)
              ELSE IF allow_inexact_match_ THEN FirstGraph(near) ELSE NoGraph
  BY DEF FindClosestCudaGraph
<1>4. FirstGraph({}) = NoGraph
  BY DEF FirstGraph
<1>5. k # << >>
  <2>1. b.batch \in Int /\ IsShapes(BatchShapes(b)) /\ k = Key(b.batch, BatchShapes(b))
    BY BatchShapesTyped, BatchKeyIsKey DEF Sizes
  <2> HIDE DEF k
  <2>2. Aligned(k, k, b.batch, b.batch, BatchShapes(b), BatchShapes(b))
    BY <2>1, KeyPairs
  <2> QED
    BY <2>2 DEF Aligned
<1>14. found # NoGraph
  OBVIOUS
<1> HIDE DEF found, from, near
<1>6. from # {}
  <2>1. SUFFICES ASSUME from = {} PROVE FALSE
    OBVIOUS
  <2>2. near = {}
    BY <2>1 DEF near
  <2>3. found = NoGraph
    BY <1>3, <1>4, <2>1, <2>2
  <2> QED
    BY <1>14, <2>3
<1>7. from \subseteq graphs /\ near \subseteq from
  BY DEF from, near
<1>8. n \in Nat \ {0} /\ k \in [1 .. n -> Nat]
  BY <1>1, <1>6, <1>7
<1> HIDE DEF graphs, k, n
<1>9. /\ FirstGraph(from) \in from
      /\ \A h \in from \ {FirstGraph(from)} : KeyBefore(FirstGraph(from).key, h.key)
  BY <1>1, <1>2, <1>6, <1>7, <1>8, FirstGraphExists
<1>10. ASSUME NEW g \in graphs, Stands(g, k)
       PROVE  g \in near
  <2>1. \A i \in 1 .. n : k[i] <= g.key[i]
    BY <1>1, <1>10 DEF Stands
  <2>2. ~KeyBefore(g.key, k)
    BY <1>1, <1>8, <2>1, NoneBelowIsBefore
  <2> QED
    BY <1>10, <2>2 DEF from, near
<1>11. ASSUME NEW g \in graphs, g.key = k
       PROVE  g \in from /\ FirstGraph(from) = g
  <2>1. ~KeyBefore(g.key, k)
    BY <1>8, <1>11, KeyOrderStrict
  <2>2. g \in from
    BY <2>1 DEF from
  <2>3. ASSUME FirstGraph(from) # g PROVE FALSE
    <3>1. KeyBefore(FirstGraph(from).key, k)
      BY <1>9, <1>11, <2>2, <2>3
    <3> QED
      BY <1>9, <3>1 DEF from
  <2> QED
    BY <2>2, <2>3
<1>12. CASE FirstGraph(from).key = k
  <2>1. found = FirstGraph(from)
    BY <1>3, <1>12
  <2>2. \A g \in graphs : Stands(g, k) => found.spec.batch <= g.spec.batch
    <3>1. TAKE g \in graphs
    <3>2. HAVE Stands(g, k)
    <3>3. g \in from
      BY <1>7, <1>10, <3>2
    <3>4. found = g \/ KeyBefore(found.key, g.key)
      BY <1>9, <2>1, <3>3
    <3>5. found \in graphs
      BY <1>7, <1>9, <2>1
    <3>6. found = g \/ found.key[1] <= g.key[1]
      BY <1>1, <1>8, <3>4, <3>5, FirstEntryOrdered
    <3> QED
      BY <1>1, <3>5, <3>6
  <2>3. found \in graphs /\ found.key = k
    BY <1>7, <1>9, <1>12, <2>1
  <2> QED
    BY <1>1, <1>11, <2>1, <2>2, <2>3 DEF found, graphs, k
<1>13. CASE FirstGraph(from).key # k
  <2>1. found = FirstGraph(near) /\ near # {}
    BY <1>3, <1>4, <1>13, <1>14
  <2>2. /\ found \in near
        /\ \A h \in near \ {found} : KeyBefore(found.key, h.key)
    BY <1>1, <1>2, <1>7, <1>8, <2>1, FirstGraphExists
  <2>3. found \in graphs /\ Stands(found, k)
    BY <1>7, <2>2 DEF near
  <2>4. \A g \in graphs : Stands(g, k) => found.spec.batch <= g.spec.batch
    <3>1. TAKE g \in graphs
    <3>2. HAVE Stands(g, k)
    <3>3. found = g \/ KeyBefore(found.key, g.key)
      BY <1>10, <2>2, <3>2
    <3>4. found = g \/ found.key[1] <= g.key[1]
      BY <1>1, <1>8, <2>3, <3>3, FirstEntryOrdered
    <3> QED
      BY <1>1, <2>3, <3>4
  <2>5. \A g \in graphs : g.key # k
    BY <1>11, <1>13
  <2> QED
    BY <1>1, <2>3, <2>4, <2>5 DEF found, graphs, k
<1> QED
  BY <1>12, <1>13

\* The lookup finds a graph when one of the set stands for the batch, if it is
\* exact or lookups may be inexact.
LEMMA LookupMissesNone ==
  ASSUME NEW c \in Contexts, NEW s, IsMap(cuda_graph_execs_[c][s], c),
         NEW b \in Sizes, NEW g \in cuda_graph_execs_[c][s],
         g.key = BatchKey(b) \/ (allow_inexact_match_ /\ Stands(g, BatchKey(b)))
  PROVE  FindClosestCudaGraph(c, s, BatchKey(b)) # NoGraph
<1> DEFINE graphs == cuda_graph_execs_[c][s]
           k == BatchKey(b)
           n == Len(k)
           from == {h \in graphs : ~KeyBefore(h.key, k)}
           near == {h \in from : Stands(h, k)}
           found == FindClosestCudaGraph(c, s, k)
<1>1. \A h \in graphs :
        /\ n \in Nat \ {0}
        /\ DOMAIN k = 1 .. n /\ k \in [1 .. n -> Nat] /\ h.key \in [1 .. n -> Nat]
        /\ h.key # << >>
  BY GraphKeyTyped DEF IsMap
<1>2. \A h, h2 \in graphs : h.key = h2.key => h = h2
  BY DEF IsMap
<1>3. found = IF FirstGraph(from).key = k THEN FirstGraph(from)
              ELSE IF allow_inexact_match_ THEN FirstGraph(near) ELSE NoGraph
  BY DEF FindClosestCudaGraph
<1>4. \A h \in graphs : h # NoGraph
  BY <1>1 DEF NoGraph
<1>5. from \subseteq graphs /\ near \subseteq from /\ g \in graphs
  OBVIOUS
<1>6. g \in from
  <2>1. ASSUME g.key = k PROVE ~KeyBefore(g.key, k)
    BY <1>1, <1>5, <2>1, KeyOrderStrict
  <2>2. ASSUME Stands(g, k) PROVE ~KeyBefore(g.key, k)
    <3>1. \A i \in 1 .. n : k[i] <= g.key[i]
      BY <1>1, <1>5, <2>2 DEF Stands
    <3> QED
      BY <1>1, <1>5, <3>1, NoneBelowIsBefore
  <2> QED
    BY <2>1, <2>2
<1>7. g.key = k \/ (allow_inexact_match_ /\ g \in near)
  BY <1>6
<1> HIDE DEF graphs, k, n, from, near, found
<1>8. /\ FirstGraph(from) \in from
      /\ \A h \in from \ {FirstGraph(from)} : KeyBefore(FirstGraph(from).key, h.key)
  BY <1>1, <1>2, <1>5, <1>6, FirstGraphExists
<1>9. CASE FirstGraph(from).key = k
  BY <1>3, <1>4, <1>5, <1>8, <1>9 DEF found, k
<1>10. CASE FirstGraph(from).key # k
  <2>1. g.key # k
    <3>1. SUFFICES ASSUME g.key = k PROVE FALSE
      OBVIOUS
    <3>2. FirstGraph(from) # g
      BY <1>10, <3>1
    <3>3. KeyBefore(FirstGraph(from).key, k)
      BY <1>6, <1>8, <3>1, <3>2
    <3> QED
      BY <1>8, <3>3 DEF from
  <2>2. near # {} /\ found = FirstGraph(near)
    BY <1>3, <1>7, <1>10, <2>1
  <2>3. FirstGraph(near) \in near
    BY <1>1, <1>2, <1>5, <2>2, FirstGraphExists
  <2> QED
    BY <1>4, <1>5, <2>2, <2>3 DEF found, k
<1> QED
  BY <1>9, <1>10

-----------------------------------------------------------------------------
(***************************************************************************)
(* The profile a batch is given.                                           *)
(***************************************************************************)
LEMMA SumIsSum ==
  ASSUME NEW f
  PROVE  Sum(f) = SumOf(f)
BY DEF Sum, SumOf

LEMMA ApartIsNat ==
  ASSUME NEW a \in Int, NEW b \in Int
  PROVE  Apart(a, b) \in Nat
BY DEF Apart

LEMMA InputDistanceIsNat ==
  ASSUME NEW c \in Contexts, NEW b \in Sizes, NEW i \in InputIndices
  PROVE  InputDistance(c, b, i) \in Nat
<1> DEFINE opt == ShapeOf(Profiles[c].opt, i)
<1>1. /\ DOMAIN opt = 1 .. Dims(i) /\ Dims(i) \in {1, 2}
      /\ \A d \in 1 .. Dims(i) : opt[d] \in Nat /\ ShapeOf(b, i)[d] \in Nat
      /\ b.batch \in Nat /\ b.own[i] \in Nat
  BY ProfileBounds, SizesShapes, ShapeOfDims
<1>2. CASE Inputs[i] = "ragged"
  <2>1. InputDistance(c, b, i) = Apart(opt[1], b.own[i])
    BY <1>2 DEF InputDistance
  <2> HIDE DEF opt
  <2>2. opt[1] \in Int /\ b.own[i] \in Int
    BY <1>1
  <2> QED
    BY <2>1, <2>2, ApartIsNat
<1>3. CASE Inputs[i] # "ragged"
  <2> DEFINE f == [d \in DOMAIN opt |->
                     Apart(opt[d], IF d = 1 THEN b.batch ELSE ShapeOf(b, i)[d - 1])]
  <2>1. InputDistance(c, b, i) = SumOf(f)
    BY <1>3, SumIsSum DEF InputDistance
  <2> HIDE DEF opt
  <2>2. \A d \in DOMAIN f : f[d] \in Nat
    <3>1. TAKE d \in DOMAIN f
    <3>2. d \in 1 .. Dims(i) /\ (d = 1 \/ d - 1 \in 1 .. Dims(i))
      BY <1>1
    <3> DEFINE x == IF d = 1 THEN b.batch ELSE ShapeOf(b, i)[d - 1]
    <3>3. opt[d] \in Int /\ x \in Int
      BY <1>1, <3>2
    <3>4. f[d] = Apart(opt[d], x)
      OBVIOUS
    <3> HIDE DEF x, f
    <3> QED
      BY <3>3, <3>4, ApartIsNat
  <2>3. DOMAIN f = 1 .. Dims(i)
    BY <1>1
  <2> HIDE DEF f
  <2>4. IsFiniteSet(DOMAIN f)
    <3>1. Dims(i) \in Int
      BY <1>1
    <3>2. IsFiniteSet(1 .. Dims(i))
      BY <3>1, FS_Interval
    <3> QED
      BY <2>3, <3>2
  <2> QED
    BY <2>1, <2>2, <2>4, SumIsNat
<1> QED
  BY <1>2, <1>3

LEMMA DistanceIsNat ==
  ASSUME NEW c \in Contexts, NEW b \in Sizes
  PROVE  EvaluateTensorRTContext(c, b) \in Nat
<1> DEFINE f == [i \in InputIndices |-> InputDistance(c, b, i)]
<1>1. EvaluateTensorRTContext(c, b) \in {SumOf(f), LLONG_MAX}
  BY SumIsSum DEF EvaluateTensorRTContext
<1>2. DOMAIN f = InputIndices /\ \A i \in DOMAIN f : f[i] \in Nat
  BY InputDistanceIsNat
<1> HIDE DEF f
<1>3. IsFiniteSet(DOMAIN f)
  <2>1. IsFiniteSet(1 .. Len(Inputs))
    BY InputsCounted, FS_Interval
  <2> QED
    BY <1>2, <2>1 DEF InputIndices
<1>4. SumOf(f) \in Nat
  BY <1>2, <1>3, SumIsNat
<1> QED
  BY <1>1, <1>4 DEF LLONG_MAX

\* A profile is selected, and none is at a smaller distance.
LEMMA ProfileSelected ==
  ASSUME NEW b \in Sizes
  PROVE  /\ GetMostOptimizedProfile(b) \in Contexts
         /\ \A c \in Contexts :
              EvaluateTensorRTContext(GetMostOptimizedProfile(b), b)
                <= EvaluateTensorRTContext(c, b)
<1> DEFINE distance == [c \in Contexts |-> EvaluateTensorRTContext(c, b)]
           T == {distance[c] : c \in Contexts}
           Closest(c) == \A d \in Contexts :
                           \/ distance[c] < distance[d]
                           \/ distance[c] = distance[d] /\ c <= d
<1>1. \A c \in Contexts : distance[c] \in Nat
  BY DistanceIsNat
<1>2. GetMostOptimizedProfile(b) = CHOOSE c \in Contexts : Closest(c)
  BY DEF GetMostOptimizedProfile
<1>3. Contexts \subseteq Nat /\ Contexts # {}
  BY ContextsCounted DEF Contexts
<1>4. \A c \in Contexts : distance[c] = EvaluateTensorRTContext(c, b)
  OBVIOUS
<1> HIDE DEF distance
<1>5. PICK m \in T : \A l \in T : m <= l
  <2>1. T \in SUBSET Nat /\ T # {}
    BY <1>1, <1>3
  <2> HIDE DEF T
  <2> QED
    BY <2>1, LeastNat
<1> DEFINE M == {c \in Contexts : distance[c] = m}
<1>6. PICK c \in M : \A d \in M : c <= d
  <2>1. M \in SUBSET Nat /\ M # {}
    BY <1>3, <1>5
  <2> HIDE DEF M
  <2> QED
    BY <2>1, LeastNat
<1>7. c \in Contexts /\ Closest(c)
  <2>1. ASSUME NEW d \in Contexts
        PROVE  distance[c] < distance[d] \/ (distance[c] = distance[d] /\ c <= d)
    <3>1. distance[c] <= distance[d] /\ distance[c] \in Nat /\ distance[d] \in Nat
      BY <1>1, <1>5, <1>6
    <3>2. distance[c] = distance[d] => c <= d
      BY <1>6
    <3> QED
      BY <3>1, <3>2
  <2> QED
    BY <1>6, <2>1
<1>8. GetMostOptimizedProfile(b) \in Contexts /\ Closest(GetMostOptimizedProfile(b))
  <2> HIDE DEF Closest
  <2> QED
    BY <1>2, <1>7
<1> QED
  BY <1>1, <1>4, <1>8

-----------------------------------------------------------------------------
(***************************************************************************)
(* The inductive invariant.  Specs are checked before the first is built,  *)
(* every graph is one of a spec whose shapes its context accepted, and     *)
(* what Run launched is what the lookup still finds, since nothing is      *)
(* captured while the instance serves.                                     *)
(***************************************************************************)
IndicesTyped ==
  /\ phase \in {"specs", "build", "capture", "serve", "refused"}
  /\ allow_inexact_match_ \in BOOLEAN
  /\ context \in Contexts
  /\ capture \in [set : 0 .. EVENT_SET_COUNT, captured : BOOLEAN,
                  saved_set : 0 .. EVENT_SET_COUNT - 1,
                  saved_buffers : 0 .. NumCopyStreams - 1]
  /\ next_set_ \in 0 .. EVENT_SET_COUNT - 1
  /\ next_buffer_binding_set_ \in 0 .. NumCopyStreams - 1
  /\ failures \in Nat

SpecsInv ==
  /\ phase = "specs" => graph_specs \in Seq(GraphSpecs) /\ allow_inexact_match_ = FALSE
  /\ phase \in {"build", "capture"} =>
       /\ graph_specs \in Seq(ValidSpecs) /\ graph_specs # << >>
       /\ \A i \in 1 .. Len(graph_specs) :
            graph_specs[i].bounded => allow_inexact_match_
  /\ phase = "capture" => ShapesAccepted(Head(graph_specs), context)

MapsInv ==
  /\ DOMAIN cuda_graph_execs_ = Contexts
  /\ \A c \in Contexts :
       /\ DOMAIN cuda_graph_execs_[c] = 0 .. EVENT_SET_COUNT - 1
       /\ \A s \in 0 .. EVENT_SET_COUNT - 1 : IsMap(cuda_graph_execs_[c][s], c)

LaunchInv ==
  launch # NoLaunch =>
    /\ phase = "serve"
    /\ launch.batch \in Batches
    /\ launch.context = GetMostOptimizedProfile(launch.batch)
    /\ launch.graph # NoGraph =>
         /\ launch.set \in 0 .. EVENT_SET_COUNT - 1
         /\ launch.graph =
              FindClosestCudaGraph(launch.context, launch.set, BatchKey(launch.batch))

GraphsInv == IndicesTyped /\ SpecsInv /\ MapsInv /\ LaunchInv

-----------------------------------------------------------------------------
(***************************************************************************)
(* The initial state, and what creation does to the specs.                 *)
(***************************************************************************)
LEMMA BufferSets == NumCopyStreams \in {1, 2} /\ EVENT_SET_COUNT = 3
BY DEF NumCopyStreams, EVENT_SET_COUNT

LEMMA GraphsInit ==
  ASSUME Init
  PROVE  GraphsInv
<1>1. IndicesTyped
  <2>1. context \in Contexts
    BY ContextsCounted DEF Init, Contexts
  <2>2. 0 \in 0 .. EVENT_SET_COUNT /\ 0 \in 0 .. EVENT_SET_COUNT - 1
        /\ 0 \in 0 .. NumCopyStreams - 1
    BY BufferSets
  <2> QED
    BY <2>1, <2>2 DEF Init, IndicesTyped, NoCapture
<1>2. SpecsInv
  BY GraphsAssumption DEF Init, SpecsInv
<1>3. MapsInv
  BY DEF Init, MapsInv, IsMap
<1>4. LaunchInv
  BY DEF Init, LaunchInv
<1> QED
  BY <1>1, <1>2, <1>3, <1>4 DEF GraphsInv

\* There are default batch sizes, finitely many: the largest is one of them.
LEMMA DefaultBatchSizesCounted ==
  Cardinality(DefaultBatchSizes) \in Nat /\ Cardinality(DefaultBatchSizes) # 0
<1> DEFINE All == {1, 2, 3, 4, 6, 8, 12, 16} \cup {0} \cup Preferred \cup {MaxBatchSize}
<1>1. DefaultBatchSizes \subseteq All
  BY DEF DefaultBatchSizes
<1>2. MaxBatchSize \in DefaultBatchSizes
  BY ProfilesAssumption DEF DefaultBatchSizes
<1>3. IsFiniteSet(All)
  <2>1. {1, 2, 3, 4, 6, 8, 12, 16} \cup {0} \subseteq 0 .. 16
    OBVIOUS
  <2>2. IsFiniteSet({1, 2, 3, 4, 6, 8, 12, 16} \cup {0})
    <3>1. 0 \in Int /\ 16 \in Int
      OBVIOUS
    <3>2. IsFiniteSet(0 .. 16)
      BY <3>1, FS_Interval
    <3> QED
      BY <2>1, <3>2, FS_Subset
  <2>3. IsFiniteSet(Preferred) /\ IsFiniteSet({MaxBatchSize})
    BY GraphsAssumption, FS_Singleton
  <2> QED
    BY <2>2, <2>3, FS_Union
<1> HIDE DEF All
<1>4. IsFiniteSet(DefaultBatchSizes)
  BY <1>1, <1>3, FS_Subset
<1> QED
  BY <1>2, <1>4, FS_CardinalityType, FS_EmptySet

LEMMA GraphsInitializeSpecs ==
  ASSUME GraphsInv, InitializeGraphSpecs
  PROVE  GraphsInv'
<1> DEFINE specs == IF graph_specs = << >> THEN DefaultSpecs ELSE graph_specs
<1>1. /\ phase = "specs" /\ graph_specs' = specs
      /\ allow_inexact_match_' = \E i \in DOMAIN specs : specs[i].bounded
      /\ phase' = IF \A i \in DOMAIN specs : ValidateGraphSpec(specs[i])
                  THEN "build" ELSE "refused"
      /\ UNCHANGED <<context, cuda_graph_execs_, capture, next_set_,
                     next_buffer_binding_set_, failures, launch>>
  BY DEF InitializeGraphSpecs
<1>2. /\ specs = [i \in 1 .. Len(specs) |-> specs[i]]
      /\ DOMAIN specs = 1 .. Len(specs) /\ Len(specs) \in Nat /\ specs # << >>
      /\ \A i \in 1 .. Len(specs) :
           ValidateGraphSpec(specs[i]) => specs[i] \in ValidSpecs
  <2>1. CASE graph_specs # << >>
    <3>1. specs = graph_specs /\ graph_specs \in Seq(GraphSpecs)
      BY <1>1, <2>1 DEF GraphsInv, SpecsInv
    <3> HIDE DEF specs
    <3>2. /\ specs = [i \in 1 .. Len(specs) |-> specs[i]]
          /\ DOMAIN specs = 1 .. Len(specs) /\ Len(specs) \in Nat
          /\ \A i \in 1 .. Len(specs) : specs[i] \in GraphSpecs
      BY <3>1
    <3> QED
      BY <2>1, <3>1, <3>2 DEF ValidSpecs
  <2>2. CASE graph_specs = << >>
    <3> DEFINE n == Cardinality(DefaultBatchSizes)
               size(i) == CHOOSE b \in DefaultBatchSizes :
                            Cardinality({a \in DefaultBatchSizes : a < b}) = i - 1
    <3>1. specs = [i \in 1 .. n |-> DefaultSpec(size(i))]
      BY <2>2 DEF DefaultSpecs
    <3>2. n \in Nat /\ n # 0
      BY DefaultBatchSizesCounted
    <3> HIDE DEF n, specs, size
    <3>3. /\ DOMAIN specs = 1 .. Len(specs) /\ Len(specs) = n /\ specs # << >>
          /\ specs = [i \in 1 .. Len(specs) |-> specs[i]]
      BY <3>1, <3>2
    <3>4. \A i \in 1 .. n : specs[i] = DefaultSpec(size(i))
      BY <3>1
    <3> QED
      BY <3>2, <3>3, <3>4, DefaultSpecValid
  <2> QED
    BY <2>1, <2>2
<1> HIDE DEF specs
<1>3. IndicesTyped'
  BY <1>1 DEF GraphsInv, IndicesTyped
<1>4. SpecsInv'
  <2>1. CASE \A i \in DOMAIN specs : ValidateGraphSpec(specs[i])
    <3>1. specs \in Seq(ValidSpecs)
      <4>1. \A i \in 1 .. Len(specs) : specs[i] \in ValidSpecs
        BY <1>2, <2>1
      <4> QED
        BY <1>2, <4>1
    <3> QED
      BY <1>1, <1>2, <2>1, <3>1 DEF SpecsInv
  <2>2. CASE ~(\A i \in DOMAIN specs : ValidateGraphSpec(specs[i]))
    BY <1>1, <2>2 DEF SpecsInv
  <2> QED
    BY <2>1, <2>2
<1>5. MapsInv'
  \* no lookup was inexact before: the maps hold no graph with bounds
  BY <1>1 DEF GraphsInv, MapsInv, IsMap, SpecsInv
<1>6. LaunchInv'
  BY <1>1 DEF GraphsInv, LaunchInv
<1> QED
  BY <1>3, <1>4, <1>5, <1>6 DEF GraphsInv

-----------------------------------------------------------------------------
(***************************************************************************)
(* The actions that capture graphs.                                        *)
(***************************************************************************)
\* Creation goes on with the next context of the spec, or the next spec.
LEMMA NextGraphBuilt ==
  ASSUME IndicesTyped, SpecsInv, phase \in {"build", "capture"}, NextGraph,
         UNCHANGED allow_inexact_match_
  PROVE  /\ context' \in Contexts
         /\ phase' \in {"build", "serve"}
         /\ SpecsInv'
<1>1. /\ graph_specs \in Seq(ValidSpecs) /\ graph_specs # << >>
      /\ \A i \in 1 .. Len(graph_specs) : graph_specs[i].bounded => allow_inexact_match_
  BY DEF SpecsInv
<1>2. CASE context < Len(Profiles)
  <2>1. context' = context + 1 /\ phase' = "build" /\ UNCHANGED graph_specs
    BY <1>2 DEF NextGraph
  <2>2. context' \in Contexts
    BY <1>2, <2>1, ContextsCounted DEF Contexts, IndicesTyped
  <2> QED
    BY <1>1, <2>1, <2>2 DEF SpecsInv
<1>3. CASE ~(context < Len(Profiles))
  <2>1. /\ context' = 1 /\ graph_specs' = Tail(graph_specs)
        /\ phase' = IF Len(graph_specs) > 1 THEN "build" ELSE "serve"
    BY <1>3 DEF NextGraph
  <2>2. context' \in Contexts
    BY <2>1, ContextsCounted DEF Contexts
  <2>3. /\ Tail(graph_specs) \in Seq(ValidSpecs)
        /\ Len(Tail(graph_specs)) = Len(graph_specs) - 1
        /\ \A i \in 1 .. Len(Tail(graph_specs)) :
             Tail(graph_specs)[i] = graph_specs[i + 1] /\ i + 1 \in 1 .. Len(graph_specs)
    BY <1>1
  <2>4. Len(graph_specs) > 1 => Tail(graph_specs) # << >>
    <3> DEFINE rest == Tail(graph_specs)
    <3>1. Len(rest) = Len(graph_specs) - 1 /\ Len(graph_specs) \in Nat
      BY <1>1, <2>3
    <3> HIDE DEF rest
    <3>2. rest = << >> => Len(rest) = 0
      OBVIOUS
    <3>3. Len(graph_specs) > 1 => rest # << >>
      BY <3>1, <3>2
    <3> QED
      BY <3>3 DEF rest
  <2> QED
    BY <1>1, <2>1, <2>2, <2>3, <2>4 DEF SpecsInv
<1> QED
  BY <1>2, <1>3

\* Before the instance serves, nothing has been launched.
LEMMA NothingLaunched ==
  ASSUME LaunchInv, phase # "serve", UNCHANGED launch
  PROVE  LaunchInv'
BY DEF LaunchInv

LEMMA MapsUnchanged ==
  ASSUME MapsInv, UNCHANGED <<allow_inexact_match_, cuda_graph_execs_>>
  PROVE  MapsInv'
BY DEF MapsInv, IsMap

LEMMA GraphsShapesRefused ==
  ASSUME GraphsInv, ShapesRefused
  PROVE  GraphsInv'
<1>1. /\ phase = "build" /\ NextGraph
      /\ UNCHANGED <<allow_inexact_match_, cuda_graph_execs_, capture, next_set_,
                     next_buffer_binding_set_, failures, launch>>
  BY DEF ShapesRefused
<1>2. context' \in Contexts /\ phase' \in {"build", "serve"} /\ SpecsInv'
  BY <1>1, NextGraphBuilt DEF GraphsInv
<1>3. IndicesTyped'
  BY <1>1, <1>2 DEF GraphsInv, IndicesTyped
<1> QED
  BY <1>1, <1>2, <1>3, NothingLaunched, MapsUnchanged DEF GraphsInv

LEMMA GraphsWarmUpFails ==
  ASSUME GraphsInv, WarmUpFails
  PROVE  GraphsInv'
<1>1. /\ phase = "build" /\ NextGraph
      /\ failures' = failures + 1
      /\ next_buffer_binding_set_' \in 0 .. NumCopyStreams - 1
      /\ UNCHANGED <<allow_inexact_match_, cuda_graph_execs_, capture, next_set_, launch>>
  BY DEF WarmUpFails
<1>2. context' \in Contexts /\ phase' \in {"build", "serve"} /\ SpecsInv'
  BY <1>1, NextGraphBuilt DEF GraphsInv
<1>3. IndicesTyped'
  BY <1>1, <1>2 DEF GraphsInv, IndicesTyped
<1> QED
  BY <1>1, <1>2, <1>3, NothingLaunched, MapsUnchanged DEF GraphsInv

LEMMA GraphsWarmUp ==
  ASSUME GraphsInv, WarmUp
  PROVE  GraphsInv'
<1>1. /\ phase = "build" /\ ShapesAccepted(Head(graph_specs), context)
      /\ phase' = "capture"
      /\ capture' = [set |-> 0, captured |-> TRUE,
                     saved_set |-> next_set_, saved_buffers |-> next_buffer_binding_set_]
      /\ next_buffer_binding_set_' = NumCopyStreams - 1
      /\ UNCHANGED <<graph_specs, allow_inexact_match_, context, cuda_graph_execs_,
                     next_set_, failures, launch>>
  BY DEF WarmUp
<1>2. IndicesTyped'
  <2>1. 0 \in 0 .. EVENT_SET_COUNT /\ NumCopyStreams - 1 \in 0 .. NumCopyStreams - 1
    BY BufferSets
  <2> QED
    BY <1>1, <2>1 DEF GraphsInv, IndicesTyped
<1>3. SpecsInv'
  <2>1. ShapesAccepted(Head(graph_specs'), context')
    BY <1>1
  <2> QED
    BY <1>1, <2>1 DEF GraphsInv, SpecsInv
<1> QED
  BY <1>1, <1>2, <1>3, NothingLaunched, MapsUnchanged DEF GraphsInv

\* A graph captured is one of the first spec, with the buffers of its set.
LEMMA CapturedIsGraph ==
  ASSUME SpecsInv, phase = "capture", NEW set \in Nat
  PROVE  /\ IsGraph(CapturedGraph(set), context)
         /\ CapturedGraph(set).spec.bounded => allow_inexact_match_
<1> DEFINE spec == Head(graph_specs)
           g == CapturedGraph(set)
<1>1. spec \in ValidSpecs /\ (spec.bounded => allow_inexact_match_)
  BY DEF SpecsInv
<1>2. ShapesAccepted(spec, context)
  BY DEF SpecsInv
<1>3. /\ g.spec = spec /\ g.buffers = set % NumCopyStreams
      /\ g.input_dims = GraphShapes(spec, context)
      /\ g.key = Key(spec.batch, GraphShapes(spec, context))
      /\ g.lower_bound_key = Key(LowerBatch(spec), LowerShapes(spec, context))
  BY DEF CapturedGraph, SetCudaGraphShape, GraphShapes, LowerShapes
<1>4. set % NumCopyStreams \in 0 .. NumCopyStreams - 1
  BY BufferSets
<1> HIDE DEF spec, g
<1> QED
  BY <1>1, <1>2, <1>3, <1>4 DEF IsGraph, g

\* A graph of a key the map has is not inserted.
LEMMA InsertIntoMap ==
  ASSUME NEW graphs, NEW c, IsMap(graphs, c), NEW g, IsGraph(g, c),
         g.spec.bounded => allow_inexact_match_
  PROVE  IsMap(Insert(graphs, g), c)
BY DEF IsMap, Insert

LEMMA GraphsCaptureSet ==
  ASSUME GraphsInv, CaptureSet
  PROVE  GraphsInv'
<1> DEFINE m == capture.set
<1>1. /\ phase = "capture" /\ m < EVENT_SET_COUNT
      /\ next_set_' = m /\ next_buffer_binding_set_' = m % NumCopyStreams
      /\ UNCHANGED <<phase, graph_specs, allow_inexact_match_, context, launch>>
  BY DEF CaptureSet
<1>2. PICK instantiated \in BOOLEAN, clean \in BOOLEAN :
        /\ failures' = failures + (IF instantiated /\ clean THEN 0 ELSE 1)
        /\ capture' = [capture EXCEPT !.set = @ + 1, !.captured = @ /\ instantiated /\ clean]
        /\ cuda_graph_execs_' =
             IF capture.captured /\ instantiated
             THEN [cuda_graph_execs_ EXCEPT ![context][m] = Insert(@, CapturedGraph(m))]
             ELSE cuda_graph_execs_
  BY DEF CaptureSet
<1>3. m \in 0 .. EVENT_SET_COUNT - 1 /\ m \in Nat /\ context \in Contexts
  BY <1>1, BufferSets DEF GraphsInv, IndicesTyped
<1>4. IndicesTyped'
  <2>1. m % NumCopyStreams \in 0 .. NumCopyStreams - 1
    BY <1>3, BufferSets
  <2>2. /\ capture' \in [set : 0 .. EVENT_SET_COUNT, captured : BOOLEAN,
                         saved_set : 0 .. EVENT_SET_COUNT - 1,
                         saved_buffers : 0 .. NumCopyStreams - 1]
    <3>1. m + 1 \in 0 .. EVENT_SET_COUNT
      BY <1>3, BufferSets
    <3> QED
      BY <1>2, <3>1 DEF GraphsInv, IndicesTyped
  <2>3. failures' \in Nat
    BY <1>2 DEF GraphsInv, IndicesTyped
  <2> QED
    BY <1>1, <1>3, <2>1, <2>2, <2>3 DEF GraphsInv, IndicesTyped
<1>5. SpecsInv'
  <2>1. ShapesAccepted(Head(graph_specs'), context')
    BY <1>1 DEF GraphsInv, SpecsInv
  <2> QED
    BY <1>1, <2>1 DEF GraphsInv, SpecsInv
<1>6. MapsInv'
  <2>1. CASE ~(capture.captured /\ instantiated)
    BY <1>1, <1>2, <2>1, MapsUnchanged DEF GraphsInv
  <2>2. CASE capture.captured /\ instantiated
    <3> DEFINE new == Insert(cuda_graph_execs_[context][m], CapturedGraph(m))
    <3>1. IsMap(new, context)
      BY <1>1, <1>3, CapturedIsGraph, InsertIntoMap DEF GraphsInv, MapsInv
    <3>2. cuda_graph_execs_' = [cuda_graph_execs_ EXCEPT ![context][m] = new]
      BY <1>2, <2>2
    <3> HIDE DEF new, m
    <3>3. /\ DOMAIN cuda_graph_execs_' = Contexts
          /\ \A c \in Contexts :
               /\ DOMAIN cuda_graph_execs_'[c] = 0 .. EVENT_SET_COUNT - 1
               /\ \A s \in 0 .. EVENT_SET_COUNT - 1 :
                    cuda_graph_execs_'[c][s] =
                      IF c = context /\ s = m THEN new ELSE cuda_graph_execs_[c][s]
      BY <1>3, <3>2 DEF GraphsInv, MapsInv
    <3>4. \A c \in Contexts, s \in 0 .. EVENT_SET_COUNT - 1 :
            IsMap(cuda_graph_execs_'[c][s], c)
      BY <3>1, <3>3 DEF GraphsInv, MapsInv
    <3> QED
      BY <1>1, <3>3, <3>4 DEF MapsInv, IsMap
  <2> QED
    BY <2>1, <2>2
<1> QED
  BY <1>1, <1>4, <1>5, <1>6, NothingLaunched DEF GraphsInv

LEMMA GraphsFinishCapture ==
  ASSUME GraphsInv, FinishCapture
  PROVE  GraphsInv'
<1>1. /\ phase = "capture" /\ NextGraph
      /\ next_set_' = capture.saved_set /\ next_buffer_binding_set_' = capture.saved_buffers
      /\ capture' = NoCapture
      /\ UNCHANGED <<allow_inexact_match_, cuda_graph_execs_, failures, launch>>
  BY DEF FinishCapture
<1>2. context' \in Contexts /\ phase' \in {"build", "serve"} /\ SpecsInv'
  BY <1>1, NextGraphBuilt DEF GraphsInv
<1>3. IndicesTyped'
  <2>1. 0 \in 0 .. EVENT_SET_COUNT /\ 0 \in 0 .. EVENT_SET_COUNT - 1
        /\ 0 \in 0 .. NumCopyStreams - 1
    BY BufferSets
  <2> QED
    BY <1>1, <1>2, <2>1 DEF GraphsInv, IndicesTyped, NoCapture
<1> QED
  BY <1>1, <1>2, <1>3, NothingLaunched, MapsUnchanged DEF GraphsInv

-----------------------------------------------------------------------------
(***************************************************************************)
(* The actions that run a batch.                                           *)
(***************************************************************************)
LEMMA GraphsRunRefused ==
  ASSUME GraphsInv, NEW b \in Batches, RunRefused(b)
  PROVE  GraphsInv'
<1>1. /\ phase = "serve"
      /\ launch' = [NoLaunch EXCEPT !.context = GetMostOptimizedProfile(b), !.batch = b]
      /\ UNCHANGED <<phase, graph_specs, allow_inexact_match_, context,
                     cuda_graph_execs_, capture, next_set_,
                     next_buffer_binding_set_, failures>>
  BY DEF RunRefused
<1>2. IndicesTyped'
  BY <1>1 DEF GraphsInv, IndicesTyped
<1>3. SpecsInv'
  BY <1>1 DEF GraphsInv, SpecsInv
<1>4. LaunchInv'
  <2>1. /\ launch'.context = GetMostOptimizedProfile(b) /\ launch'.batch = b
        /\ launch'.graph = NoGraph
    BY <1>1 DEF NoLaunch
  <2> QED
    BY <1>1, <2>1 DEF LaunchInv
<1> QED
  BY <1>1, <1>2, <1>3, <1>4, MapsUnchanged DEF GraphsInv

LEMMA GraphsRun ==
  ASSUME GraphsInv, NEW b \in Batches, Run(b)
  PROVE  GraphsInv'
<1> DEFINE c == GetMostOptimizedProfile(b)
           g == FindClosestCudaGraph(c, next_set_, BatchKey(b))
<1>1. /\ phase = "serve"
      /\ launch' = [graph |-> g, context |-> c, batch |-> b, set |-> next_set_,
                    buffers |-> next_buffer_binding_set_]
      /\ \/ /\ next_set_' = (next_set_ + 1) % EVENT_SET_COUNT
            /\ next_buffer_binding_set_' = (next_buffer_binding_set_ + 1) % NumCopyStreams
         \/ UNCHANGED <<next_set_, next_buffer_binding_set_>>
      /\ UNCHANGED <<phase, graph_specs, allow_inexact_match_, context,
                     cuda_graph_execs_, capture, failures>>
  BY DEF Run
<1>2. IndicesTyped'
  <2>1. /\ (next_set_ + 1) % EVENT_SET_COUNT \in 0 .. EVENT_SET_COUNT - 1
        /\ (next_buffer_binding_set_ + 1) % NumCopyStreams \in 0 .. NumCopyStreams - 1
    BY BufferSets DEF GraphsInv, IndicesTyped
  <2> QED
    BY <1>1, <2>1 DEF GraphsInv, IndicesTyped
<1>3. SpecsInv'
  BY <1>1 DEF GraphsInv, SpecsInv
<1>4. LaunchInv'
  <2>1. /\ launch'.context = c /\ launch'.batch = b /\ launch'.set = next_set_
        /\ launch'.graph = FindClosestCudaGraph(c, next_set_, BatchKey(b))
    BY <1>1
  <2>2. next_set_ \in 0 .. EVENT_SET_COUNT - 1
    BY DEF GraphsInv, IndicesTyped
  <2> QED
    BY <1>1, <2>1, <2>2 DEF LaunchInv, FindClosestCudaGraph
<1> QED
  BY <1>1, <1>2, <1>3, <1>4, MapsUnchanged DEF GraphsInv

LEMMA GraphsInvariant == Spec => []GraphsInv
<1>1. Init => GraphsInv
  BY GraphsInit
<1>2. GraphsInv /\ [Next]_vars => GraphsInv'
  <2> SUFFICES ASSUME GraphsInv, [Next]_vars PROVE GraphsInv'
    OBVIOUS
  <2>1. CASE Next
    BY <2>1, GraphsInitializeSpecs, GraphsShapesRefused, GraphsWarmUpFails, GraphsWarmUp,
       GraphsCaptureSet, GraphsFinishCapture, GraphsRunRefused, GraphsRun DEF Next
  <2>2. CASE UNCHANGED vars
    BY <2>2 DEF vars, GraphsInv, IndicesTyped, SpecsInv, MapsInv, IsMap, LaunchInv,
       FindClosestCudaGraph
  <2> QED
    BY <2>1, <2>2
<1> QED
  BY <1>1, <1>2, PTL DEF Spec

-----------------------------------------------------------------------------
(***************************************************************************)
(* The properties.                                                         *)
(***************************************************************************)
\* The indices of event and buffer sets stay in range, and every graph has the
\* buffers of one copy stream and, in a model that batches, a lower bound as
\* long as its key: FindClosestCudaGraph compares them entry by entry.
THEOREM GraphsTypeCorrect == Spec => []TypeOK
<1>1. GraphsInv => TypeOK
  <2> SUFFICES ASSUME GraphsInv PROVE TypeOK
    OBVIOUS
  <2>1. PICK b : b \in Sizes
    BY ContextsCounted, ProfileBounds DEF Contexts
  <2>2. ASSUME NEW c \in Contexts, NEW s \in 0 .. EVENT_SET_COUNT - 1,
               NEW g \in cuda_graph_execs_[c][s]
        PROVE  /\ g.buffers \in 0 .. NumCopyStreams - 1
               /\ MaxBatchSize > 0 => Len(g.lower_bound_key) = Len(g.key)
    <3>1. IsGraph(g, c)
      BY <2>2 DEF GraphsInv, MapsInv, IsMap
    <3> QED
      BY <2>1, <2>2, <3>1, GraphKeyTyped DEF IsGraph
  <2> QED
    BY <2>2 DEF GraphsInv, IndicesTyped, TypeOK
<1> QED
  BY <1>1, GraphsInvariant, PTL

\* What Run launched is a graph of the context and event set of the batch.
LEMMA LaunchedBatch ==
  ASSUME GraphsInv, launch # NoLaunch
  PROVE  /\ launch.batch \in Batches /\ launch.batch \in Sizes
         /\ launch.context \in Contexts
         /\ launch.context = GetMostOptimizedProfile(launch.batch)
BY ProfileSelected, GraphsAssumption DEF GraphsInv, LaunchInv

LEMMA LaunchedGraph ==
  ASSUME GraphsInv, launch.graph # NoGraph
  PROVE  LET c == launch.context
             b == launch.batch
             graphs == cuda_graph_execs_[c][launch.set]
         IN  /\ c \in Contexts /\ b \in Sizes /\ IsMap(graphs, c)
             /\ launch.graph \in graphs
             /\ launch.graph.key = BatchKey(b) \/ Stands(launch.graph, BatchKey(b))
             /\ \A g \in graphs :
                  /\ Stands(g, BatchKey(b)) => g.spec.batch >= launch.graph.spec.batch
                  /\ g.key = BatchKey(b) => launch.graph = g
<1>1. launch # NoLaunch
  BY DEF NoLaunch
<1>2. launch.context \in Contexts /\ launch.batch \in Sizes
  BY <1>1, LaunchedBatch
<1>3. /\ launch.set \in 0 .. EVENT_SET_COUNT - 1
      /\ launch.graph =
           FindClosestCudaGraph(launch.context, launch.set, BatchKey(launch.batch))
  BY <1>1 DEF GraphsInv, LaunchInv
<1>4. IsMap(cuda_graph_execs_[launch.context][launch.set], launch.context)
  BY <1>2, <1>3 DEF GraphsInv, MapsInv
<1> QED
  BY <1>2, <1>3, <1>4, LookupFinds

\* A graph launched for a batch is large enough for it: each dimension of each
\* input is at most the one the graph was captured with, although the lookup
\* compares flat keys that Run and SetCudaGraphShape build in different places.
THEOREM LaunchedGraphHoldsBatch == Spec => []GraphHoldsBatch
<1>1. GraphsInv => GraphHoldsBatch
  <2> SUFFICES ASSUME GraphsInv, launch.graph # NoGraph,
                      NEW i \in InputIndices, NEW d \in DOMAIN ShapeOf(launch.batch, i)
               PROVE  launch.graph.input_dims[i][d] >= ShapeOf(launch.batch, i)[d]
    BY DEF GraphHoldsBatch
  <2> DEFINE c == launch.context
             b == launch.batch
             g == launch.graph
             x == b.batch
             y == g.spec.batch
             k == BatchKey(b)
             l == g.key
             A == BatchShapes(b)
             B == GraphShapes(g.spec, c)
  <2>1. /\ c \in Contexts /\ b \in Sizes /\ IsGraph(g, c)
        /\ l = k \/ Stands(g, k)
    BY LaunchedGraph DEF IsMap
  <2>2. /\ IsShapes(A) /\ IsShapes(B) /\ x \in Int /\ y \in Int
        /\ k = Key(x, A) /\ l = Key(y, B) /\ g.input_dims = B
    BY <2>1, BatchShapesTyped, SpecShapesTyped, ValidSpecTyped, BatchKeyIsKey
    DEF IsGraph, Sizes
  <2>3. A[i] = ShapeOf(b, i) /\ d \in 1 .. Dims(i)
    BY ShapeOfDims DEF BatchShapes
  <2>4. A[i][d] \in Nat /\ B[i][d] \in Nat
    BY <2>1, <2>3, SizesShapes, SpecShapesTyped DEF IsGraph
  <2>5. l = k \/ \A p \in DOMAIN k : k[p] <= l[p]
    BY <2>1 DEF Stands
  <2> HIDE DEF c, b, g, x, y, k, l, A, B
  <2>6. /\ (\A p \in DOMAIN k : k[p] <= l[p])
            <=> /\ x <= y
                /\ \A j \in InputIndices : \A e \in 1 .. Dims(j) : A[j][e] <= B[j][e]
        /\ k = l <=> /\ x = y
                     /\ \A j \in InputIndices : \A e \in 1 .. Dims(j) : A[j][e] = B[j][e]
    BY <2>2, KeysPointwise
  <2>7. A[i][d] <= B[i][d]
    <3>1. CASE k = l
      <4>1. A[i][d] = B[i][d]
        BY <2>3, <2>6, <3>1
      <4> QED
        BY <2>4, <4>1
    <3>2. CASE \A p \in DOMAIN k : k[p] <= l[p]
      BY <2>3, <2>6, <3>2
    <3> QED
      BY <2>5, <3>1, <3>2
  <2> QED
    BY <2>2, <2>3, <2>4, <2>7 DEF b, g
<1> QED
  BY <1>1, GraphsInvariant, PTL

\* FindClosestCudaGraph finds a closest graph: none of a smaller batch size
\* stands for the batch, and one captured with its shapes is taken.
THEOREM LaunchedGraphIsClosest == Spec => []ClosestGraphLaunched
<1>1. GraphsInv => ClosestGraphLaunched
  BY LaunchedGraph DEF ClosestGraphLaunched
<1> QED
  BY <1>1, GraphsInvariant, PTL

\* A batch some profile admits is run: the profile of the smallest distance is
\* one that accepts it, because none that does is as far as one that does not.
THEOREM AdmittedBatchesRun == Spec => []AdmittedBatchRuns
<1>1. GraphsInv => AdmittedBatchRuns
  <2> SUFFICES ASSUME GraphsInv, launch.batch # NoBatch,
                      ~BatchAccepted(launch.context, launch.batch),
                      NEW c \in Contexts, BatchAccepted(c, launch.batch)
               PROVE  FALSE
    BY DEF AdmittedBatchRuns
  <2> DEFINE b == launch.batch
             taken == EvaluateTensorRTContext(launch.context, b)
             other == EvaluateTensorRTContext(c, b)
  <2>1. launch # NoLaunch
    BY DEF NoLaunch
  <2>2. /\ b \in Batches /\ b \in Sizes
        /\ launch.context \in Contexts /\ launch.context = GetMostOptimizedProfile(b)
    BY <2>1, LaunchedBatch
  <2>3. taken = LLONG_MAX
    BY DEF EvaluateTensorRTContext
  <2>4. other < LLONG_MAX
    BY <2>2, DistanceAssumption
  <2>5. taken <= other /\ taken \in Nat /\ other \in Nat
    BY <2>2, ProfileSelected, DistanceIsNat
  <2> HIDE DEF taken, other
  <2> QED
    BY <2>3, <2>4, <2>5 DEF LLONG_MAX
<1> QED
  BY <1>1, GraphsInvariant, PTL

-----------------------------------------------------------------------------
(***************************************************************************)
(* Within the bounds of a spec there is a graph, when the model batches.   *)
(***************************************************************************)
\* The shapes of a batch within the bounds of a spec lie between the lower
\* bounds and the shapes of its graph, and are its shapes when it has no bounds.
LEMMA InBoundsShapes ==
  ASSUME MaxBatchSize > 0, NEW c \in Contexts, NEW spec \in ValidSpecs,
         ShapesAccepted(spec, c), NEW b \in Sizes, InBounds(b, spec, c),
         NEW i \in InputIndices, NEW d \in 1 .. Dims(i)
  PROVE  /\ LowerShape(spec, c, i)[d] <= ShapeOf(b, i)[d]
         /\ ShapeOf(b, i)[d] <= GraphShape(spec, c, i)[d]
         /\ ~spec.bounded => ShapeOf(b, i)[d] = GraphShape(spec, c, i)[d]
<1>1. /\ spec.batch \in Nat /\ LowerBatch(spec) = spec.lower_batch
      /\ spec.lower_batch \in Nat /\ b.batch \in Nat /\ b.own[i] \in Nat
      /\ ~spec.bounded => spec.lower_batch = spec.batch /\ spec.lower_shapes = spec.shapes
  BY ValidSpecTyped, SizesShapes
<1>2. b.batch \in spec.lower_batch .. spec.batch
  BY DEF InBounds
<1>3. CASE spec.shapes = << >>
  <2>1. /\ ShapeOf(b, i) = GraphShape(spec, c, i)
        /\ LowerShape(spec, c, i) = GraphShape(spec, c, i)
    BY <1>3 DEF InBounds, LowerShape
  <2>2. ShapeOf(b, i)[d] \in Nat
    BY SizesShapes
  <2> QED
    BY <2>1, <2>2
<1>4. CASE spec.shapes # << >>
  <2> DEFINE low == spec.lower_shapes[i]
             high == spec.shapes[i]
             own == b.own[i]
  <2>1. low \in Int /\ high \in Int /\ own \in low .. high
        /\ (~spec.bounded => low = high)
    <3>1. i \in DOMAIN spec.shapes
      BY <1>4 DEF ShapesAccepted
    <3> QED
      BY <1>1, <1>4, <3>1, ValidSpecTyped DEF InBounds
  <2>2. GraphShape(spec, c, i) = ShapeOf([batch |-> spec.batch, own |-> spec.shapes], i)
    BY <1>4 DEF GraphShape
  <2>3. CASE Inputs[i] = "plain"
    <3>1. /\ ShapeOf(b, i) = <<b.batch, own>> /\ Dims(i) = 2
          /\ GraphShape(spec, c, i) = <<spec.batch, high>>
          /\ LowerShape(spec, c, i) = <<spec.lower_batch, low>>
      BY <1>1, <1>4, <2>2, <2>3 DEF ShapeOf, Dims, LowerShape
    <3> HIDE DEF low, high, own
    <3> QED
      BY <1>1, <1>2, <2>1, <3>1
  <2>4. CASE Inputs[i] # "plain"
    <3>1. /\ ShapeOf(b, i) = <<own>> /\ Dims(i) = 1
          /\ GraphShape(spec, c, i) = <<high>> /\ LowerShape(spec, c, i) = <<low>>
      BY <1>4, <2>2, <2>4 DEF ShapeOf, Dims, LowerShape
    <3> HIDE DEF low, high, own
    <3> QED
      BY <1>1, <2>1, <3>1
  <2> QED
    BY <2>3, <2>4
<1> QED
  BY <1>3, <1>4

\* So the graph stands for the batch, or has its very key.
LEMMA InBoundsStands ==
  ASSUME MaxBatchSize > 0, NEW c \in Contexts, NEW g, IsGraph(g, c),
         NEW b \in Sizes, InBounds(b, g.spec, c)
  PROVE  /\ Stands(g, BatchKey(b))
         /\ ~g.spec.bounded => g.key = BatchKey(b)
<1> DEFINE spec == g.spec
           k == BatchKey(b)
           high == g.key
           low == g.lower_bound_key
           x == b.batch
           y == spec.batch
           z == LowerBatch(spec)
           A == BatchShapes(b)
           B == GraphShapes(spec, c)
           C == LowerShapes(spec, c)
<1>1. /\ spec \in ValidSpecs /\ ShapesAccepted(spec, c)
      /\ k = Key(x, A) /\ high = Key(y, B) /\ low = Key(z, C)
  BY BatchKeyIsKey DEF IsGraph
<1>2. /\ IsShapes(A) /\ IsShapes(B) /\ IsShapes(C)
      /\ x \in Int /\ y \in Int /\ z \in Int
  BY <1>1, BatchShapesTyped, SpecShapesTyped, ValidSpecTyped DEF Sizes
<1>3. z <= x /\ x <= y /\ (~spec.bounded => x = y)
  BY <1>1, <1>2, ValidSpecTyped DEF InBounds
<1>4. \A i \in InputIndices : \A d \in 1 .. Dims(i) :
        C[i][d] <= A[i][d] /\ A[i][d] <= B[i][d] /\ (~spec.bounded => A[i][d] = B[i][d])
  BY <1>1, InBoundsShapes DEF BatchShapes, GraphShapes, LowerShapes
<1> HIDE DEF spec, k, high, low, x, y, z, A, B, C
<1>5. \A p \in DOMAIN k : k[p] <= high[p]
  BY <1>1, <1>2, <1>3, <1>4, KeysPointwise
<1>6. \A p \in DOMAIN low : low[p] <= k[p]
  BY <1>1, <1>2, <1>3, <1>4, KeysPointwise
<1>7. ~spec.bounded => k = high
  BY <1>1, <1>2, <1>3, <1>4, KeysPointwise
<1>8. DOMAIN low = DOMAIN k /\ \A p \in DOMAIN k : k[p] \in Int /\ low[p] \in Int
  <2>1. Aligned(low, k, z, x, C, A)
    BY <1>1, <1>2, KeyPairs
  <2> QED
    BY <2>1 DEF Aligned
<1>9. \A p \in DOMAIN k : k[p] <= high[p] /\ k[p] >= low[p]
  BY <1>5, <1>6, <1>8
<1> QED
  BY <1>7, <1>9 DEF Stands, spec, k, high, low

\* In a model that batches, a graph is launched for every batch within the
\* bounds of a spec that was captured: the keys of SetCudaGraphShape and of Run
\* agree and the search misses no graph.  (In one that does not, they differ in
\* the batch size: 0 in the spec, 1 in the batch.)
THEOREM SpecsServeTheirRange ==
  ASSUME MaxBatchSize > 0
  PROVE  Spec => []SpecServesItsRange
<1>1. GraphsInv => SpecServesItsRange
  <2> SUFFICES ASSUME GraphsInv,
                      NEW c \in Contexts, NEW s \in 0 .. EVENT_SET_COUNT - 1,
                      NEW b \in Batches, NEW g \in cuda_graph_execs_[c][s],
                      InBounds(b, g.spec, c)
               PROVE  FindClosestCudaGraph(c, s, BatchKey(b)) # NoGraph
    BY DEF SpecServesItsRange
  <2>1. b \in Sizes
    BY GraphsAssumption
  <2>2. IsMap(cuda_graph_execs_[c][s], c)
    BY DEF GraphsInv, MapsInv
  <2>3. IsGraph(g, c) /\ (g.spec.bounded => allow_inexact_match_)
    BY <2>2 DEF IsMap
  <2>4. Stands(g, BatchKey(b)) /\ (~g.spec.bounded => g.key = BatchKey(b))
    BY <2>1, <2>3, InBoundsStands
  <2>5. g.key = BatchKey(b) \/ (allow_inexact_match_ /\ Stands(g, BatchKey(b)))
    BY <2>3, <2>4
  <2> QED
    BY <2>1, <2>2, <2>5, LookupMissesNone
<1> QED
  BY <1>1, GraphsInvariant, PTL

=============================================================================
