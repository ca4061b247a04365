------------------------ MODULE CompletedLoadProofs ------------------------
(***************************************************************************)
(* What completion writes loads, whatever the engine is: of an engine that *)
(* a configuration can describe, AutoCompleteConfig accepts a              *)
(* configuration that says nothing of the tensors, and ValidateIO and      *)
(* InitIOBindingBuffers accept what it made of it.  Each step of the       *)
(* initialization finds the tensor as it needs it, since no two steps are  *)
(* of one tensor of a set, and no tensor is left out.  What remains is     *)
(* that such a model is given up only after a call failed.                 *)
(***************************************************************************)
EXTENDS ConfigurationProofs

-----------------------------------------------------------------------------
(***************************************************************************)
(* What completion writes of a tensor is accepted.                         *)
(***************************************************************************)
\* The description of a tensor that completion wrote, as the initialization
\* reads it.
Told(cfg, t) ==
  LET ref == RefIO(cfg.maxBatch, t)
  IN  [name |-> ref.name, type |-> ref.type, dims |-> ref.dims, reshape |-> ref.reshape,
       ragged |-> ref.ragged, shape |-> ref.shape, role |-> "config"]

\* The dims of a shape in a batch.
InBatch(cfg, dims) == IF Batching(cfg) THEN <<cfg.maxBatch>> \o Tail(dims) ELSE dims

LEMMA ToldDims ==
  ASSUME NEW cfg, cfg.maxBatch \in Nat, NEW t, t.dims \in Seq(Int), t.dims # << >>, ~t.shape
  PROVE  /\ ConfigDims(Told(cfg, t)) = IF Batching(cfg) THEN Tail(t.dims) ELSE t.dims
         /\ FullConfigDims(cfg, Told(cfg, t)) = InBatch(cfg, t.dims)
<1> DEFINE batching == cfg.maxBatch # 0
           own == IF batching THEN Tail(t.dims) ELSE t.dims
           dims == InitIODims(cfg.maxBatch, t)
           io == Told(cfg, t)
<1>1. batching <=> Batching(cfg)
  BY DEF Batching
<1>2. dims = IF own = << >> THEN [dims |-> <<1>>, reshape |-> << << >> >>]
             ELSE [dims |-> own, reshape |-> << >>]
  BY DEF InitIODims
<1>3. /\ io.dims = dims.dims /\ io.reshape = dims.reshape /\ io.ragged = FALSE
      /\ io.role = "config"
  BY DEF Told, RefIO
<1>4. << << >> >> # << >> /\ << << >> >>[1] = << >>
  OBVIOUS
<1> HIDE DEF own, dims, io
<1>5. ConfigDims(io) = own
  BY <1>2, <1>3, <1>4 DEF ConfigDims
<1>6. FullConfigDims(cfg, io) = InBatch(cfg, t.dims)
  BY <1>1, <1>3, <1>5 DEF FullConfigDims, InBatch, own
<1> QED
  BY <1>1, <1>5, <1>6 DEF own, io

\* The dims of a batch are those of the tensor but for the first.
LEMMA InBatchDims ==
  ASSUME NEW cfg, cfg.maxBatch \in Nat, NEW dims \in Seq(Int), dims # << >>
  PROVE  /\ InBatch(cfg, dims) \in Seq(Int) /\ Len(InBatch(cfg, dims)) = Len(dims)
         /\ Len(dims) \in Nat /\ 1 \in 1 .. Len(dims)
         /\ \A d \in 1 .. Len(dims) :
              InBatch(cfg, dims)[d] = IF d = 1 /\ Batching(cfg) THEN cfg.maxBatch ELSE dims[d]
<1> DEFINE M == cfg.maxBatch
           full == <<M>> \o Tail(dims)
<1>1. M \in Int
  OBVIOUS
<1>2. Tail(dims) \in Seq(Int) /\ Len(Tail(dims)) = Len(dims) - 1 /\ Len(dims) \in Nat \ {0}
  OBVIOUS
<1>3. \A d \in 1 .. Len(dims) - 1 : Tail(dims)[d] = dims[d + 1]
  OBVIOUS
<1>4. full \in Seq(Int) /\ Len(full) = 1 + Len(Tail(dims)) /\ full[1] = M
  BY <1>1, <1>2
<1>5. \A d \in 1 .. Len(Tail(dims)) : full[1 + d] = Tail(dims)[d]
  BY <1>1, <1>2
<1>6. \A d \in 1 .. Len(dims) : d # 1 => full[d] = dims[d]
  <2> SUFFICES ASSUME NEW d \in 1 .. Len(dims), d # 1 PROVE full[d] = dims[d]
    OBVIOUS
  <2>1. d - 1 \in 1 .. Len(dims) - 1 /\ 1 + (d - 1) = d /\ (d - 1) + 1 = d
    BY <1>2
  <2> HIDE DEF full
  <2> QED
    BY <1>2, <1>3, <1>5, <2>1
<1> HIDE DEF full, M
<1> QED
  BY <1>2, <1>4, <1>6 DEF InBatch, full, M

LEMMA ToldSupported ==
  ASSUME NEW cfg, cfg.maxBatch \in Nat, NEW t, t.dims \in Seq(Int), t.dims # << >>, ~t.shape
  PROVE  CompareDimsSupported(Batching(cfg), t.dims, ConfigDims(Told(cfg, t)))
<1> DEFINE own == IF Batching(cfg) THEN Tail(t.dims) ELSE t.dims
           full == IF Batching(cfg) THEN <<WILDCARD_DIM>> \o own ELSE own
<1>1. ConfigDims(Told(cfg, t)) = own
  BY ToldDims
<1>2. Len(full) = Len(t.dims) /\ DOMAIN full = 1 .. Len(t.dims)
      /\ \A d \in 1 .. Len(t.dims) : full[d] = WILDCARD_DIM \/ full[d] = t.dims[d]
  <2>1. CASE Batching(cfg)
    <3> DEFINE one == [maxBatch |-> 1]
               q == <<WILDCARD_DIM>> \o Tail(t.dims)
    <3>1. Tail(t.dims) \in Seq(Int) /\ Len(Tail(t.dims)) = Len(t.dims) - 1 /\ Len(t.dims) \in Nat \ {0}
      OBVIOUS
    <3>2. WILDCARD_DIM \in Int
      BY DEF WILDCARD_DIM
    <3>3. \A d \in 1 .. Len(t.dims) - 1 : Tail(t.dims)[d] = t.dims[d + 1]
      OBVIOUS
    <3>4. q \in Seq(Int) /\ Len(q) = 1 + Len(Tail(t.dims)) /\ q[1] = WILDCARD_DIM
      BY <3>1, <3>2
    <3>5. \A d \in 1 .. Len(Tail(t.dims)) : q[1 + d] = Tail(t.dims)[d]
      BY <3>1, <3>2
    <3>6. \A d \in 1 .. Len(t.dims) : d # 1 => q[d] = t.dims[d]
      <4> SUFFICES ASSUME NEW d \in 1 .. Len(t.dims), d # 1 PROVE q[d] = t.dims[d]
        OBVIOUS
      <4>1. d - 1 \in 1 .. Len(t.dims) - 1 /\ 1 + (d - 1) = d /\ (d - 1) + 1 = d
        BY <3>1
      <4> HIDE DEF q
      <4> QED
        BY <3>1, <3>3, <3>5, <4>1
    <3>7. full = q
      BY <2>1
    <3> HIDE DEF full, q
    <3>8. DOMAIN q = 1 .. Len(q) /\ Len(q) = Len(t.dims)
      BY <3>1, <3>4
    <3> QED
      BY <3>4, <3>6, <3>7, <3>8
  <2>2. CASE ~Batching(cfg)
    BY <2>2
  <2> QED
    BY <2>1, <2>2
<1> HIDE DEF own, full
<1> QED
  BY <1>1, <1>2 DEF CompareDimsSupported, own, full

\* Of a shape tensor the first value is the batch size.
LEMMA ToldShapeSupported ==
  ASSUME NEW cfg, cfg.maxBatch \in Nat, NEW t, t.dims \in Seq(Int), t.shape,
         Len(t.dims) = 1, t.dims[1] > 0
  PROVE  CompareShapeDimsSupported(Batching(cfg), t.dims, ConfigDims(Told(cfg, t)))
<1> DEFINE batching == cfg.maxBatch # 0
           values == IF batching THEN [d \in DOMAIN t.dims |-> t.dims[d] - 1] ELSE t.dims
           io == Told(cfg, t)
<1>1. batching <=> Batching(cfg)
  BY DEF Batching
<1>2. InitIODims(cfg.maxBatch, t) = [dims |-> values, reshape |-> << >>]
  BY DEF InitIODims
<1>3. io.dims = values /\ io.reshape = << >>
  BY <1>2 DEF Told, RefIO
<1>4. ConfigDims(io) = values
  <2> HIDE DEF values, io
  <2> QED
    BY <1>3 DEF ConfigDims
<1>5. DOMAIN t.dims = 1 .. 1 /\ 1 \in 1 .. 1 /\ t.dims[1] \in Int
  OBVIOUS
<1>6. Len(values) = 1 /\ values[1] = IF batching THEN t.dims[1] - 1 ELSE t.dims[1]
  <2>1. CASE batching
    <3>1. values = [d \in 1 .. 1 |-> t.dims[d] - 1]
      BY <1>5, <2>1
    <3>2. Len([d \in 1 .. 1 |-> t.dims[d] - 1]) = 1
      OBVIOUS
    <3> HIDE DEF values
    <3> QED
      BY <1>5, <2>1, <3>1, <3>2
  <2>2. CASE ~batching
    BY <2>2
  <2> QED
    BY <2>1, <2>2
<1> HIDE DEF values, io
<1>7. values[1] # WILDCARD_DIM /\ values[1] + (IF Batching(cfg) THEN 1 ELSE 0) = t.dims[1]
  BY <1>1, <1>5, <1>6 DEF WILDCARD_DIM
<1> QED
  BY <1>4, <1>6, <1>7 DEF CompareShapeDimsSupported, io

\* A profile that the dimensions of the tensor allow admits them, whatever was
\* pruned before.
LEMMA ToldConfigures ==
  ASSUME NEW cfg, cfg.maxBatch \in Nat, NEW dims \in Seq(Int), dims # << >>,
         NEW min \in Seq(Nat), NEW max \in Seq(Nat), Len(min) = Len(dims), Len(max) = Len(dims),
         \A d \in 1 .. Len(dims) : min[d] <= max[d],
         \A d \in 1 .. Len(dims) : dims[d] # WILDCARD_DIM => min[d] = dims[d],
         Batching(cfg) => min[1] <= cfg.maxBatch
  PROVE  ConfigureInputDimensions(cfg, min, max, InBatch(cfg, dims))
<1> DEFINE full == InBatch(cfg, dims)
           checked == IF Batching(cfg) THEN [full EXCEPT ![1] = WILDCARD_DIM] ELSE full
           M == cfg.maxBatch
<1>1. /\ full \in Seq(Int) /\ Len(full) = Len(dims) /\ Len(dims) \in Nat /\ 1 \in 1 .. Len(dims)
      /\ \A d \in 1 .. Len(dims) : full[d] = IF d = 1 /\ Batching(cfg) THEN M ELSE dims[d]
  BY InBatchDims
<1>2. DOMAIN max = 1 .. Len(dims) /\ \A d \in 1 .. Len(dims) : min[d] \in Nat /\ max[d] \in Nat
  OBVIOUS
<1> HIDE DEF full
<1>3. /\ DOMAIN checked = 1 .. Len(dims) /\ Len(checked) = Len(dims)
      /\ \A d \in 1 .. Len(dims) :
           checked[d] = IF d = 1 /\ Batching(cfg) THEN WILDCARD_DIM ELSE dims[d]
  <2>1. DOMAIN full = 1 .. Len(dims)
    BY <1>1
  <2>2. CASE Batching(cfg)
    <3> DEFINE q == [full EXCEPT ![1] = WILDCARD_DIM]
    <3>1. q = [d \in 1 .. Len(full) |-> IF d = 1 THEN WILDCARD_DIM ELSE full[d]]
      BY <1>1, SeqExcept
    <3>2. Len([d \in 1 .. Len(full) |-> IF d = 1 THEN WILDCARD_DIM ELSE full[d]]) = Len(full)
      BY <1>1
    <3>3. checked = q
      BY <2>2
    <3> HIDE DEF q, checked
    <3> QED
      BY <1>1, <2>2, <3>1, <3>2, <3>3
  <2>3. CASE ~Batching(cfg)
    BY <1>1, <2>1, <2>3
  <2> QED
    BY <2>2, <2>3
<1> HIDE DEF checked
<1>4. ValidateDimension(checked, min, max)
  <2>1. ASSUME NEW d \in 1 .. Len(dims), checked[d] # WILDCARD_DIM
        PROVE  checked[d] \in min[d] .. max[d]
    <3>1. checked[d] = dims[d] /\ dims[d] = min[d]
      BY <1>3, <2>1
    <3> QED
      BY <1>2, <3>1
  <2> QED
    BY <1>3, <2>1 DEF ValidateDimension
<1>5. ASSUME NEW d \in DOMAIN max
      PROVE  MaximumDims(cfg, max, full)[d] >= min[d]
  <2>1. d \in 1 .. Len(dims) /\ min[d] \in Nat /\ max[d] \in Nat /\ min[d] <= max[d]
    BY <1>2
  <2>2. MaximumDims(cfg, max, full)[d] =
          IF full[d] = WILDCARD_DIM THEN max[d]
          ELSE IF d = 1 /\ Batching(cfg) THEN Min({max[d], full[d]})
          ELSE full[d]
    BY DEF MaximumDims
  <2>3. CASE full[d] = WILDCARD_DIM
    BY <2>1, <2>2, <2>3
  <2>4. CASE full[d] # WILDCARD_DIM /\ d = 1 /\ Batching(cfg)
    <3>1. full[d] = M /\ M \in Nat /\ min[d] <= M
      BY <1>1, <2>4
    <3>2. max[d] \in Int /\ full[d] \in Int
      BY <2>1, <3>1
    <3>3. Min({max[d], full[d]}) \in {max[d], full[d]}
      BY <3>2, MinOfTwo
    <3> QED
      BY <2>1, <2>2, <2>4, <3>1, <3>3
  <2>5. CASE full[d] # WILDCARD_DIM /\ ~(d = 1 /\ Batching(cfg))
    <3>1. full[d] = dims[d] /\ dims[d] = min[d]
      BY <1>1, <2>1, <2>5
    <3> QED
      BY <2>1, <2>2, <2>5, <3>1
  <2> QED
    BY <2>3, <2>4, <2>5
<1> QED
  BY <1>4, <1>5 DEF ConfigureInputDimensions, full, checked

-----------------------------------------------------------------------------
(***************************************************************************)
(* Each step of the initialization of such a configuration is accepted.    *)
(***************************************************************************)
\* What completion makes of a configuration that says nothing of the tensors.
Written(e, cfg) ==
  /\ Loadable(e, cfg) /\ Describable(e)
  /\ cfg.inputs = GetRefIO(e, cfg.maxBatch, TRUE) /\ cfg.outputs = GetRefIO(e, cfg.maxBatch, FALSE)
  /\ cfg.controls = << >> /\ cfg.states = << >> /\ cfg.profiles = << >>
  /\ cfg.batchInputs = << >> /\ cfg.batchOutputs = << >>
  /\ \A n \in InputNames(e) : ~IsShape(e, n) => e.profiles[1][n].min[1] <= cfg.maxBatch

LEMMA TensorNamed ==
  ASSUME NEW e, EngineTyped(e), NEW k \in DOMAIN e.tensors, NEW t, t = e.tensors[k]
  PROVE  /\ t.name \in Names(e) /\ Tensor(e, t.name) = t
         /\ IsInput(e, t.name) = t.input /\ IsShape(e, t.name) = t.shape
         /\ t.name \in InputNames(e) <=> t.input
         /\ t.dims \in Seq(Int) /\ t.shape \in BOOLEAN /\ t.input \in BOOLEAN
<1>1. t.name \in Names(e)
  BY DEF Names
<1>2. Tensor(e, t.name) = t
  <2>1. \A l \in DOMAIN e.tensors : e.tensors[l].name = t.name => l = k
    BY DEF EngineTyped
  <2>2. (CHOOSE l \in DOMAIN e.tensors : e.tensors[l].name = t.name) = k
    BY <2>1
  <2> QED
    BY <2>2 DEF Tensor
<1>3. t.dims \in Seq(Int) /\ t.shape \in BOOLEAN /\ t.input \in BOOLEAN
  BY DEF EngineTyped
<1>4. IsInput(e, t.name) = t.input /\ IsShape(e, t.name) = t.shape
  BY <1>1, <1>2, <1>3 DEF IsInput, IsShape
<1> QED
  BY <1>1, <1>2, <1>3, <1>4 DEF InputNames

LEMMA ToldFields ==
  \A cfg, t :
    /\ Told(cfg, t).name = t.name /\ Told(cfg, t).type = t.type
    /\ Told(cfg, t).shape = t.shape /\ Told(cfg, t).ragged = FALSE
    /\ Told(cfg, t).role = "config"
BY DEF Told, RefIO

\* Pruning leaves the least shapes that the profile allows.
Room(e, cfg, st) ==
  \A c \in Contexts(cfg), n \in InputNames(e) :
    ~IsShape(e, n) =>
      \A d \in 1 .. Len(st.max[c][n]) : e.profiles[c][n].min[d] <= st.max[c][n][d]

LEMMA ShapeInputLoads ==
  ASSUME NEW e, NEW cfg, Written(e, cfg), NEW st, Good(e, cfg, st), st.ok, NEW s \in BufferSets(cfg),
         NEW k \in DOMAIN e.tensors, NEW t, t = e.tensors[k], t.input, ~st.info[s][t.name].allocated,
         NEW after, after = InitializeShapeInputBinding(e, cfg, st, s, Told(cfg, t))
  PROVE  /\ after.ok /\ Elsewhere(e, cfg, st, after, s, t.name) /\ after.max = st.max
         /\ ~t.shape => after = st
         /\ t.shape => after.info[s][t.name].allocated
<1> DEFINE n == t.name
           io == Told(cfg, t)
           values == [c \in Contexts(cfg) |-> Volume(st.max[c][n])]
           given == [c \in Contexts(cfg) |-> st.given[c] \cup {n}]
           seen == [st EXCEPT !.given = given, !.nb = values]
<1>0. st \in States(e, cfg) /\ Loadable(e, cfg) /\ cfg.maxBatch \in Nat /\ EngineTyped(e)
  BY DEF Good, Written, Loadable, ConfigTyped
<1>1. /\ n \in Names(e) /\ Tensor(e, n) = t /\ IsInput(e, n) /\ IsShape(e, n) = t.shape
      /\ n \in InputNames(e) /\ t.dims \in Seq(Int) /\ t.shape \in BOOLEAN
  BY <1>0, TensorNamed
<1>2. Told(cfg, t).name = t.name /\ Told(cfg, t).type = t.type
  BY ToldFields
<1>3. CASE ~t.shape
  <2>1. after = st
    BY <1>1, <1>2, <1>3 DEF InitializeShapeInputBinding
  <2> QED
    BY <1>3, <2>1 DEF Elsewhere
<1>4. CASE t.shape
  <2>1. /\ SetFormat(t) /\ t.host /\ t.type \in {"INT32", "INT64"}
        /\ Len(t.dims) = 1 /\ t.dims[1] > 0
    BY <1>4 DEF Written, Describable
  <2>2. ShapeInputAccepted(e, cfg, io)
    <3>1. CompareShapeDimsSupported(Batching(cfg), t.dims, ConfigDims(io))
      BY <1>0, <1>1, <1>4, <2>1, ToldShapeSupported
    <3>2. io.name = n /\ io.type = t.type
      BY <1>2
    <3> HIDE DEF io, n
    <3>3. Tensor(e, io.name) = t
      BY <1>1, <3>2
    <3> QED
      BY <1>1, <2>1, <3>1, <3>2, <3>3 DEF ShapeInputAccepted
  <2>3. after = Allocate(seen, s, n, values, FALSE)
    <3> HIDE DEF io
    <3> QED
      BY <1>1, <1>2, <1>4, <2>1, <2>2 DEF InitializeShapeInputBinding, io
  <2>4. \A c \in Contexts(cfg) : values[c] \in Int
    <3>1. TAKE c \in Contexts(cfg)
    <3>2. st.max[c][n] \in Seq(Nat)
      BY <1>0, <1>1, StateTyped
    <3>3. st.max[c][n] \in Seq(Int)
      BY <3>2
    <3> QED
      BY <3>3, VolumeIsInt
  <2>5. values \in [Contexts(cfg) -> Int]
    BY <2>4
  <2>6. given \in [Contexts(cfg) -> SUBSET InputNames(e)]
    BY <1>0, <1>1, StateTyped
  <2> HIDE DEF values, given, n
  <2>7. seen \in States(e, cfg) /\ seen.info = st.info /\ seen.ok
    BY <1>0, <2>5, <2>6 DEF States
  <2>10. seen.max = st.max
    BY <1>0 DEF States
  <2> HIDE DEF seen
  <2>8. InfoChange(e, cfg, seen, after, s, n) /\ after.info[s][n].allocated
    BY <1>0, <1>1, <2>3, <2>5, <2>7, AllocateEffect
  <2>9. after.ok /\ Elsewhere(e, cfg, st, after, s, n) /\ after.max = st.max
    BY <2>7, <2>8, <2>10 DEF InfoChange, Elsewhere
  <2> QED
    BY <1>4, <2>8, <2>9 DEF n
<1> QED
  BY <1>1, <1>3, <1>4

\* The engine and the input of a step of such a configuration.
LEMMA InputDescribed ==
  ASSUME NEW e, NEW cfg, Written(e, cfg), NEW k \in DOMAIN e.tensors, NEW t, t = e.tensors[k],
         t.input, ~t.shape
  PROVE  LET bounds == e.profiles[1][t.name]
         IN  /\ t.dims # << >> /\ SetFormat(t)
             /\ bounds.min \in Seq(Nat)
             /\ Len(bounds.min) = Len(t.dims) /\ Len(bounds.max) = Len(t.dims)
             /\ \A d \in 1 .. Len(t.dims) : t.dims[d] # WILDCARD_DIM => bounds.min[d] = t.dims[d]
             /\ bounds.min[1] <= cfg.maxBatch
<1> DEFINE bounds == e.profiles[1][t.name]
<1>1. Loadable(e, cfg) /\ EngineTyped(e) /\ Contexts(cfg) = {1} /\ Describable(e)
  BY DEF Written, Loadable, Contexts
<1>2. /\ t.name \in InputNames(e) /\ Tensor(e, t.name) = t /\ ~IsShape(e, t.name)
      /\ t.dims \in Seq(Int)
  BY <1>1, TensorNamed
<1>3. bounds.min \in Seq(Nat) /\ Len(bounds.min) = Len(bounds.max)
  BY <1>1, <1>2, ProfileTyped
<1>4. t.dims # << >> /\ SetFormat(t)
  BY <1>1 DEF Describable
<1>5. /\ Len(bounds.max) = Len(t.dims)
      /\ \A d \in DOMAIN t.dims : t.dims[d] # WILDCARD_DIM => bounds.min[d] = t.dims[d]
  BY <1>1, <1>2 DEF Describable, BoundsOfDims
<1>6. bounds.min[1] <= cfg.maxBatch
  BY <1>2 DEF Written
<1>7. DOMAIN t.dims = 1 .. Len(t.dims)
  BY <1>2
<1> HIDE DEF bounds
<1>8. /\ t.dims # << >> /\ SetFormat(t)
      /\ bounds.min \in Seq(Nat)
      /\ Len(bounds.min) = Len(t.dims) /\ Len(bounds.max) = Len(t.dims)
      /\ \A d \in 1 .. Len(t.dims) : t.dims[d] # WILDCARD_DIM => bounds.min[d] = t.dims[d]
      /\ bounds.min[1] <= cfg.maxBatch
  BY <1>3, <1>4, <1>5, <1>6, <1>7
<1> QED
  BY <1>8 DEF bounds

LEMMA InputLoads ==
  ASSUME NEW e, NEW cfg, Written(e, cfg), NEW st, Good(e, cfg, st), st.ok, Room(e, cfg, st),
         NEW s \in BufferSets(cfg), NEW k \in DOMAIN e.tensors, NEW t, t = e.tensors[k], t.input,
         ~t.shape => ~st.info[s][t.name].allocated,
         NEW after, after = InitializeExecuteInputBinding(e, cfg, st, s, Told(cfg, t))
  PROVE  /\ after.ok /\ Elsewhere(e, cfg, st, after, s, t.name) /\ Room(e, cfg, after)
         /\ t.shape => after = st
         /\ ~t.shape => after.info[s][t.name].allocated
<1> DEFINE n == t.name
           io == Told(cfg, t)
           full == FullConfigDims(cfg, io)
           min == e.profiles[1][n].min
           max == e.profiles[1][n].max
<1>0. /\ st \in States(e, cfg) /\ Loadable(e, cfg) /\ cfg.maxBatch \in Nat /\ EngineTyped(e)
      /\ Contexts(cfg) = {1}
  BY DEF Good, Written, Loadable, ConfigTyped, Contexts
<1>1. /\ n \in Names(e) /\ Tensor(e, n) = t /\ IsInput(e, n) /\ IsShape(e, n) = t.shape
      /\ n \in InputNames(e) /\ t.dims \in Seq(Int) /\ t.shape \in BOOLEAN
  BY <1>0, TensorNamed
<1>2. /\ Told(cfg, t).name = t.name /\ Told(cfg, t).type = t.type
      /\ Told(cfg, t).ragged = FALSE /\ Told(cfg, t).role = "config"
  BY ToldFields
<1>3. CASE t.shape
  <2>1. after = st
    BY <1>1, <1>2, <1>3 DEF InitializeExecuteInputBinding, ExecuteInputSkipped
  <2> QED
    BY <1>3, <2>1 DEF Elsewhere
<1>4. CASE ~t.shape
  <2>1. /\ t.dims # << >> /\ SetFormat(t)
        /\ min \in Seq(Nat) /\ Len(min) = Len(t.dims) /\ Len(max) = Len(t.dims)
        /\ \A d \in 1 .. Len(t.dims) : t.dims[d] # WILDCARD_DIM => min[d] = t.dims[d]
        /\ Batching(cfg) => min[1] <= cfg.maxBatch
    <3>1. t.dims # << >> 
      BY <1>4, InputDescribed
    <3>2. SetFormat(t)
      BY <1>4, InputDescribed
    <3>3. e.profiles[1][t.name].min \in Seq(Nat)
      BY <1>4, InputDescribed
    <3>4. e.profiles[1][t.name].min[1] <= cfg.maxBatch
      BY <1>4, InputDescribed
    <3>5. Len(e.profiles[1][t.name].min) = Len(t.dims)
      BY <1>4, InputDescribed
    <3>6. Len(e.profiles[1][t.name].max) = Len(t.dims)
      BY <1>4, InputDescribed
    <3>7. \A d \in 1 .. Len(t.dims) : t.dims[d] # WILDCARD_DIM => e.profiles[1][t.name].min[d] = t.dims[d]
      BY <1>4, InputDescribed
    <3> QED
      BY <3>1, <3>2, <3>3, <3>4, <3>5, <3>6, <3>7
  <2>2. full = InBatch(cfg, t.dims) /\ CompareDimsSupported(Batching(cfg), t.dims, ConfigDims(io))
    BY <1>0, <1>1, <1>4, <2>1, ToldDims, ToldSupported
  <2>3. full \in Seq(Int)
    <3>1. cfg.maxBatch \in Nat /\ t.dims \in Seq(Int) /\ t.dims # << >>
      BY <1>0, <1>1, <2>1
    <3>2. InBatch(cfg, t.dims) \in Seq(Int)
      BY ONLY <3>1, InBatchDims
    <3> HIDE DEF full
    <3> QED
      BY <2>2, <3>2
  <2>4. /\ st.max[1][n] \in Seq(Nat) /\ Len(st.max[1][n]) = Len(t.dims)
        /\ \A d \in 1 .. Len(t.dims) : min[d] <= st.max[1][n][d]
    <3>1. st.max[1][n] \in Seq(Nat) /\ Len(st.max[1][n]) = Len(t.dims)
      BY <1>0, <1>1, <2>1, StateTyped DEF Good
    <3> QED
      BY <1>0, <1>1, <1>4, <3>1 DEF Room
  <2>5. ConfigureInputDimensions(cfg, min, st.max[1][n], InBatch(cfg, t.dims))
    <3> DEFINE max0 == st.max[1][n]
               dims == t.dims
    <3> HIDE DEF min, max0, dims
    <3>1. ConfigureInputDimensions(cfg, min, max0, InBatch(cfg, dims))
      BY <1>0, <1>1, <2>1, <2>4, ToldConfigures DEF max0, dims
    <3> QED
      BY <3>1 DEF max0, dims
  <2>6. ExecuteInputAccepted(e, cfg, st, s, io)
    <3> HIDE DEF full, min
    <3>1. \A c \in Contexts(cfg) :
            ConfigureInputDimensions(cfg, e.profiles[c][n].min, st.max[c][n], full)
      BY <1>0, <2>2, <2>5 DEF min
    <3>2. io.name = n /\ io.type = t.type /\ ~io.ragged /\ io.role = "config"
      BY <1>2
    <3> HIDE DEF io, n
    <3>3. InputDimsSupported(e, cfg, io)
      BY <1>1, <2>2, <3>2 DEF InputDimsSupported
    <3>4. ~st.info[s][n].allocated
      BY <1>4 DEF n
    <3> QED
      BY <1>1, <2>1, <3>1, <3>2, <3>3, <3>4 DEF ExecuteInputAccepted, full
  <2>7. io.name = n /\ io.ragged \in BOOLEAN /\ io.role # "state"
    BY <1>2
  <2> HIDE DEF io, full
  <2>8. /\ after.ok /\ Elsewhere(e, cfg, st, after, s, io.name)
        /\ ~IsShape(e, io.name) =>
              /\ after.info[s][io.name].allocated
              /\ \/ io.role = "state"
                 \/ Prunes(e, cfg, st, after, io)
    BY <1>0, <2>3, <2>6, <2>7, ExecuteInputEffect DEF io, full
  <2>9. /\ after.info[s][n].allocated /\ Prunes(e, cfg, st, after, io)
        /\ Elsewhere(e, cfg, st, after, s, n)
    BY <1>1, <1>4, <2>7, <2>8
  <2>10. Room(e, cfg, after)
    <3>1. ASSUME NEW c \in Contexts(cfg), NEW o \in InputNames(e), ~IsShape(e, o),
                 NEW d \in 1 .. Len(after.max[c][o])
          PROVE  e.profiles[c][o].min[d] <= after.max[c][o][d]
      <4>1. CASE o # n
        <5>1. after.max[c][o] = st.max[c][o]
          BY <2>7, <2>9, <4>1 DEF Prunes
        <5> QED
          BY <3>1, <5>1 DEF Room
      <4>2. CASE o = n
        <5>1. /\ after.max[c][n] = MaximumDims(cfg, st.max[c][n], full)
              /\ ConfigureInputDimensions(cfg, e.profiles[c][n].min, st.max[c][n], full)
          BY <2>7, <2>9 DEF Prunes, full
        <5>2. c = 1
          BY <1>0
        <5>3. DOMAIN st.max[c][n] = 1 .. Len(t.dims)
          BY <2>4, <5>2
        <5>4. DOMAIN MaximumDims(cfg, st.max[c][n], full) = 1 .. Len(t.dims)
          BY <5>3 DEF MaximumDims
        <5>5. Len(after.max[c][n]) = Len(t.dims)
          BY <1>1, <5>1, <5>4
        <5> QED
          BY <3>1, <4>2, <5>1, <5>3, <5>5 DEF ConfigureInputDimensions
      <4> QED
        BY <4>1, <4>2
    <3> QED
      BY <3>1 DEF Room
  <2> QED
    BY <1>4, <2>8, <2>9, <2>10 DEF n
<1> QED
  BY <1>1, <1>3, <1>4

\* An output that is bound has a buffer or an allocator.
LEMMA BindEffect ==
  ASSUME NEW e, NEW cfg, Loadable(e, cfg), NEW st \in States(e, cfg),
         NEW s \in BufferSets(cfg), NEW n \in Names(e), NEW dynamic,
         NEW after, after = BindOutput(e, cfg, st, s, n, dynamic)
  PROVE  InfoChange(e, cfg, st, after, s, n) /\ after.info[s][n].allocated
<1>1. CASE dynamic
  <2> DEFINE a == [st EXCEPT !.info[s][n].allocated = TRUE]
             b == [a EXCEPT !.info[s][n].dynamic = TRUE]
             r == [st.info[s][n] EXCEPT !.allocated = TRUE]
             q == [a.info[s][n] EXCEPT !.dynamic = TRUE]
  <2>1. after = b
    BY <1>1 DEF BindOutput
  <2>2. b = WithInfo(a, s, n, q)
    BY DEF WithInfo
  <2>3. a = WithInfo(st, s, n, r)
    BY DEF WithInfo
  <2> HIDE DEF a, b
  <2>4. st.info[s][n] \in InfoRecords
    BY StateTyped
  <2>5. r \in InfoRecords /\ r.allocated
    BY <2>4 DEF InfoRecords
  <2> HIDE DEF r
  <2>6. InfoChange(e, cfg, st, a, s, n) /\ a.info[s][n] = r
    BY <2>3, <2>5, InfoChanged
  <2>7. a \in States(e, cfg)
    BY <2>6 DEF InfoChange
  <2>8. q \in InfoRecords /\ q.allocated
    BY <2>5, <2>6 DEF InfoRecords
  <2> HIDE DEF q
  <2>9. InfoChange(e, cfg, a, b, s, n) /\ b.info[s][n] = q
    BY <2>2, <2>7, <2>8, InfoChanged
  <2> QED
    BY <2>1, <2>6, <2>8, <2>9 DEF InfoChange
<1>2. CASE ~dynamic
  <2> DEFINE sizes == [c \in Contexts(cfg) |-> GetFullByteSize(e, st, c, n)]
  <2>1. after = Allocate(st, s, n, sizes, st.info[s][n].ragged)
    BY <1>2 DEF BindOutput
  <2>2. \A c \in Contexts(cfg) : GetFullByteSize(e, st, c, n) \in Int
    BY OutputShapeTyped
  <2>3. sizes \in [Contexts(cfg) -> Int]
    BY <2>2
  <2>4. st.info[s][n].ragged \in BOOLEAN
    BY StateTyped DEF InfoRecords
  <2> HIDE DEF sizes
  <2> QED
    BY <2>1, <2>3, <2>4, AllocateEffect
<1> QED
  BY <1>1, <1>2

LEMMA ShapeOutputLoads ==
  ASSUME NEW e, NEW cfg, Written(e, cfg), NEW st, Good(e, cfg, st), st.ok,
         NEW s \in BufferSets(cfg), NEW k \in DOMAIN e.tensors, NEW t, t = e.tensors[k], ~t.input,
         t.shape => ~st.info[s][t.name].allocated,
         NEW after, after = InitializeShapeOutputBinding(e, cfg, st, s, Told(cfg, t))
  PROVE  /\ after.ok /\ Elsewhere(e, cfg, st, after, s, t.name) /\ after.max = st.max
         /\ ~t.shape => after = st
         /\ t.shape => after.info[s][t.name].allocated
<1> DEFINE n == t.name
           io == Told(cfg, t)
<1>0. st \in States(e, cfg) /\ Loadable(e, cfg) /\ cfg.maxBatch \in Nat /\ EngineTyped(e)
  BY DEF Good, Written, Loadable, ConfigTyped
<1>1. /\ n \in Names(e) /\ Tensor(e, n) = t /\ IsInput(e, n) = FALSE
      /\ t.dims \in Seq(Int) /\ t.shape \in BOOLEAN
  BY <1>0, TensorNamed
<1>2. io.name = n /\ io.type = t.type /\ io.shape = t.shape
  BY ToldFields
<1>3. CASE ~t.shape
  <2>1. after = st
    BY <1>2, <1>3 DEF InitializeShapeOutputBinding
  <2> QED
    BY <1>3, <2>1 DEF Elsewhere
<1>4. CASE t.shape
  <2>1. /\ SetFormat(t) /\ t.type = "INT64" /\ Len(t.dims) = 1 /\ t.dims[1] > 0
    BY <1>4 DEF Written, Describable
  <2>2. CompareShapeDimsSupported(Batching(cfg), t.dims, ConfigDims(io))
    BY <1>0, <1>1, <1>4, <2>1, ToldShapeSupported
  <2>3. ~st.info[s][n].allocated
    BY <1>4
  <2> HIDE DEF io, n
  <2>4. after = BindOutput(e, cfg, st, s, n, ContainsWildcard(t.dims))
    BY <1>1, <1>2, <1>4, <2>1, <2>2, <2>3 DEF InitializeShapeOutputBinding, io
  <2>5. InfoChange(e, cfg, st, after, s, n) /\ after.info[s][n].allocated
    BY <1>0, <1>1, <2>4, BindEffect
  <2>6. after.ok /\ Elsewhere(e, cfg, st, after, s, n) /\ after.max = st.max
    BY <2>5 DEF InfoChange, Elsewhere
  <2> QED
    BY <1>4, <2>5, <2>6 DEF n
<1> QED
  BY <1>1, <1>3, <1>4

LEMMA OutputLoads ==
  ASSUME NEW e, NEW cfg, Written(e, cfg), NEW st, Good(e, cfg, st), st.ok,
         NEW s \in BufferSets(cfg), NEW k \in DOMAIN e.tensors, NEW t, t = e.tensors[k], ~t.input,
         ~t.shape => ~st.info[s][t.name].allocated /\ ~st.info[s][t.name].ragged,
         NEW after, after = InitializeExecuteOutputBinding(e, cfg, st, s, Told(cfg, t))
  PROVE  /\ after.ok /\ Elsewhere(e, cfg, st, after, s, t.name) /\ after.max = st.max
         /\ t.shape => after = st
         /\ ~t.shape => after.info[s][t.name].allocated
<1> DEFINE n == t.name
           io == Told(cfg, t)
<1>0. st \in States(e, cfg) /\ Loadable(e, cfg) /\ cfg.maxBatch \in Nat /\ EngineTyped(e)
  BY DEF Good, Written, Loadable, ConfigTyped
<1>1. /\ n \in Names(e) /\ Tensor(e, n) = t /\ t.dims \in Seq(Int) /\ t.shape \in BOOLEAN
  BY <1>0, TensorNamed
<1>2. io.name = n /\ io.type = t.type /\ io.shape = t.shape /\ io.role = "config"
  BY ToldFields
<1>3. CASE t.shape
  <2>1. after = st
    BY <1>2, <1>3 DEF InitializeExecuteOutputBinding
  <2> QED
    BY <1>3, <2>1 DEF Elsewhere
<1>4. CASE ~t.shape
  <2> DEFINE r == [st.info[s][n] EXCEPT !.requested = TRUE]
             named == WithInfo(st, s, n, r)
  <2>1. t.dims # << >> /\ SetFormat(t)
    BY DEF Written, Describable
  <2>2. CompareDimsSupported(Batching(cfg), t.dims, ConfigDims(io))
    BY <1>0, <1>1, <1>4, <2>1, ToldSupported
  <2>3. ~st.info[s][n].allocated /\ ~st.info[s][n].ragged
    BY <1>4
  <2>4. named = [st EXCEPT !.info[s][n].requested = TRUE]
    BY DEF WithInfo
  <2> HIDE DEF io, n, named
  <2>5. ExecuteOutputAccepted(e, cfg, st, s, io)
    BY <1>1, <1>2, <2>1, <2>2, <2>3 DEF ExecuteOutputAccepted
  <2>6. after = BindOutput(e, cfg, named, s, n, UnresolvedOutput(e, cfg, st, n))
    BY <1>1, <1>2, <1>4, <2>4, <2>5 DEF InitializeExecuteOutputBinding, io
  <2>7. r \in InfoRecords
    <3>1. st.info[s][n] \in InfoRecords
      BY <1>0, <1>1, StateTyped
    <3> QED
      BY <3>1 DEF InfoRecords
  <2> HIDE DEF r
  <2>8. InfoChange(e, cfg, st, named, s, n)
    BY <1>0, <2>7, InfoChanged DEF named
  <2>9. named \in States(e, cfg)
    BY <2>8 DEF InfoChange
  <2>10. InfoChange(e, cfg, named, after, s, n) /\ after.info[s][n].allocated
    BY <1>0, <1>1, <2>6, <2>9, BindEffect
  <2>11. after.ok /\ Elsewhere(e, cfg, st, after, s, n) /\ after.max = st.max
    BY <2>8, <2>10 DEF InfoChange, Elsewhere
  <2> QED
    BY <1>4, <2>10, <2>11 DEF n
<1> QED
  BY <1>1, <1>3, <1>4

-----------------------------------------------------------------------------
(***************************************************************************)
(* The steps together.                                                     *)
(***************************************************************************)
\* The step gives tensor n of set s a buffer.
GivingKinds(shape) == IF shape THEN {"shape input", "shape output"} ELSE {"input", "output"}
Gives(step, s, n) ==
  step.set = s /\ step.io.name = n /\ step.kind \in GivingKinds(step.io.shape)

GivesOwn(step) == Gives(step, step.set, step.io.name)

\* The step is of a tensor of the engine, as completion wrote it.
KindsOf(input) == IF input THEN {"shape input", "input"} ELSE {"shape output", "output"}
StepOf(e, cfg, step, k) ==
  /\ k \in DOMAIN e.tensors /\ step.io = Told(cfg, e.tensors[k])
  /\ step.kind \in KindsOf(e.tensors[k].input)
Suits(e, cfg, step) == step.set \in BufferSets(cfg) /\ \E k : StepOf(e, cfg, step, k)

\* The step finds what it asks for of the tensor.
Ready(st, step) ==
  LET info == st.info[step.set][step.io.name]
  IN  /\ GivesOwn(step) \/ step.kind = "shape input" => ~info.allocated
      /\ ~info.allocated => ~info.ragged

LEMMA StepLoads ==
  ASSUME NEW e, NEW cfg, Written(e, cfg), NEW st, Good(e, cfg, st), st.ok, Room(e, cfg, st),
         NEW step, Suits(e, cfg, step), Ready(st, step),
         NEW after, after = Initialize(e, cfg, st, step)
  PROVE  /\ after.ok /\ Room(e, cfg, after)
         /\ Elsewhere(e, cfg, st, after, step.set, step.io.name)
         /\ GivesOwn(step) => after.info[step.set][step.io.name].allocated
         /\ ~GivesOwn(step) => after = st
<1>1. PICK k : StepOf(e, cfg, step, k)
  BY DEF Suits
<1>0. PICK t : t = e.tensors[k]
  OBVIOUS
<1> DEFINE s == step.set
<1>2. k \in DOMAIN e.tensors /\ step.io = Told(cfg, t) /\ s \in BufferSets(cfg)
  BY <1>0, <1>1 DEF StepOf, Suits
<1>3. /\ Told(cfg, t).name = t.name /\ Told(cfg, t).shape = t.shape
  BY ToldFields
<1>4. /\ step.io.name = t.name
      /\ GivesOwn(step) <=> step.kind \in IF t.shape THEN {"shape input", "shape output"}
                                          ELSE {"input", "output"}
  BY <1>2, <1>3 DEF GivesOwn, Gives, GivingKinds
<1> HIDE DEF s
<1>6. CASE t.input /\ step.kind = "shape input"
  <2>0. t.input
    BY <1>6
  <2>1. ~st.info[s][t.name].allocated
    BY <1>4, <1>6 DEF s, Ready
  <2>2. after = InitializeShapeInputBinding(e, cfg, st, s, Told(cfg, t))
    BY <1>2, <1>6 DEF Initialize, s
  <2>3. /\ after.ok /\ Elsewhere(e, cfg, st, after, s, t.name) /\ after.max = st.max
        /\ ~t.shape => after = st
        /\ t.shape => after.info[s][t.name].allocated
    BY <1>0, <1>2, <2>0, <2>1, <2>2, ShapeInputLoads
  <2>4. Room(e, cfg, after)
    BY <2>3 DEF Room
  <2> QED
    BY <1>4, <1>6, <2>3, <2>4 DEF s
<1>7. CASE t.input /\ step.kind = "input"
  <2>1. after = InitializeExecuteInputBinding(e, cfg, st, s, Told(cfg, t))
    BY <1>2, <1>7 DEF Initialize, s
  <2>2. ~t.shape => ~st.info[s][t.name].allocated
    BY <1>4, <1>7 DEF s, Ready
  <2>3. /\ after.ok /\ Elsewhere(e, cfg, st, after, s, t.name) /\ Room(e, cfg, after)
        /\ t.shape => after = st
        /\ ~t.shape => after.info[s][t.name].allocated
    BY <1>0, <1>2, <1>7, <2>1, <2>2, InputLoads
  <2> QED
    BY <1>4, <1>7, <2>3 DEF s
<1>8. CASE ~t.input /\ step.kind = "shape output"
  <2>0. ~t.input
    BY <1>8
  <2>1. t.shape => ~st.info[s][t.name].allocated
    BY <1>4, <1>8 DEF s, Ready
  <2>2. after = InitializeShapeOutputBinding(e, cfg, st, s, Told(cfg, t))
    BY <1>2, <1>8 DEF Initialize, s
  <2>3. /\ after.ok /\ Elsewhere(e, cfg, st, after, s, t.name) /\ after.max = st.max
        /\ ~t.shape => after = st
        /\ t.shape => after.info[s][t.name].allocated
    BY <1>0, <1>2, <2>0, <2>1, <2>2, ShapeOutputLoads
  <2>4. Room(e, cfg, after)
    BY <2>3 DEF Room
  <2> QED
    BY <1>4, <1>8, <2>3, <2>4 DEF s
<1>9. CASE ~t.input /\ step.kind = "output"
  <2>1. after = InitializeExecuteOutputBinding(e, cfg, st, s, Told(cfg, t))
    BY <1>2, <1>9 DEF Initialize, s
  <2>2. ~t.shape => ~st.info[s][t.name].allocated /\ ~st.info[s][t.name].ragged
    BY <1>4, <1>9 DEF s, Ready
  <2>3. /\ after.ok /\ Elsewhere(e, cfg, st, after, s, t.name) /\ after.max = st.max
        /\ t.shape => after = st
        /\ ~t.shape => after.info[s][t.name].allocated
    BY <1>0, <1>2, <1>9, <2>1, <2>2, OutputLoads
  <2>4. Room(e, cfg, after)
    BY <2>3 DEF Room
  <2> QED
    BY <1>4, <1>9, <2>3, <2>4 DEF s
<1> QED
  BY <1>0, <1>1, <1>6, <1>7, <1>8, <1>9 DEF StepOf, KindsOf

\* Two steps of the same tensor of a set that must not both be gone through: the
\* first gives it a buffer and the second gives it one too, or asks whether it has.
Clash(x, y) ==
  x.set = y.set /\ x.io.name = y.io.name /\ GivesOwn(x) /\ (GivesOwn(y) \/ y.kind = "shape input")

Tidy(e, cfg, steps) ==
  /\ steps \in Seq(ToSet(steps))
  /\ \A a \in 1 .. Len(steps) : Suits(e, cfg, steps[a])
  /\ \A b \in 1 .. Len(steps) : \A a \in 1 .. b - 1 : ~Clash(steps[a], steps[b])

\* What the first k steps have made.
Loading(e, cfg, steps, k, st) ==
  /\ st.ok /\ Good(e, cfg, st) /\ Room(e, cfg, st)
  /\ \A s \in BufferSets(cfg), n \in Names(e) :
       /\ st.info[s][n].allocated <=> \E q \in 1 .. k : Gives(steps[q], s, n)
       /\ ~st.info[s][n].allocated => ~st.info[s][n].ragged

LEMMA StartLoading ==
  ASSUME NEW e, NEW cfg, Written(e, cfg), NEW steps
  PROVE  Loading(e, cfg, steps, 0, Start(e, cfg))
<1> DEFINE st == Start(e, cfg)
<1>1. Loadable(e, cfg) /\ EngineTyped(e) /\ Contexts(cfg) = {1}
  BY DEF Written, Loadable, Contexts
<1>2. Good(e, cfg, st)
  BY <1>1, StartGood
<1>3. st.ok
  BY DEF Start
<1>4. \A s \in BufferSets(cfg), n \in Names(e) : st.info[s][n] = NoInfo
  BY DEF Start
<1>5. \A c \in Contexts(cfg), n \in InputNames(e) : st.max[c][n] = e.profiles[c][n].max
  BY DEF Start
<1> HIDE DEF st
<1>6. Room(e, cfg, st)
  <2>1. ASSUME NEW c \in Contexts(cfg), NEW n \in InputNames(e), NEW d \in 1 .. Len(st.max[c][n])
        PROVE  e.profiles[c][n].min[d] <= st.max[c][n][d]
    <3> DEFINE dims == Tensor(e, n).dims
    <3>1. c = 1 /\ st.max[c][n] = e.profiles[1][n].max
      BY <1>1, <1>5
    <3>2. n \in Names(e) /\ dims \in Seq(Int)
      BY <1>1, InputsAreNames, TensorTyped
    <3>3. e.profiles[1][n].min \in Seq(Nat) /\ e.profiles[1][n].max \in Seq(Nat)
          /\ Len(e.profiles[1][n].min) = Len(e.profiles[1][n].max)
      BY <1>1, ProfileTyped
    <3>4. /\ Len(e.profiles[1][n].max) = Len(dims)
          /\ \A q \in DOMAIN dims :
               IF dims[q] = WILDCARD_DIM THEN e.profiles[1][n].min[q] <= e.profiles[1][n].max[q]
               ELSE e.profiles[1][n].min[q] = dims[q] /\ e.profiles[1][n].max[q] = dims[q]
      BY DEF Written, Describable, BoundsOfDims
    <3>5. d \in 1 .. Len(e.profiles[1][n].max) /\ d \in DOMAIN dims
      BY <2>1, <3>1, <3>2, <3>4
    <3> DEFINE lo == e.profiles[1][n].min
               hi == e.profiles[1][n].max
    <3> HIDE DEF dims, lo, hi
    <3>6. lo[d] \in Nat /\ hi[d] \in Nat
      <4>1. lo \in Seq(Nat) /\ hi \in Seq(Nat) /\ Len(lo) = Len(hi) /\ d \in 1 .. Len(hi)
        BY <3>3, <3>5 DEF lo, hi
      <4> QED
        BY <4>1
    <3>7. e.profiles[1][n].min[d] <= e.profiles[1][n].max[d]
      BY <3>4, <3>5, <3>6 DEF lo, hi
    <3> QED
      BY <3>1, <3>7
  <2> QED
    BY <2>1 DEF Room
<1> QED
  BY <1>2, <1>3, <1>4, <1>6 DEF Loading, NoInfo, st

LEMMA LoadingNext ==
  ASSUME NEW e, NEW cfg, Written(e, cfg), NEW steps, Tidy(e, cfg, steps), IOSteps(e, cfg, steps),
         NEW k \in Nat, k + 1 <= Len(steps), NEW st, Loading(e, cfg, steps, k, st),
         NEW after, after = Initialize(e, cfg, st, steps[k + 1])
  PROVE  Loading(e, cfg, steps, k + 1, after)
<1> DEFINE step == steps[k + 1]
           s0 == step.set
           n0 == step.io.name
<1>1. k + 1 \in 1 .. Len(steps) /\ k + 1 \in DOMAIN steps /\ Len(steps) \in Nat
  BY DEF Tidy
<1>2. Suits(e, cfg, step) /\ IOStep(e, cfg, step)
  BY <1>1 DEF Tidy, IOSteps
<1>3. st.ok /\ Good(e, cfg, st) /\ Room(e, cfg, st) /\ Loadable(e, cfg) /\ EngineTyped(e)
  BY DEF Loading, Written, Loadable
<1>4. s0 \in BufferSets(cfg) /\ n0 \in Names(e)
  <2>1. PICK q : StepOf(e, cfg, step, q)
    BY <1>2 DEF Suits
  <2>2. step.io.name = e.tensors[q].name /\ q \in DOMAIN e.tensors
    BY <2>1, ToldFields DEF StepOf
  <2> QED
    BY <1>2, <2>2 DEF Suits, Names
<1>5. Ready(st, step)
  <2>1. ~st.info[s0][n0].allocated => ~st.info[s0][n0].ragged
    BY <1>4 DEF Loading
  <2>2. ASSUME GivesOwn(step) \/ step.kind = "shape input", st.info[s0][n0].allocated
        PROVE  FALSE
    <3>1. PICK q \in 1 .. k : Gives(steps[q], s0, n0)
      BY <1>4, <2>2 DEF Loading
    <3>2. q \in 1 .. (k + 1) - 1
      OBVIOUS
    <3>3. ~Clash(steps[q], steps[k + 1])
      BY <1>1, <3>2 DEF Tidy
    <3>4. steps[q].set = s0 /\ steps[q].io.name = n0 /\ GivesOwn(steps[q])
      BY <3>1 DEF Gives, GivesOwn
    <3> QED
      BY <2>2, <3>3, <3>4 DEF Clash
  <2> QED
    BY <2>1, <2>2 DEF Ready
<1> HIDE DEF step
<1>6. /\ after.ok /\ Room(e, cfg, after) /\ Elsewhere(e, cfg, st, after, s0, n0)
      /\ GivesOwn(step) => after.info[s0][n0].allocated
      /\ ~GivesOwn(step) => after = st
  BY <1>2, <1>3, <1>5, StepLoads DEF step
<1>7. Good(e, cfg, after)
  BY <1>2, <1>3, StepGood DEF step
<1>8. ASSUME NEW s \in BufferSets(cfg), NEW n \in Names(e)
      PROVE  /\ after.info[s][n].allocated <=> \E q \in 1 .. k + 1 : Gives(steps[q], s, n)
             /\ ~after.info[s][n].allocated => ~after.info[s][n].ragged
  <2>1. /\ st.info[s][n].allocated <=> \E q \in 1 .. k : Gives(steps[q], s, n)
        /\ ~st.info[s][n].allocated => ~st.info[s][n].ragged
    BY DEF Loading
  <2>2. (\E q \in 1 .. k + 1 : Gives(steps[q], s, n)) <=>
          (\E q \in 1 .. k : Gives(steps[q], s, n)) \/ Gives(step, s, n)
    <3>1. \A q \in 1 .. k + 1 : q \in 1 .. k \/ q = k + 1
      BY LastOrBefore
    <3>2. 1 .. k \subseteq 1 .. k + 1 /\ k + 1 \in 1 .. k + 1
      OBVIOUS
    <3> QED
      BY <3>1, <3>2 DEF step
  <2>3. CASE s = s0 /\ n = n0
    <3>1. Gives(step, s, n) <=> GivesOwn(step)
      BY <2>3 DEF GivesOwn
    <3> QED
      BY <1>6, <2>1, <2>2, <2>3, <3>1
  <2>4. CASE ~(s = s0 /\ n = n0)
    <3>1. ~Gives(step, s, n)
      BY <2>4 DEF Gives
    <3>2. after.info[s][n] = st.info[s][n]
      BY <1>6, <2>4 DEF Elsewhere
    <3> QED
      BY <2>1, <2>2, <3>1, <3>2
  <2> QED
    BY <2>3, <2>4
<1> QED
  BY <1>6, <1>7, <1>8 DEF Loading

-----------------------------------------------------------------------------
(***************************************************************************)
(* The steps of such a configuration are tidy and leave no tensor out.     *)
(***************************************************************************)
LEMMA NoSteps ==
  ASSUME NEW kind, NEW s, NEW ios, DOMAIN ios = {}
  PROVE  Steps(kind, s, ios) = << >>
BY DEF Steps

\* The steps of such a configuration for one set.
ShapeInputSteps(cfg, s) == Steps("shape input", s, Configured(cfg.inputs))
ExecuteInputSteps(cfg, s) == Steps("input", s, Configured(cfg.inputs))
ShapeOutputSteps(cfg, s) == Steps("shape output", s, Configured(cfg.outputs))
ExecuteOutputSteps(cfg, s) == Steps("output", s, Configured(cfg.outputs))

LEMMA StepsOfSet ==
  ASSUME NEW e, NEW cfg, Written(e, cfg), NEW s
  PROVE  /\ InputSteps(cfg, s) = ShapeInputSteps(cfg, s) \o ExecuteInputSteps(cfg, s)
         /\ OutputSteps(cfg, s) = ShapeOutputSteps(cfg, s) \o ExecuteOutputSteps(cfg, s)
<1>1. /\ cfg.controls = << >> /\ cfg.states = << >> /\ cfg.batchInputs = << >>
      /\ cfg.batchOutputs = << >>
      /\ DescriptionsTyped(cfg.inputs) /\ DescriptionsTyped(cfg.outputs)
  BY DEF Written, Loadable, ConfigTyped
<1>2. DOMAIN << >> = {}
  OBVIOUS
<1>3. /\ Len(cfg.inputs) \in Nat /\ DOMAIN Configured(cfg.inputs) = 1 .. Len(cfg.inputs)
      /\ Len(cfg.outputs) \in Nat /\ DOMAIN Configured(cfg.outputs) = 1 .. Len(cfg.outputs)
  BY <1>1, ConfiguredTyped
<1>4. /\ ShapeInputSteps(cfg, s) \in Seq(ToSet(ShapeInputSteps(cfg, s)))
      /\ ExecuteInputSteps(cfg, s) \in Seq(ToSet(ExecuteInputSteps(cfg, s)))
      /\ ShapeOutputSteps(cfg, s) \in Seq(ToSet(ShapeOutputSteps(cfg, s)))
      /\ ExecuteOutputSteps(cfg, s) \in Seq(ToSet(ExecuteOutputSteps(cfg, s)))
  BY <1>3, StepsSet DEF ShapeInputSteps, ExecuteInputSteps, ShapeOutputSteps, ExecuteOutputSteps
<1>5. \A T, S : \A p \in Seq(T), q \in Seq(S) : /\ p \o q \in Seq(T \cup S)
                                                 /\ p \o << >> = p /\ << >> \o p = p
  OBVIOUS
<1>6. InputSteps(cfg, s) = ShapeInputSteps(cfg, s) \o ExecuteInputSteps(cfg, s)
  <2> DEFINE p == ShapeInputSteps(cfg, s)
             q == ExecuteInputSteps(cfg, s)
             controls == [k \in DOMAIN cfg.controls |->
               Description(cfg.controls[k].name, cfg.controls[k].type, <<1>>, "control")]
             batches == [k \in DOMAIN cfg.batchInputs |->
               Description(cfg.batchInputs[k].name, cfg.batchInputs[k].type,
                           BatchInputDims(cfg, cfg.batchInputs[k]), "batch")]
             states == [k \in DOMAIN cfg.states |->
               Description(cfg.states[k].input, cfg.states[k].type, cfg.states[k].dims, "state")]
  <2>1. InputSteps(cfg, s) =
          p \o q \o Steps("input", s, controls) \o Steps("input", s, batches)
            \o Steps("input", s, states)
    BY DEF InputSteps, ShapeInputSteps, ExecuteInputSteps
  <2>2. DOMAIN controls = {} /\ DOMAIN batches = {} /\ DOMAIN states = {}
    BY <1>1, <1>2
  <2> HIDE DEF p, q, controls, batches, states
  <2>3. /\ Steps("input", s, controls) = << >> /\ Steps("input", s, batches) = << >>
        /\ Steps("input", s, states) = << >>
    BY <2>2, NoSteps
  <2>4. p \o q \in Seq(ToSet(p) \cup ToSet(q))
    BY <1>4, <1>5 DEF p, q
  <2> DEFINE r == p \o q
  <2>5. InputSteps(cfg, s) = r \o << >> \o << >> \o << >>
    BY <2>1, <2>3
  <2>6. r \o << >> = r
    BY <1>5, <2>4
  <2> HIDE DEF r
  <2> QED
    BY <2>5, <2>6 DEF p, q, r
<1>7. OutputSteps(cfg, s) = ShapeOutputSteps(cfg, s) \o ExecuteOutputSteps(cfg, s)
  <2> DEFINE p == ShapeOutputSteps(cfg, s)
             q == ExecuteOutputSteps(cfg, s)
             state == [k \in DOMAIN cfg.states |->
               Description(cfg.states[k].output, cfg.states[k].type, cfg.states[k].dims, "state")]
  <2>1. OutputSteps(cfg, s) =
          Steps("batch output", s, cfg.batchOutputs) \o p \o q \o Steps("output", s, state)
    BY DEF OutputSteps, ShapeOutputSteps, ExecuteOutputSteps
  <2>2. DOMAIN state = {} /\ DOMAIN cfg.batchOutputs = {}
    BY <1>1, <1>2
  <2> HIDE DEF p, q, state
  <2>3. Steps("batch output", s, cfg.batchOutputs) = << >> /\ Steps("output", s, state) = << >>
    BY <2>2, NoSteps
  <2>4. p \in Seq(ToSet(p)) /\ p \o q \in Seq(ToSet(p) \cup ToSet(q))
    BY <1>4, <1>5 DEF p, q
  <2>5. << >> \o p = p
    BY <1>5, <2>4
  <2> DEFINE r == p \o q
  <2>6. OutputSteps(cfg, s) = r \o << >>
    BY <2>1, <2>3, <2>5
  <2>7. r \o << >> = r
    BY <1>5, <2>4
  <2> HIDE DEF r
  <2> QED
    BY <2>6, <2>7 DEF p, q, r
<1> QED
  BY <1>6, <1>7

LEMMA TidyConcat ==
  ASSUME NEW e, NEW cfg, NEW p, NEW q, Tidy(e, cfg, p), Tidy(e, cfg, q),
         \A x \in ToSet(p), y \in ToSet(q) : ~Clash(x, y)
  PROVE  Tidy(e, cfg, p \o q) /\ ToSet(p \o q) = ToSet(p) \cup ToSet(q)
<1>1. p \in Seq(ToSet(p)) /\ q \in Seq(ToSet(q))
  BY DEF Tidy
<1>2. p \o q \in Seq(ToSet(p \o q)) /\ ToSet(p \o q) = ToSet(p) \cup ToSet(q)
  BY <1>1, ConcatSet
<1> DEFINE P == ToSet(p)
           Q == ToSet(q)
           r == p \o q
<1> HIDE DEF P, Q
<1>3. /\ Len(p) \in Nat /\ Len(q) \in Nat /\ Len(r) = Len(p) + Len(q)
      /\ \A a \in 1 .. Len(r) : r[a] = IF a <= Len(p) THEN p[a] ELSE q[a - Len(p)]
  <2>1. p \in Seq(P) /\ q \in Seq(Q)
    BY <1>1 DEF P, Q
  <2> QED
    BY <2>1
<1>4. /\ \A a \in 1 .. Len(p) : p[a] \in ToSet(p)
      /\ \A a \in 1 .. Len(q) : q[a] \in ToSet(q)
  BY <1>1
<1> HIDE DEF r
<1>5. \A a \in 1 .. Len(r) : \/ a \in 1 .. Len(p) /\ r[a] = p[a]
                             \/ a - Len(p) \in 1 .. Len(q) /\ r[a] = q[a - Len(p)] /\ a > Len(p)
  BY <1>3
<1>6. \A a \in 1 .. Len(r) : Suits(e, cfg, r[a])
  BY <1>5 DEF Tidy
<1>7. ASSUME NEW b \in 1 .. Len(r), NEW a \in 1 .. b - 1
      PROVE  ~Clash(r[a], r[b])
  <2>1. a \in 1 .. Len(r) /\ a \in Int /\ b \in Int /\ a < b
    BY <1>3
  <2>2. CASE b \in 1 .. Len(p) /\ r[b] = p[b]
    <3>1. r[a] = p[a] /\ a \in 1 .. b - 1
      BY <1>3, <2>1, <2>2
    <3> QED
      BY <2>2, <3>1 DEF Tidy
  <2>3. CASE b - Len(p) \in 1 .. Len(q) /\ r[b] = q[b - Len(p)] /\ b > Len(p)
    <3>1. CASE a \in 1 .. Len(p) /\ r[a] = p[a]
      BY <1>4, <2>3, <3>1
    <3>2. CASE a - Len(p) \in 1 .. Len(q) /\ r[a] = q[a - Len(p)]
      <4>1. a - Len(p) \in 1 .. (b - Len(p)) - 1
        BY <1>3, <2>1, <2>3, <3>2
      <4> QED
        BY <2>3, <3>2, <4>1 DEF Tidy
    <3> QED
      BY <1>5, <2>1, <3>1, <3>2
  <2> QED
    BY <1>5, <2>2, <2>3
<1> QED
  BY <1>2, <1>6, <1>7 DEF Tidy, r

\* Which kinds give a buffer to one tensor.
LEMMA KindsApart ==
  \A x, y, input, shape :
    /\ x.kind \in KindsOf(input) /\ y.kind \in KindsOf(input)
    /\ x.kind \in GivingKinds(shape)
    /\ y.kind \in GivingKinds(shape) \/ y.kind = "shape input"
    => x.kind = y.kind \/ (x.kind = "input" /\ y.kind = "shape input")
<1> SUFFICES ASSUME NEW a, NEW b, NEW input, NEW shape,
                    a \in KindsOf(input), b \in KindsOf(input), a \in GivingKinds(shape),
                    b \in GivingKinds(shape) \/ b = "shape input"
             PROVE  a = b \/ (a = "input" /\ b = "shape input")
  OBVIOUS
<1>1. CASE input /\ shape
  BY <1>1 DEF KindsOf, GivingKinds
<1>2. CASE input /\ ~shape
  BY <1>2 DEF KindsOf, GivingKinds
<1>3. CASE ~input /\ shape
  <2>1. a = "shape output"
    BY <1>3 DEF KindsOf, GivingKinds
  <2>2. b = "shape output" \/ b = "output"
    BY <1>3 DEF KindsOf
  <2>3. b = "shape output" \/ b = "shape input"
    BY <1>3 DEF GivingKinds
  <2>4. b = "shape output"
    BY <2>2, <2>3
  <2> QED
    BY <2>1, <2>4
<1>4. CASE ~input /\ ~shape
  <2>1. a = "output"
    BY <1>4 DEF KindsOf, GivingKinds
  <2>2. b = "shape output" \/ b = "output"
    BY <1>4 DEF KindsOf
  <2>3. b = "input" \/ b = "output" \/ b = "shape input"
    BY <1>4 DEF GivingKinds
  <2>4. b = "output"
    BY <2>2, <2>3
  <2> QED
    BY <2>1, <2>4
<1> QED
  BY <1>1, <1>2, <1>3, <1>4

\* Steps of different kinds do not clash, unless the second one is of the kind
\* that asks and the first is of the kind that gives.
LEMMA NoClash ==
  ASSUME NEW e, NEW cfg, EngineTyped(e), NEW x, NEW y, Suits(e, cfg, x), Suits(e, cfg, y),
         x.kind # y.kind, ~(x.kind = "input" /\ y.kind = "shape input")
  PROVE  ~Clash(x, y)
<1> SUFFICES ASSUME Clash(x, y) PROVE FALSE
  OBVIOUS
<1>1. PICK k : StepOf(e, cfg, x, k)
  BY DEF Suits
<1>2. PICK l : StepOf(e, cfg, y, l)
  BY DEF Suits
<1>3. k \in DOMAIN e.tensors /\ l \in DOMAIN e.tensors
  BY <1>1, <1>2 DEF StepOf
<1>4. /\ x.io.name = e.tensors[k].name /\ x.io.shape = e.tensors[k].shape
      /\ y.io.name = e.tensors[l].name /\ y.io.shape = e.tensors[l].shape
  <2>1. x.io = Told(cfg, e.tensors[k]) /\ y.io = Told(cfg, e.tensors[l])
    BY <1>1, <1>2 DEF StepOf
  <2>2. x.io.name = e.tensors[k].name /\ x.io.shape = e.tensors[k].shape
    BY <2>1, ToldFields
  <2>3. y.io.name = e.tensors[l].name /\ y.io.shape = e.tensors[l].shape
    BY <2>1, ToldFields
  <2> QED
    BY <2>2, <2>3
<1>5. k = l
  BY <1>3, <1>4 DEF Clash, EngineTyped
<1>6. x.kind \in KindsOf(e.tensors[k].input) /\ y.kind \in KindsOf(e.tensors[k].input)
  BY <1>1, <1>2, <1>5 DEF StepOf
<1>7. /\ x.kind \in GivingKinds(e.tensors[k].shape)
      /\ y.kind \in GivingKinds(e.tensors[k].shape) \/ y.kind = "shape input"
  BY <1>4, <1>5 DEF Clash, GivesOwn, Gives
<1> QED
  BY <1>6, <1>7, KindsApart

LEMMA SetsApart ==
  ASSUME NEW x, NEW y, x.set # y.set
  PROVE  ~Clash(x, y)
BY DEF Clash

\* The steps of one kind.
LEMMA TidySteps ==
  ASSUME NEW e, NEW cfg, Written(e, cfg), NEW s \in BufferSets(cfg), NEW input \in BOOLEAN,
         NEW refs, refs = GetRefIO(e, cfg.maxBatch, input), NEW kind \in KindsOf(input),
         NEW steps, steps = Steps(kind, s, Configured(refs))
  PROVE  /\ Tidy(e, cfg, steps)
         /\ \A x \in ToSet(steps) : x.kind = kind /\ x.set = s /\ Suits(e, cfg, x)
         /\ \A k \in DOMAIN e.tensors : e.tensors[k].input = input =>
              [kind |-> kind, set |-> s, io |-> Told(cfg, e.tensors[k])] \in ToSet(steps)
<1>1. EngineTyped(e)
  BY DEF Written, Loadable
<1>2. Listed(e, cfg.maxBatch, input, refs) /\ DescriptionsTyped(refs)
  BY <1>1, RefsListed, RefsTyped
<1>3. PICK n \in Nat : n = Len(refs) /\ DOMAIN refs = 1 .. n /\ DOMAIN Configured(refs) = 1 .. n
  BY <1>2, ConfiguredTyped
<1>4. /\ steps \in Seq(ToSet(steps))
      /\ \A a \in 1 .. n : [kind |-> kind, set |-> s, io |-> Configured(refs)[a]] \in ToSet(steps)
  BY <1>3, StepsSet
<1>5. \A a \in 1 .. n, k \in DOMAIN e.tensors :
        refs[a] = RefIO(cfg.maxBatch, e.tensors[k]) => Configured(refs)[a] = Told(cfg, e.tensors[k])
  BY <1>3 DEF Configured, Told
<1>6. /\ DOMAIN steps = 1 .. n
      /\ \A a \in 1 .. n : steps[a] = [kind |-> kind, set |-> s, io |-> Configured(refs)[a]]
  BY <1>3 DEF Steps
<1>7. Len(steps) = n
  <2>1. Len(steps) \in Nat /\ DOMAIN steps = 1 .. Len(steps)
    BY <1>4
  <2>2. \A a, b \in Nat : 1 .. a = 1 .. b => a = b
    <3>1. ASSUME NEW a \in Nat, NEW b \in Nat, 1 .. a = 1 .. b PROVE a <= b
      <4>1. a # 0 => a \in 1 .. b
        BY <3>1
      <4> QED
        BY <4>1
    <3> QED
      BY <3>1
  <2> QED
    BY <1>6, <2>1, <2>2
<1>8. ASSUME NEW a \in 1 .. n
      PROVE  steps[a].kind = kind /\ steps[a].set = s /\ Suits(e, cfg, steps[a])
  <2>1. PICK k \in DOMAIN e.tensors :
          e.tensors[k].input = input /\ refs[a] = RefIO(cfg.maxBatch, e.tensors[k])
    BY <1>2, <1>3 DEF Listed
  <2>2. steps[a].io = Told(cfg, e.tensors[k]) /\ steps[a].kind = kind /\ steps[a].set = s
    <3>1. Configured(refs)[a] = Told(cfg, e.tensors[k])
      BY <1>5, <2>1
    <3>2. steps[a] = [kind |-> kind, set |-> s, io |-> Configured(refs)[a]]
      BY <1>6
    <3> QED
      BY <3>1, <3>2
  <2>3. StepOf(e, cfg, steps[a], k)
    BY <2>1, <2>2 DEF StepOf
  <2> QED
    BY <2>2, <2>3 DEF Suits
<1>9. ASSUME NEW b \in 1 .. n, NEW a \in 1 .. b - 1
      PROVE  ~Clash(steps[a], steps[b])
  <2>1. a \in 1 .. n /\ a # b
    OBVIOUS
  <2>2. \A l \in 1 .. n : steps[l].io.name = refs[l].name
    <3>1. TAKE l \in 1 .. n
    <3>2. Configured(refs)[l].name = refs[l].name
      BY <1>3 DEF Configured
    <3>3. steps[l] = [kind |-> kind, set |-> s, io |-> Configured(refs)[l]]
      BY <1>6
    <3> QED
      BY <3>2, <3>3
  <2>3. refs[a].name # refs[b].name
    BY <1>2, <1>3, <2>1 DEF Listed
  <2> QED
    BY <2>1, <2>2, <2>3 DEF Clash
<1>10. Tidy(e, cfg, steps)
  BY <1>4, <1>7, <1>8, <1>9 DEF Tidy
<1>11. \A x \in ToSet(steps) : x.kind = kind /\ x.set = s /\ Suits(e, cfg, x)
  <2>1. \A x \in ToSet(steps) : \E a \in 1 .. n : x = steps[a]
    BY <1>4, <1>6 DEF ToSet
  <2> QED
    BY <1>8, <2>1
<1>12. ASSUME NEW k \in DOMAIN e.tensors, e.tensors[k].input = input
       PROVE  [kind |-> kind, set |-> s, io |-> Told(cfg, e.tensors[k])] \in ToSet(steps)
  <2>1. PICK a \in 1 .. n : refs[a] = RefIO(cfg.maxBatch, e.tensors[k])
    BY <1>2, <1>3, <1>12 DEF Listed
  <2>2. Configured(refs)[a] = Told(cfg, e.tensors[k])
    BY <1>5, <2>1
  <2> QED
    BY <1>4, <2>2
<1> QED
  BY <1>10, <1>11, <1>12

\* The steps of a set give each of the tensors they are about a buffer of it.
SetSteps(e, cfg, s, input, steps) ==
  /\ Tidy(e, cfg, steps)
  /\ \A x \in ToSet(steps) : x.kind \in KindsOf(input) /\ x.set = s /\ Suits(e, cfg, x)
  /\ \A k \in DOMAIN e.tensors : e.tensors[k].input = input =>
       \E x \in ToSet(steps) : Gives(x, s, e.tensors[k].name)

LEMMA GivingStep ==
  ASSUME NEW cfg, NEW t, NEW s, NEW kind \in GivingKinds(t.shape), NEW x,
         x = [kind |-> kind, set |-> s, io |-> Told(cfg, t)]
  PROVE  Gives(x, s, t.name)
<1>1. x.kind = kind /\ x.set = s /\ x.io = Told(cfg, t)
  OBVIOUS
<1>2. x.io.name = t.name /\ x.io.shape = t.shape
  BY <1>1, ToldFields
<1> QED
  BY <1>1, <1>2 DEF Gives

\* The steps of a kind for a set, one for each tensor.
KindSteps(e, cfg, s, input, kind, steps) ==
  /\ Tidy(e, cfg, steps)
  /\ \A x \in ToSet(steps) : x.kind = kind /\ x.set = s /\ Suits(e, cfg, x)
  /\ \A k \in DOMAIN e.tensors : e.tensors[k].input = input =>
       [kind |-> kind, set |-> s, io |-> Told(cfg, e.tensors[k])] \in ToSet(steps)

LEMMA OneKind ==
  ASSUME NEW e, NEW cfg, Written(e, cfg), NEW s \in BufferSets(cfg), NEW input \in BOOLEAN,
         NEW refs, refs = GetRefIO(e, cfg.maxBatch, input), NEW kind \in KindsOf(input)
  PROVE  KindSteps(e, cfg, s, input, kind, Steps(kind, s, Configured(refs)))
BY TidySteps DEF KindSteps

LEMMA TwoKinds ==
  ASSUME NEW e, NEW cfg, EngineTyped(e), NEW s, NEW input \in BOOLEAN,
         NEW a \in KindsOf(input), NEW b \in KindsOf(input),
         a # b, ~(a = "input" /\ b = "shape input"),
         \A shape : a \in GivingKinds(shape) \/ b \in GivingKinds(shape),
         NEW p, NEW q, KindSteps(e, cfg, s, input, a, p), KindSteps(e, cfg, s, input, b, q)
  PROVE  SetSteps(e, cfg, s, input, p \o q)
<1>1. Tidy(e, cfg, p) /\ Tidy(e, cfg, q)
  BY DEF KindSteps
<1>2. /\ \A x \in ToSet(p) : x.kind = a /\ x.set = s /\ Suits(e, cfg, x)
      /\ \A x \in ToSet(q) : x.kind = b /\ x.set = s /\ Suits(e, cfg, x)
  BY DEF KindSteps
<1>3. ASSUME NEW x \in ToSet(p), NEW y \in ToSet(q)
      PROVE  ~Clash(x, y)
  <2>1. x.kind = a /\ y.kind = b /\ Suits(e, cfg, x) /\ Suits(e, cfg, y)
    BY <1>2
  <2>2. x.kind # y.kind /\ ~(x.kind = "input" /\ y.kind = "shape input")
    BY <2>1
  <2> QED
    BY <2>1, <2>2, NoClash
<1>4. Tidy(e, cfg, p \o q) /\ ToSet(p \o q) = ToSet(p) \cup ToSet(q)
  <2>1. \A x \in ToSet(p), y \in ToSet(q) : ~Clash(x, y)
    BY <1>3
  <2>2. Tidy(e, cfg, p \o q)
    BY <1>1, <2>1, TidyConcat
  <2>3. p \in Seq(ToSet(p)) /\ q \in Seq(ToSet(q))
    BY <1>1 DEF Tidy
  <2>4. ToSet(p \o q) = ToSet(p) \cup ToSet(q)
    BY <2>3, ConcatSet
  <2> QED
    BY <2>2, <2>4
<1>5. ASSUME NEW x \in ToSet(p \o q)
      PROVE  x.kind \in KindsOf(input) /\ x.set = s /\ Suits(e, cfg, x)
  BY <1>2, <1>4
<1>6. ASSUME NEW k \in DOMAIN e.tensors, e.tensors[k].input = input
      PROVE  \E x \in ToSet(p \o q) : Gives(x, s, e.tensors[k].name)
  <2>1. PICK t : t = e.tensors[k]
    OBVIOUS
  <2>2. PICK x : x = [kind |-> a, set |-> s, io |-> Told(cfg, t)]
    OBVIOUS
  <2>3. PICK y : y = [kind |-> b, set |-> s, io |-> Told(cfg, t)]
    OBVIOUS
  <2>4. x \in ToSet(p)
    BY <1>6, <2>1, <2>2 DEF KindSteps
  <2>5. y \in ToSet(q)
    BY <1>6, <2>1, <2>3 DEF KindSteps
  <2>6. a \in GivingKinds(t.shape) => Gives(x, s, t.name)
    BY <2>2, GivingStep
  <2>7. b \in GivingKinds(t.shape) => Gives(y, s, t.name)
    BY <2>3, GivingStep
  <2> QED
    BY <1>4, <2>1, <2>4, <2>5, <2>6, <2>7
<1> QED
  BY <1>4, <1>5, <1>6 DEF SetSteps

LEMMA TidySet ==
  ASSUME NEW e, NEW cfg, Written(e, cfg), NEW s \in BufferSets(cfg)
  PROVE  /\ SetSteps(e, cfg, s, TRUE, InputSteps(cfg, s))
         /\ SetSteps(e, cfg, s, FALSE, OutputSteps(cfg, s))
<1>1. /\ EngineTyped(e)
      /\ cfg.inputs = GetRefIO(e, cfg.maxBatch, TRUE) /\ cfg.outputs = GetRefIO(e, cfg.maxBatch, FALSE)
  BY DEF Written, Loadable
<1>2. SetSteps(e, cfg, s, TRUE, ShapeInputSteps(cfg, s) \o ExecuteInputSteps(cfg, s))
  <2>1. "shape input" \in KindsOf(TRUE) /\ "input" \in KindsOf(TRUE) /\ "shape input" # "input"
    BY DEF KindsOf
  <2>2. \A shape : "shape input" \in GivingKinds(shape) \/ "input" \in GivingKinds(shape)
    BY DEF GivingKinds
  <2>3. KindSteps(e, cfg, s, TRUE, "shape input", ShapeInputSteps(cfg, s))
    BY <1>1, <2>1, OneKind DEF ShapeInputSteps
  <2>4. KindSteps(e, cfg, s, TRUE, "input", ExecuteInputSteps(cfg, s))
    BY <1>1, <2>1, OneKind DEF ExecuteInputSteps
  <2> QED
    BY <1>1, <2>1, <2>2, <2>3, <2>4, TwoKinds
<1>3. SetSteps(e, cfg, s, FALSE, ShapeOutputSteps(cfg, s) \o ExecuteOutputSteps(cfg, s))
  <2>1. /\ "shape output" \in KindsOf(FALSE) /\ "output" \in KindsOf(FALSE)
        /\ "shape output" # "output" /\ "shape output" # "input"
    BY DEF KindsOf
  <2>2. \A shape : "shape output" \in GivingKinds(shape) \/ "output" \in GivingKinds(shape)
    BY DEF GivingKinds
  <2>3. KindSteps(e, cfg, s, FALSE, "shape output", ShapeOutputSteps(cfg, s))
    BY <1>1, <2>1, OneKind DEF ShapeOutputSteps
  <2>4. KindSteps(e, cfg, s, FALSE, "output", ExecuteOutputSteps(cfg, s))
    BY <1>1, <2>1, OneKind DEF ExecuteOutputSteps
  <2> QED
    BY <1>1, <2>1, <2>2, <2>3, <2>4, TwoKinds
<1> QED
  BY <1>2, <1>3, StepsOfSet

LEMMA FlattenFew ==
  ASSUME NEW A
  PROVE  /\ A = [k \in 1 .. 1 |-> A[k]] => FlattenSeq(A) = A[1]
         /\ A = [k \in 1 .. 2 |-> A[k]] => FlattenSeq(A) = A[1] \o A[2]
<1>1. ASSUME A = [k \in 1 .. 1 |-> A[k]]
      PROVE  FlattenSeq(A) = A[1]
  <2>1. Len([k \in 1 .. 1 |-> A[k]]) = 1
    OBVIOUS
  <2>2. Len(A) = 1
    BY <1>1, <2>1
  <2>3. Len(A) \in Nat /\ Len(A) # 0
    BY <2>2
  <2>4. PICK f : Flattens(f, A, Len(A)) /\ FlattenSeq(A) = f[Len(A)]
    BY <2>3, FlattenSeqEquation
  <2> QED
    BY <2>2, <2>4 DEF Flattens
<1>2. ASSUME A = [k \in 1 .. 2 |-> A[k]]
      PROVE  FlattenSeq(A) = A[1] \o A[2]
  <2>1. Len([k \in 1 .. 2 |-> A[k]]) = 2
    OBVIOUS
  <2>2. Len(A) = 2
    BY <1>2, <2>1
  <2>3. Len(A) \in Nat /\ Len(A) # 0
    BY <2>2
  <2>4. PICK f : Flattens(f, A, Len(A)) /\ FlattenSeq(A) = f[Len(A)]
    BY <2>3, FlattenSeqEquation
  <2>5. f[1] = A[1]
    BY <2>2, <2>4 DEF Flattens
  <2>6. \A i \in 1 .. 2 : f[i] = IF i = 1 THEN A[1] ELSE f[i - 1] \o A[i]
    BY <2>2, <2>4 DEF Flattens
  <2>7. f[2] = f[1] \o A[2]
    <3>1. 2 \in 1 .. 2 /\ 2 # 1 /\ 2 - 1 = 1
      OBVIOUS
    <3> QED
      BY <2>6, <3>1
  <2> QED
    BY <2>2, <2>4, <2>5, <2>7
<1> QED
  BY <1>1, <1>2

\* All inputs come before all outputs, and of either those of the first set.
LEMMA StepsOrder ==
  ASSUME NEW cfg
  PROVE  InitializationSteps(cfg) =
           IF cfg.separateOutput
           THEN (InputSteps(cfg, 0) \o InputSteps(cfg, 1)) \o (OutputSteps(cfg, 0) \o OutputSteps(cfg, 1))
           ELSE InputSteps(cfg, 0) \o OutputSteps(cfg, 0)
<1>1. CASE cfg.separateOutput
  <2> DEFINE A == [k \in 1 .. 2 |-> InputSteps(cfg, <<0, 1>>[k])]
             B == [k \in 1 .. 2 |-> OutputSteps(cfg, <<0, 1>>[k])]
  <2>1. InitializationSteps(cfg) = FlattenSeq(A) \o FlattenSeq(B)
    BY <1>1 DEF InitializationSteps
  <2>2. /\ A = [k \in 1 .. 2 |-> A[k]] /\ A[1] = InputSteps(cfg, 0) /\ A[2] = InputSteps(cfg, 1)
        /\ B = [k \in 1 .. 2 |-> B[k]] /\ B[1] = OutputSteps(cfg, 0) /\ B[2] = OutputSteps(cfg, 1)
    OBVIOUS
  <2> HIDE DEF A, B
  <2> QED
    BY <1>1, <2>1, <2>2, FlattenFew
<1>2. CASE ~cfg.separateOutput
  <2> DEFINE A == [k \in 1 .. 1 |-> InputSteps(cfg, <<0>>[k])]
             B == [k \in 1 .. 1 |-> OutputSteps(cfg, <<0>>[k])]
  <2>1. InitializationSteps(cfg) = FlattenSeq(A) \o FlattenSeq(B)
    BY <1>2 DEF InitializationSteps
  <2>2. /\ A = [k \in 1 .. 1 |-> A[k]] /\ A[1] = InputSteps(cfg, 0)
        /\ B = [k \in 1 .. 1 |-> B[k]] /\ B[1] = OutputSteps(cfg, 0)
    OBVIOUS
  <2> HIDE DEF A, B
  <2> QED
    BY <1>2, <2>1, <2>2, FlattenFew
<1> QED
  BY <1>1, <1>2

-----------------------------------------------------------------------------
(***************************************************************************)
(* The initialization of such a configuration.                             *)
(***************************************************************************)
\* Two stretches of steps that do not interfere.
LEMMA Apart ==
  ASSUME NEW e, NEW cfg, EngineTyped(e), NEW s, NEW r, NEW i \in BOOLEAN, NEW j \in BOOLEAN,
         NEW p, NEW q, SetSteps(e, cfg, s, i, p), SetSteps(e, cfg, r, j, q), s # r \/ (i /\ ~j)
  PROVE  \A x \in ToSet(p), y \in ToSet(q) : ~Clash(x, y)
<1>1. TAKE x \in ToSet(p), y \in ToSet(q)
<1>2. /\ x.kind \in KindsOf(i) /\ x.set = s /\ Suits(e, cfg, x)
      /\ y.kind \in KindsOf(j) /\ y.set = r /\ Suits(e, cfg, y)
  BY DEF SetSteps
<1>3. CASE s # r
  BY <1>2, <1>3, SetsApart
<1>4. CASE i /\ ~j
  <2>1. \A a, b : a \in KindsOf(i) /\ b \in KindsOf(j) => a # b /\ b # "shape input"
    BY <1>4 DEF KindsOf
  <2>2. x.kind # y.kind /\ ~(x.kind = "input" /\ y.kind = "shape input")
    BY <1>2, <2>1
  <2> QED
    BY <1>2, <2>2, NoClash
<1> QED
  BY <1>3, <1>4

\* The whole is tidy, and each tensor gets a buffer in each set.
Covers(e, cfg, steps) ==
  /\ Tidy(e, cfg, steps)
  /\ \A s \in BufferSets(cfg), n \in Names(e) : \E x \in ToSet(steps) : Gives(x, s, n)

LEMMA CoversOne ==
  ASSUME NEW e, NEW cfg, EngineTyped(e), NEW s, NEW p, NEW q,
         SetSteps(e, cfg, s, TRUE, p), SetSteps(e, cfg, s, FALSE, q), BufferSets(cfg) = {s}
  PROVE  Covers(e, cfg, p \o q)
<1>1. \A x \in ToSet(p), y \in ToSet(q) : ~Clash(x, y)
  BY Apart
<1>2. Tidy(e, cfg, p) /\ Tidy(e, cfg, q)
  BY DEF SetSteps
<1>3. Tidy(e, cfg, p \o q)
  BY <1>1, <1>2, TidyConcat
<1>4. p \in Seq(ToSet(p)) /\ q \in Seq(ToSet(q))
  BY <1>2 DEF Tidy
<1>5. ToSet(p \o q) = ToSet(p) \cup ToSet(q)
  BY <1>4, ConcatSet
<1>6. ASSUME NEW n \in Names(e)
      PROVE  \E x \in ToSet(p \o q) : Gives(x, s, n)
  <2>1. PICK k \in DOMAIN e.tensors : e.tensors[k].name = n
    BY DEF Names
  <2>2. e.tensors[k].input = TRUE \/ e.tensors[k].input = FALSE
    BY DEF EngineTyped
  <2>3. (\E x \in ToSet(p) : Gives(x, s, n)) \/ (\E x \in ToSet(q) : Gives(x, s, n))
    BY <2>1, <2>2 DEF SetSteps
  <2> QED
    BY <1>5, <2>3
<1> QED
  BY <1>3, <1>6 DEF Covers

LEMMA CoversTwo ==
  ASSUME NEW e, NEW cfg, EngineTyped(e), NEW p, NEW q, NEW u, NEW v,
         SetSteps(e, cfg, 0, TRUE, p), SetSteps(e, cfg, 1, TRUE, q),
         SetSteps(e, cfg, 0, FALSE, u), SetSteps(e, cfg, 1, FALSE, v), BufferSets(cfg) = {0, 1}
  PROVE  Covers(e, cfg, (p \o q) \o (u \o v))
<1> DEFINE l == p \o q
           r == u \o v
<1>0. 0 # 1 /\ TRUE \in BOOLEAN /\ FALSE \in BOOLEAN
  OBVIOUS
<1>1. \A x \in ToSet(p), y \in ToSet(q) : ~Clash(x, y)
  BY <1>0, Apart, Zenon
<1>2. \A x \in ToSet(u), y \in ToSet(v) : ~Clash(x, y)
  BY <1>0, Apart, Zenon
<1>3. Tidy(e, cfg, p) /\ Tidy(e, cfg, q) /\ Tidy(e, cfg, u) /\ Tidy(e, cfg, v)
  BY DEF SetSteps
<1>4. Tidy(e, cfg, l)
  BY <1>1, <1>3, TidyConcat
<1>5. Tidy(e, cfg, r)
  BY <1>2, <1>3, TidyConcat
<1>6. /\ p \in Seq(ToSet(p)) /\ q \in Seq(ToSet(q)) /\ u \in Seq(ToSet(u)) /\ v \in Seq(ToSet(v))
      /\ l \in Seq(ToSet(l)) /\ r \in Seq(ToSet(r))
  BY <1>3, <1>4, <1>5 DEF Tidy
<1>7. ToSet(l) = ToSet(p) \cup ToSet(q)
  BY <1>6, ConcatSet
<1>8. ToSet(r) = ToSet(u) \cup ToSet(v)
  BY <1>6, ConcatSet
<1> HIDE DEF l, r
<1>9. \A x \in ToSet(l), y \in ToSet(r) : ~Clash(x, y)
  <2>1. \A x \in ToSet(p), y \in ToSet(u) : ~Clash(x, y)
    BY Apart
  <2>2. \A x \in ToSet(p), y \in ToSet(v) : ~Clash(x, y)
    BY Apart
  <2>3. \A x \in ToSet(q), y \in ToSet(u) : ~Clash(x, y)
    BY Apart
  <2>4. \A x \in ToSet(q), y \in ToSet(v) : ~Clash(x, y)
    BY Apart
  <2> QED
    BY <1>7, <1>8, <2>1, <2>2, <2>3, <2>4
<1>10. Tidy(e, cfg, l \o r)
  BY <1>4, <1>5, <1>9, TidyConcat
<1>11. ToSet(l \o r) = ToSet(l) \cup ToSet(r)
  BY <1>6, ConcatSet
<1>12. ASSUME NEW s \in BufferSets(cfg), NEW n \in Names(e)
       PROVE  \E x \in ToSet(l \o r) : Gives(x, s, n)
  <2>1. PICK k \in DOMAIN e.tensors : e.tensors[k].name = n
    BY DEF Names
  <2>2. e.tensors[k].input = TRUE \/ e.tensors[k].input = FALSE
    BY DEF EngineTyped
  <2>3. CASE s = 0
    <3>1. (\E x \in ToSet(p) : Gives(x, s, n)) \/ (\E x \in ToSet(u) : Gives(x, s, n))
      BY <2>1, <2>2, <2>3 DEF SetSteps
    <3> QED
      BY <1>7, <1>8, <1>11, <3>1
  <2>4. CASE s = 1
    <3>1. (\E x \in ToSet(q) : Gives(x, s, n)) \/ (\E x \in ToSet(v) : Gives(x, s, n))
      BY <2>1, <2>2, <2>4 DEF SetSteps
    <3> QED
      BY <1>7, <1>8, <1>11, <3>1
  <2> QED
    BY <2>3, <2>4
<1> QED
  BY <1>10, <1>12 DEF Covers, l, r

\* The initialization of a configuration that completion wrote gives each
\* tensor one buffer in each set, and asks for none twice.
LEMMA InitCovers ==
  ASSUME NEW e, NEW cfg, Written(e, cfg)
  PROVE  Covers(e, cfg, InitializationSteps(cfg))
<1>1. EngineTyped(e)
  BY DEF Written, Loadable
<1>2. ASSUME NEW s \in BufferSets(cfg)
      PROVE  /\ SetSteps(e, cfg, s, TRUE, InputSteps(cfg, s))
             /\ SetSteps(e, cfg, s, FALSE, OutputSteps(cfg, s))
  BY TidySet
<1>3. CASE cfg.separateOutput
  <2>1. BufferSets(cfg) = {0, 1}
    BY <1>3 DEF BufferSets
  <2>2. 0 \in BufferSets(cfg) /\ 1 \in BufferSets(cfg)
    BY <2>1
  <2>3. InitializationSteps(cfg) =
          (InputSteps(cfg, 0) \o InputSteps(cfg, 1)) \o (OutputSteps(cfg, 0) \o OutputSteps(cfg, 1))
    BY <1>3, StepsOrder
  <2>4. Covers(e, cfg, (InputSteps(cfg, 0) \o InputSteps(cfg, 1))
                        \o (OutputSteps(cfg, 0) \o OutputSteps(cfg, 1)))
    BY <1>1, <1>2, <2>1, <2>2, CoversTwo
  <2> QED
    BY <2>3, <2>4
<1>4. CASE ~cfg.separateOutput
  <2>1. BufferSets(cfg) = {0}
    BY <1>4 DEF BufferSets
  <2>2. 0 \in BufferSets(cfg)
    BY <2>1
  <2>3. InitializationSteps(cfg) = InputSteps(cfg, 0) \o OutputSteps(cfg, 0)
    BY <1>4, StepsOrder
  <2>4. Covers(e, cfg, InputSteps(cfg, 0) \o OutputSteps(cfg, 0))
    BY <1>1, <1>2, <2>1, <2>2, CoversOne
  <2> QED
    BY <2>3, <2>4
<1> QED
  BY <1>3, <1>4

LEMMA WrittenInputsFew ==
  ASSUME NEW e, NEW cfg, Written(e, cfg)
  PROVE  Len(cfg.inputs) <= Cardinality(InputNames(e))
<1>1. EngineTyped(e) /\ cfg.inputs = GetRefIO(e, cfg.maxBatch, TRUE)
  BY DEF Written, Loadable
<1>2. Listed(e, cfg.maxBatch, TRUE, cfg.inputs) /\ DescriptionsTyped(cfg.inputs)
  BY <1>1, RefsListed, RefsTyped
<1>3. PICK n \in Nat : n = Len(cfg.inputs) /\ DOMAIN cfg.inputs = 1 .. n
  BY <1>2 DEF DescriptionsTyped
<1> DEFINE f == [a \in 1 .. n |-> cfg.inputs[a].name]
<1>4. \A a \in 1 .. n : cfg.inputs[a].name \in InputNames(e)
  <2>1. TAKE a \in 1 .. n
  <2>2. PICK k \in DOMAIN e.tensors :
          e.tensors[k].input = TRUE /\ cfg.inputs[a] = RefIO(cfg.maxBatch, e.tensors[k])
    BY <1>2, <1>3 DEF Listed
  <2>3. e.tensors[k].name \in InputNames(e)
    BY <1>1, <2>2, TensorNamed
  <2> QED
    BY <2>2, <2>3 DEF RefIO
<1>5. \A a, b \in 1 .. n : cfg.inputs[a].name = cfg.inputs[b].name => a = b
  BY <1>2, <1>3 DEF Listed
<1>6. f \in Injection(1 .. n, InputNames(e))
  BY <1>4, <1>5 DEF Injection, IsInjective
<1> HIDE DEF f
<1>7. Cardinality(1 .. n) <= Cardinality(InputNames(e))
  BY <1>1, <1>6, NamesFinite, FS_Injection
<1>8. Cardinality(1 .. n) = n
  BY <1>3, FS_Interval
<1> QED
  BY <1>3, <1>7, <1>8

\* ValidateIO accepts what completion wrote.
LEMMA WrittenValid ==
  ASSUME NEW e, NEW cfg, Written(e, cfg)
  PROVE  ValidateIO(e, cfg)
<1>1. /\ EngineTyped(e) /\ cfg.inputs = GetRefIO(e, cfg.maxBatch, TRUE)
      /\ cfg.outputs = GetRefIO(e, cfg.maxBatch, FALSE) /\ Describable(e)
  BY DEF Written, Loadable
<1>2. ASSUME NEW input \in BOOLEAN, NEW refs, refs = GetRefIO(e, cfg.maxBatch, input),
             NEW a \in DOMAIN refs
      PROVE  /\ refs[a].name \in Names(e) /\ (~input => refs[a].name \notin InputNames(e))
             /\ IsInput(e, refs[a].name) = input
             /\ refs[a].type \in TrtTypes /\ refs[a].shape = Tensor(e, refs[a].name).shape
             /\ refs[a].nonLinear = ~Tensor(e, refs[a].name).format.linear
  <2>1. Listed(e, cfg.maxBatch, input, refs)
    BY <1>1, <1>2, RefsListed
  <2>2. PICK k \in DOMAIN e.tensors :
          e.tensors[k].input = input /\ refs[a] = RefIO(cfg.maxBatch, e.tensors[k])
    BY <1>2, <2>1 DEF Listed
  <2>3. PICK t : t = e.tensors[k]
    OBVIOUS
  <2>4. /\ refs[a].name = t.name /\ refs[a].type = t.type /\ refs[a].shape = t.shape
        /\ refs[a].nonLinear = ~t.format.linear
    BY <2>2, <2>3 DEF RefIO
  <2>5. /\ t.name \in Names(e) /\ Tensor(e, t.name) = t /\ IsInput(e, t.name) = t.input
        /\ t.name \in InputNames(e) <=> t.input
    BY <1>1, <2>3, TensorNamed
  <2>6. t.input = input /\ t.type \in TrtTypes
    BY <1>1, <2>2, <2>3 DEF Describable
  <2> QED
    BY <2>4, <2>5, <2>6
<1>3. /\ ValidateIOHelper(e, cfg.inputs) /\ \A k \in DOMAIN cfg.inputs : IsInput(e, cfg.inputs[k].name)
  <2>1. ASSUME NEW a \in DOMAIN cfg.inputs
        PROVE  /\ IsInput(e, cfg.inputs[a].name) = TRUE
               /\ cfg.inputs[a].type \in TrtTypes
               /\ cfg.inputs[a].shape = Tensor(e, cfg.inputs[a].name).shape
               /\ cfg.inputs[a].nonLinear = ~Tensor(e, cfg.inputs[a].name).format.linear
    <3>1. TRUE \in BOOLEAN
      OBVIOUS
    <3> QED
      BY <1>1, <1>2, <3>1
  <2> QED
    BY <2>1 DEF ValidateIOHelper
<1>4. /\ ValidateIOHelper(e, cfg.outputs)
      /\ \A k \in DOMAIN cfg.outputs : cfg.outputs[k].name \in Names(e) \ InputNames(e)
  <2>1. ASSUME NEW a \in DOMAIN cfg.outputs
        PROVE  /\ cfg.outputs[a].name \in Names(e)
               /\ cfg.outputs[a].name \notin InputNames(e)
               /\ cfg.outputs[a].type \in TrtTypes
               /\ cfg.outputs[a].shape = Tensor(e, cfg.outputs[a].name).shape
               /\ cfg.outputs[a].nonLinear = ~Tensor(e, cfg.outputs[a].name).format.linear
    <3>1. PICK input \in BOOLEAN : ~input
      OBVIOUS
    <3>2. cfg.outputs = GetRefIO(e, cfg.maxBatch, input)
      <4>1. input = FALSE
        BY <3>1
      <4> QED
        BY <1>1, <4>1
    <3> QED
      BY <1>2, <3>1, <3>2
  <2> QED
    BY <2>1 DEF ValidateIOHelper
<1> QED
  BY <1>3, <1>4, WrittenInputsFew DEF ValidateIO, AllowedIO

\* All its steps are gone through.
LEMMA WrittenDone ==
  ASSUME NEW e, NEW cfg, Written(e, cfg)
  PROVE  Loading(e, cfg, InitializationSteps(cfg), Len(InitializationSteps(cfg)), Done(e, cfg))
<1> DEFINE steps == InitializationSteps(cfg)
           n == Len(steps)
<1>1. Tidy(e, cfg, steps) /\ IOSteps(e, cfg, steps)
  BY InitCovers, WrittenValid, InitializationStepsTyped DEF Covers, Written, Loadable
<1>2. n \in Nat /\ DOMAIN steps = 1 .. n
  BY <1>1 DEF Tidy
<1>3. PICK g : Progress(g, e, cfg, steps, n) /\ Done(e, cfg) = g[1 .. n]
  BY <1>2, DoneEquation
<1> HIDE DEF steps
<1> DEFINE T == {k \in Nat : k <= n => Loading(e, cfg, steps, k, g[1 .. k])}
<1>4. 0 \in T
  <2>1. 1 .. 0 = {} /\ 1 .. 0 \in SUBSET (1 .. n)
    OBVIOUS
  <2>2. g[1 .. 0] = Start(e, cfg)
    BY <1>3, <2>1 DEF Progress
  <2> QED
    BY <2>2, StartLoading
<1>5. ASSUME NEW k \in Nat, k \in T
      PROVE  k + 1 \in T
  <2> SUFFICES ASSUME k + 1 <= n
               PROVE  Loading(e, cfg, steps, k + 1, g[1 .. k + 1])
    OBVIOUS
  <2>1. Max(1 .. k + 1) = k + 1 /\ (1 .. k + 1) \ {k + 1} = 1 .. k
    BY LastIndex
  <2>2. 1 .. k + 1 \in SUBSET (1 .. n) /\ k + 1 \in 1 .. k + 1 /\ k <= n
    BY <1>2
  <2>3. 1 .. k + 1 # {}
    BY <2>2
  <2>4. g[1 .. k + 1] = Unless(e, cfg, g[(1 .. k + 1) \ {Max(1 .. k + 1)}], steps[Max(1 .. k + 1)])
    BY <1>3, <2>2, <2>3 DEF Progress
  <2>5. g[1 .. k + 1] = Unless(e, cfg, g[1 .. k], steps[k + 1])
    BY <2>1, <2>4
  <2>6. Loading(e, cfg, steps, k, g[1 .. k])
    BY <1>5, <2>2
  <2>7. g[1 .. k + 1] = Initialize(e, cfg, g[1 .. k], steps[k + 1])
    BY <2>5, <2>6 DEF Unless, Loading
  <2> QED
    BY <1>1, <2>6, <2>7, LoadingNext
<1>6. Nat \subseteq T
  <2> HIDE DEF T
  <2> QED
    BY <1>4, <1>5, InductionOnSet
<1>7. Loading(e, cfg, steps, n, g[1 .. n])
  BY <1>2, <1>6
<1> QED
  BY <1>3, <1>7 DEF steps

\* InitOptimizationProfiles, ValidateIO and InitIOBindingBuffers accept what
\* completion wrote of an engine that a configuration can describe.
LEMMA WrittenLoads ==
  ASSUME NEW e, NEW cfg, Written(e, cfg)
  PROVE  Bindings(e, cfg).ok
<1> DEFINE steps == InitializationSteps(cfg)
           d == Done(e, cfg)
           all == AllAllocated(d)
<1>1. ProfilesExist(e, cfg) /\ ValidateIO(e, cfg)
  BY WrittenValid DEF Written, Loadable
<1>2. Bindings(e, cfg) = [d EXCEPT !.ok = d.ok /\ all]
  BY <1>1, InitIsDone DEF Bindings
<1>3. Loading(e, cfg, steps, Len(steps), d) /\ Covers(e, cfg, steps)
  BY WrittenDone, InitCovers
<1> HIDE DEF d, steps
<1>4. d.ok /\ d \in States(e, cfg)
  BY <1>3 DEF Loading, Good
<1>5. ASSUME NEW s \in BufferSets(cfg), NEW n \in Names(e)
      PROVE  d.info[s][n].allocated
  <2>1. PICK x \in ToSet(steps) : Gives(x, s, n)
    BY <1>3 DEF Covers
  <2>2. steps \in Seq(ToSet(steps))
    BY <1>3 DEF Covers, Tidy
  <2>3. PICK q \in 1 .. Len(steps) : x = steps[q]
    BY <2>2 DEF ToSet
  <2> QED
    BY <1>3, <2>1, <2>3 DEF Loading
<1>6. all
  <2>1. DOMAIN d.info = BufferSets(cfg) /\ \A s \in BufferSets(cfg) : DOMAIN d.info[s] = Names(e)
    BY <1>4 DEF States
  <2> QED
    BY <1>5, <2>1 DEF AllAllocated
<1> HIDE DEF all
<1> QED
  BY <1>2, <1>4, <1>6 DEF States

-----------------------------------------------------------------------------
(***************************************************************************)
(* What completion writes when the configuration says nothing.             *)
(***************************************************************************)
\* The least first dimension of an input is a batch size that is supported.
LEMMA LeastSupported ==
  ASSUME NEW e, EngineTyped(e), FirstDimensions(e), Describable(e), NEW n \in InputNames(e),
         ~IsShape(e, n)
  PROVE  e.profiles[1][n].min[1] <= GetProfileMaxBatchSize(e, 1)
<1> DEFINE lo == e.profiles[1][n].min[1]
           f == [o \in InputNames(e) |->
                   IF IsShape(e, o) THEN e.profiles[1][o].high[1] ELSE e.profiles[1][o].max[1]]
           S == {f[o] : o \in InputNames(e)}
<1>1. BoundsOfDims(e) /\ 1 \in DOMAIN e.profiles
  BY DEF Describable, BoundsOfDims
<1>2. /\ e.profiles[1][n].min \in Seq(Nat) /\ e.profiles[1][n].max \in Seq(Nat)
      /\ e.profiles[1][n].max # << >> /\ Len(e.profiles[1][n].min) = Len(e.profiles[1][n].max)
  BY <1>1 DEF EngineTyped, FirstDimensions
<1>3. lo \in Nat /\ lo <= e.profiles[1][n].max[1]
  <2> DEFINE dims == Tensor(e, n).dims
             min == e.profiles[1][n].min
             max == e.profiles[1][n].max
  <2>1. /\ Len(max) = Len(dims)
        /\ \A d \in DOMAIN dims :
             IF dims[d] = WILDCARD_DIM THEN min[d] <= max[d]
             ELSE min[d] = dims[d] /\ max[d] = dims[d]
    BY <1>1 DEF BoundsOfDims
  <2>2. n \in Names(e) /\ dims \in Seq(Int)
    BY InputsAreNames, TensorTyped
  <2>3. min \in Seq(Nat) /\ max \in Seq(Nat) /\ max # << >> /\ Len(min) = Len(max)
    BY <1>2
  <2> HIDE DEF dims, min, max
  <2>4. 1 \in DOMAIN dims /\ min[1] \in Nat /\ max[1] \in Nat
    BY <2>1, <2>2, <2>3
  <2>5. min[1] <= max[1]
    BY <2>1, <2>4
  <2> QED
    BY <2>4, <2>5 DEF min, max
<1>4. FirstSizes(e, 1, n) = <<lo, e.profiles[1][n].max[1]>>
  BY DEF FirstSizes
<1>5. lo <= INT_MAX
  <2>1. FirstSizes(e, 1, n)[1] <= INT_MAX
    BY DEF Describable
  <2> QED
    BY <1>4, <2>1
<1>6. ASSUME NEW o \in InputNames(e)
      PROVE  f[o] = e.profiles[1][n].max[1]
  <2>1. FirstSizes(e, 1, o) = FirstSizes(e, 1, n)
    BY DEF Describable
  <2>2. FirstSizes(e, 1, o)[2] = f[o]
    BY DEF FirstSizes
  <2>3. FirstSizes(e, 1, n)[2] = e.profiles[1][n].max[1]
    BY <1>4
  <2> QED
    BY <2>1, <2>2, <2>3
<1>7. IsFiniteSet(S)
  <2>1. DOMAIN f = InputNames(e) /\ f = [o \in InputNames(e) |-> f[o]]
    OBVIOUS
  <2> HIDE DEF f
  <2> QED
    BY <2>1, NamesFinite, FiniteImage
<1>8. GetProfileMaxBatchSize(e, 1) = Min({INT_MAX} \cup S)
  BY DEF GetProfileMaxBatchSize
<1>9. \A y \in {INT_MAX} \cup S : y \in Int /\ lo <= y
  <2>1. e.profiles[1][n].max[1] \in Int
    <3>1. \A q \in Seq(Nat) : q # << >> => q[1] \in Int
      OBVIOUS
    <3> QED
      BY <1>2, <3>1
  <2>2. \A o \in InputNames(e) : f[o] \in Int /\ lo <= f[o]
    BY <1>3, <1>6, <2>1
  <2>3. INT_MAX \in Int
    BY DEF INT_MAX
  <2> HIDE DEF f, lo
  <2> QED
    BY <1>5, <2>2, <2>3
<1> HIDE DEF S, lo
<1>10. IsFiniteSet({INT_MAX} \cup S)
  <2>1. IsFiniteSet(S \cup {INT_MAX})
    BY <1>7, FS_AddElement
  <2>2. S \cup {INT_MAX} = {INT_MAX} \cup S
    OBVIOUS
  <2> QED
    BY <2>1, <2>2
<1>11. Min({INT_MAX} \cup S) \in {INT_MAX} \cup S
  <2>1. {INT_MAX} \cup S # {} /\ {INT_MAX} \cup S \subseteq Int
    BY <1>9
  <2> QED
    BY <1>10, <2>1, Extremes
<1> QED
  BY <1>8, <1>9, <1>11 DEF lo

\* No profile of an instance group is asked for: the first one is taken.
LEMMA FirstProfileOnly ==
  ASSUME NEW e, EngineTyped(e), FirstDimensions(e), 1 \in DOMAIN e.profiles,
         NEW cfg, cfg.groupProfiles = {}
  PROVE  /\ ProfileIndices(cfg) = {1} /\ GetMaxSupportedBatchSize(e, cfg) \in Nat
         /\ GetProfileMaxBatchSize(e, 1) <= GetMaxSupportedBatchSize(e, cfg)
<1> DEFINE size == GetProfileMaxBatchSize(e, 1)
           A == {0} \cup {size}
<1>1. ProfileIndices(cfg) = {1}
  BY DEF ProfileIndices
<1>2. size \in Int
  BY ProfileBatchTyped
<1>3. GetMaxSupportedBatchSize(e, cfg) = Max(A)
  <2>1. {GetProfileMaxBatchSize(e, c) : c \in ProfileIndices(cfg)} = {size}
    BY <1>1
  <2> QED
    BY <2>1 DEF GetMaxSupportedBatchSize
<1>4. IsFiniteSet(A)
  <2>1. IsFiniteSet({size}) /\ IsFiniteSet({size} \cup {0})
    BY FS_Singleton, FS_AddElement
  <2>2. {size} \cup {0} = A
    OBVIOUS
  <2> QED
    BY <2>1, <2>2
<1> HIDE DEF size
<1>5. A \subseteq Int /\ A # {} /\ 0 \in A /\ size \in A
  BY <1>2
<1> HIDE DEF A
<1>6. Max(A) \in A /\ \A y \in A : y <= Max(A)
  BY <1>4, <1>5, Extremes
<1>7. Max(A) \in Int /\ 0 <= Max(A) /\ size <= Max(A)
  BY <1>5, <1>6
<1>8. Max(A) \in Nat
  BY <1>7
<1> QED
  BY <1>1, <1>3, <1>7, <1>8 DEF size

\* A configuration that says nothing of the tensors.
SaysNothing(cfg) ==
  /\ cfg.maxBatch = 0
  /\ cfg.inputs = << >> /\ cfg.outputs = << >> /\ cfg.controls = << >> /\ cfg.states = << >>
  /\ cfg.batchInputs = << >> /\ cfg.batchOutputs = << >>
  /\ cfg.profiles = << >> /\ cfg.groupProfiles = {}

LEMMA NothingWanted ==
  ASSUME NEW e, NEW cfg, ConfigTyped(cfg), SaysNothing(cfg), NEW hint, hint = ConfigBatchHint(e, cfg)
  PROVE  hint.ok /\ ~hint.batch /\ BatchesWanted(e, cfg) = GetMaxSupportedBatchSize(e, cfg)
<1>1. DescriptionsTyped(cfg.inputs) /\ DescriptionsTyped(cfg.outputs)
  BY DEF ConfigTyped
<1>2. DOMAIN cfg.inputs = {} /\ DOMAIN cfg.outputs = {}
  BY DEF SaysNothing
<1>3. ~HasRagged(cfg.inputs) /\ ~HasRagged(cfg.outputs)
  BY <1>2 DEF HasRagged
<1>4. Inspected(cfg.inputs) = {} /\ Inspected(cfg.outputs) = {}
  BY <1>2 DEF Inspected
<1>5. /\ Says(e, cfg.inputs, FALSE) /\ Says(e, cfg.outputs, FALSE)
      /\ ~SomeRagged(cfg) /\ ~SomeEvidence(cfg) /\ NamesAllowed(e, cfg)
  BY <1>3, <1>4 DEF Says, SomeRagged, SomeEvidence, EvidenceIn, NamesAllowed, AllowedIn
<1>6. PICK batch \in BOOLEAN : batch = FALSE
  OBVIOUS
<1>7. Says(e, cfg.inputs, batch) /\ Says(e, cfg.outputs, batch)
  BY <1>5, <1>6
<1>8. hint.ok
  BY <1>1, <1>5, <1>7, HintsOfConfig
<1> QED
  BY <1>1, <1>5, <1>6, <1>7, <1>8, BatchesOf

\* "Assuming the first dimension to be batch dimension", completion is not
\* refused and writes each tensor as the engine has it.
LEMMA CompletionWrites ==
  ASSUME NEW e, EngineTyped(e), FirstDimensions(e), Describable(e),
         NEW cfg, ConfigTyped(cfg), SaysNothing(cfg)
  PROVE  LET done == AutoCompleteConfigHelper(e, cfg)
         IN  done.ok /\ Written(e, done.config)
<1> DEFINE hint == ConfigBatchHint(e, cfg)
           size == BatchesWanted(e, cfg)
           filled == Filled(e, cfg, size)
<1>1. /\ 1 \in DOMAIN e.profiles /\ cfg.groupProfiles = {} /\ cfg.maxBatch = 0
  BY DEF Describable, BoundsOfDims, SaysNothing
<1>2. hint.ok /\ ~hint.batch /\ size = GetMaxSupportedBatchSize(e, cfg)
  BY NothingWanted
<1>3. /\ ProfileIndices(cfg) = {1} /\ size \in Nat /\ GetProfileMaxBatchSize(e, 1) <= size
  BY <1>1, <1>2, FirstProfileOnly
<1>4. GetProfileMaxBatchSize(e, 1) \in Int
  BY <1>1, ProfileBatchTyped
<1> HIDE DEF hint, size
<1>5. DOMAIN cfg.inputs = {} /\ DOMAIN cfg.outputs = {}
  BY DEF SaysNothing
<1>6. ~Refused(e, cfg, hint, size)
  BY <1>1, <1>2, <1>3, <1>5 DEF Refused, KindContradicted
<1>7. AutoCompleteConfigHelper(e, cfg) = Completed(filled)
  <2>1. AutoCompleteConfigHelper(e, cfg) =
          IF Refused(e, cfg, hint, size) THEN NotCompleted(cfg) ELSE Completed(filled)
    BY HelperEquation DEF hint, size
  <2> QED
    BY <1>6, <2>1
<1>8. IsFiniteSet(cfg.groupProfiles)
  BY <1>1, FS_EmptySet
<1>9. ConfigTyped(filled)
  <2>1. AutoCompleteConfigHelper(e, cfg).config = filled
    BY <1>7 DEF Completed
  <2> QED
    BY <1>8, <2>1, CompletionTyped
<1>10. /\ filled.maxBatch = size /\ filled.inputs = GetRefIO(e, size, TRUE)
       /\ filled.outputs = GetRefIO(e, size, FALSE)
       /\ filled.controls = << >> /\ filled.states = << >> /\ filled.profiles = << >>
       /\ filled.batchInputs = << >> /\ filled.batchOutputs = << >>
  BY <1>1 DEF Filled, SizeOf, FixIO, SaysNothing, ConfigTyped
<1> HIDE DEF filled
<1>11. Loadable(e, filled)
  <2>1. Contexts(filled) = {1}
    BY <1>10 DEF Contexts
  <2> QED
    BY <1>1, <1>9, <2>1 DEF Loadable, ProfilesExist
<1>12. \A n \in InputNames(e) : ~IsShape(e, n) => e.profiles[1][n].min[1] <= filled.maxBatch
  <2> SUFFICES ASSUME NEW n \in InputNames(e), ~IsShape(e, n)
               PROVE  e.profiles[1][n].min[1] <= filled.maxBatch
    OBVIOUS
  <2>1. e.profiles[1][n].min[1] <= GetProfileMaxBatchSize(e, 1)
    BY LeastSupported
  <2>2. e.profiles[1][n].min[1] \in Nat
    <3>1. e.profiles[1][n].min \in Seq(Nat) /\ e.profiles[1][n].max # << >>
          /\ Len(e.profiles[1][n].min) = Len(e.profiles[1][n].max) /\ e.profiles[1][n].max \in Seq(Nat)
      BY <1>1 DEF EngineTyped, FirstDimensions
    <3>2. \A q \in Seq(Nat), r \in Seq(Nat) : r # << >> /\ Len(q) = Len(r) => q[1] \in Nat
      OBVIOUS
    <3> QED
      BY <3>1, <3>2
  <2> QED
    BY <1>3, <1>4, <1>10, <2>1, <2>2
<1>13. Written(e, filled)
  BY <1>10, <1>11, <1>12 DEF Written
<1> QED
  BY <1>7, <1>13 DEF Completed

-----------------------------------------------------------------------------
(***************************************************************************)
(* A model that is left to completion loads unless a call fails.           *)
(***************************************************************************)
\* Everything about the model is left to completion, and the engine it takes
\* the description from is that of all GPUs.
Wanted(m) ==
  /\ LeftToCompletion(m) /\ Describable(world.plan[m][FirstGPU[m]])
  /\ \A i \in Siblings(m) : PlanOf(i) = world.plan[m][FirstGPU[m]]

\* Neither the model nor one of its instances was given up.
Unharmed(m) ==
  \A i \in Siblings(m) :
    /\ at[i] \notin {"failed", "abandoned"}
    /\ phase[m] \in {"serving", "unloading", "gone"} => at[i] \in {"registered", "finalized"}

\* As long as no call failed no such model was given up.
LossInv ==
  /\ world.faults \in Nat /\ faultsLeft \in Nat /\ faultsLeft <= world.faults
  /\ faultsLeft = world.faults => \A m \in world.loaded : Wanted(m) => Unharmed(m)

LEMMA WantedCompletes ==
  ASSUME ConfigInv, NEW m \in world.loaded, Wanted(m)
  PROVE  CompletedConfig(m).ok /\ Written(world.plan[m][FirstGPU[m]], CompletedConfig(m).config)
<1> DEFINE e == world.plan[m][FirstGPU[m]]
           cfg == world.config[m]
<1>1. world \in Worlds /\ m \in Models /\ world.autoComplete[m]
  BY WorldsAssumption DEF ConfigInv, Wanted, LeftToCompletion
<1>2. FirstGPU[m] \in GPUs
  BY <1>1, PlaceTyped
<1>3. EngineTyped(e) /\ FirstDimensions(e) /\ ConfigTyped(cfg)
  BY <1>1, <1>2, WorldsAssumption
<1>4. Describable(e) /\ SaysNothing(cfg)
  BY DEF Wanted, LeftToCompletion, SaysNothing
<1>5. <<e, cfg>> \in UNION {{<<w.plan[k][FirstGPU[k]], w.config[k]>> : k \in w.loaded} : w \in Worlds}
  BY <1>1
<1>6. CompletedConfig(m) = Completions[<<e, cfg>>]
  BY DEF CompletedConfig
<1> HIDE DEF e, cfg
<1>7. Completions[<<e, cfg>>] = AutoCompleteConfigHelper(e, cfg)
  BY <1>5 DEF Completions
<1>8. AutoCompleteConfigHelper(e, cfg).ok /\ Written(e, AutoCompleteConfigHelper(e, cfg).config)
  BY <1>3, <1>4, CompletionWrites
<1> QED
  BY <1>6, <1>7, <1>8 DEF e

LEMMA WantedBinds ==
  ASSUME PhaseInv, ConfigInv, NEW i \in Instances, at[i] = "engine", Wanted(ModelOf[i])
  PROVE  Bound(i).ok
<1> DEFINE m == ModelOf[i]
           e == PlanOf(i)
           cfg == config[m]
<1>1. m \in Models /\ phase[m] = "creating"
  BY PlaceTyped DEF PhaseInv, Busy
<1>2. m \in world.loaded /\ cfg = LoadedConfig(world, m) /\ world \in Worlds
  BY <1>1 DEF ConfigInv
<1>3. Written(world.plan[m][FirstGPU[m]], CompletedConfig(m).config)
  BY <1>2, WantedCompletes
<1>4. world.autoComplete[m] /\ e = world.plan[m][FirstGPU[m]]
  BY DEF Wanted, LeftToCompletion, Siblings
<1>5. cfg = CompletedConfig(m).config
  BY <1>2, <1>4 DEF LoadedConfig, CompletedConfig
<1>6. <<e, cfg>> \in
        UNION {{<<w.plan[ModelOf[j]][PlaceOf[j].gpu], LoadedConfig(w, ModelOf[j])>> :
                  j \in {k \in Instances : ModelOf[k] \in w.loaded}} : w \in Worlds}
  BY <1>2 DEF PlanOf
<1>7. Bound(i) = Initializations[<<e, cfg>>]
  BY DEF Bound
<1>8. Written(e, cfg)
  BY <1>3, <1>4, <1>5
<1> HIDE DEF e, cfg
<1>9. Initializations[<<e, cfg>>] = Bindings(e, cfg)
  BY <1>6 DEF Initializations
<1> QED
  BY <1>7, <1>8, <1>9, WrittenLoads

\* A call that fails is counted.
LEMMA FaultsCounted ==
  ASSUME faultsLeft \in Nat, [Next]_vars
  PROVE  faultsLeft' = faultsLeft \/ (faultsLeft' \in Nat /\ faultsLeft' < faultsLeft)
<1>0. Fault => faultsLeft' \in Nat /\ faultsLeft' < faultsLeft
  BY DEF Fault
<1>1. ASSUME NEW m \in Models, PhaseStep(m) PROVE UNCHANGED faultsLeft \/ Fault
  BY <1>1 DEF PhaseStep, ModelInitialize, Serve, GiveUp, Unload
<1>2. ASSUME NEW t \in Threads, NEW m \in Models, CompletionStep(t, m) \/ FinalizeModel(t, m)
      PROVE  UNCHANGED faultsLeft \/ Fault
  BY <1>2 DEF CompletionStep, AutoCompleteConfig, ConfigCompleted, ConfigNotCompleted, FinalizeModel
<1>3. ASSUME NEW t \in Threads, NEW i \in Instances, InstanceStep(t, i)
      PROVE  UNCHANGED faultsLeft \/ Fault
  BY <1>3 DEF InstanceStep, InitStreamsAndEvents, InitBindings, InitBindingsFails, RegisterInstance,
              InitializeCudaGraphFails, FinalizeInstance
<1>4. ASSUME NEW t \in Threads, NEW i \in Instances, EngineStep(t, i)
      PROVE  UNCHANGED faultsLeft \/ Fault
  BY <1>4 DEF EngineStep, LockCreation, ShareEngine, CreateEngine, CreateEngineFails
<1>5. ASSUME NEW i \in Instances, AbandonInstance(i) PROVE UNCHANGED faultsLeft
  BY <1>5 DEF AbandonInstance
<1>6. UNCHANGED vars => UNCHANGED faultsLeft
  BY DEF vars
<1> QED
  BY <1>0, <1>1, <1>2, <1>3, <1>4, <1>5, <1>6, StepCases

\* A step that is not an error harms no such model.
LEMMA UnharmedStep ==
  ASSUME TypeOK, PhaseInv, ConfigInv, NEW m \in world.loaded, Wanted(m), Unharmed(m),
         faultsLeft \in Nat, faultsLeft' = faultsLeft, [Next]_vars
  PROVE  Unharmed(m)'
<1>0. /\ at \in [Instances -> Stages] /\ phase \in [Models -> Phases]
      /\ m \in Models /\ ~Fault
      /\ \A i \in Instances : ModelOf[i] \in Models
  BY WorldsAssumption, PlaceTyped DEF TypeOK, Stages, ConfigInv, Fault
<1>1. CASE UNCHANGED <<phase, at>>
  BY <1>1 DEF Unharmed, Siblings
<1>2. ASSUME NEW k \in Models, PhaseStep(k)
      PROVE  Unharmed(m)'
  <2>1. UNCHANGED at
    BY <1>2, ModelMoves DEF instanceVars
  <2>2. CASE k # m
    <3>1. phase'[m] = phase[m]
      BY <1>0, <1>2, <2>2 DEF PhaseStep, ModelInitialize, Serve, GiveUp, Unload
    <3> QED
      BY <2>1, <3>1 DEF Unharmed, Siblings
  <2>3. CASE k = m
    <3>1. \/ phase'[m] = "creating"
          \/ phase'[m] = "serving" /\ \A i \in Siblings(m) : at[i] = "registered"
          \/ \E i \in Siblings(m) : at[i] = "failed"
          \/ phase[m] = "serving"
      BY <1>0, <1>2, <2>3 DEF PhaseStep, ModelInitialize, Serve, GiveUp, Unload
    <3> QED
      BY <2>1, <3>1 DEF Unharmed, Siblings
  <2> QED
    BY <2>2, <2>3
<1>3. ASSUME NEW t \in Threads, NEW k \in Models, CompletionStep(t, k) \/ FinalizeModel(t, k)
      PROVE  Unharmed(m)'
  <2>1. UNCHANGED at
    BY <1>3, ModelMoves DEF instanceVars
  <2>2. CASE k # m
    <3>1. phase'[m] = phase[m]
      BY <1>0, <1>3, <2>2 DEF CompletionStep, AutoCompleteConfig, ConfigCompleted,
                              ConfigNotCompleted, FinalizeModel
    <3> QED
      BY <2>1, <3>1 DEF Unharmed, Siblings
  <2>3. CASE k = m
    <3>1. CompletedConfig(m).ok
      BY WantedCompletes
    <3>2. phase'[m] \in {"completing", "creating"} \/ phase[m] = "unloading"
      BY <1>0, <1>3, <2>3, <3>1 DEF CompletionStep, AutoCompleteConfig, ConfigCompleted,
                                   ConfigNotCompleted, FinalizeModel
    <3> QED
      BY <2>1, <3>2 DEF Unharmed, Siblings
  <2> QED
    BY <2>2, <2>3
<1>4. ASSUME NEW t \in Threads, NEW i \in Instances, InstanceStep(t, i) \/ EngineStep(t, i)
      PROVE  Unharmed(m)'
  <2>1. UNCHANGED phase
    BY <1>4, InstancePhase
  <2>2. CASE ModelOf[i] # m
    <3>1. \A k \in Instances : k # i => at'[k] = at[k]
      BY <1>0, <1>4, InstanceMoves, EngineMoves
    <3> QED
      BY <2>1, <2>2, <3>1 DEF Unharmed, Siblings
  <2>3. CASE ModelOf[i] = m
    <3>1. at[i] = "engine" => Bound(i).ok
      BY <2>3, WantedBinds
    <3>2. \/ at[i] = "registered" /\ at' = [at EXCEPT ![i] = "finalized"]
          \/ at[i] \notin {"registered", "finalized"} /\ phase[m] = "creating"
             /\ \E v \in Stages \ {"failed", "abandoned"} : at' = [at EXCEPT ![i] = v]
      <4>1. CASE EngineStep(t, i)
        <5>1. phase[m] = "creating"
          BY <2>3, <4>1, EngineMoves DEF PhaseInv, Busy
        <5>2. ~CreateEngineFails(t, i)
          BY <1>0 DEF CreateEngineFails
        <5> QED
          BY <4>1, <5>1, <5>2, EngineMoves DEF Stages, Busy
      <4>2. CASE InitStreamsAndEvents(t, i)
        BY <1>0, <2>3, <4>2 DEF InitStreamsAndEvents, Stages, Busy
      <4>3. CASE InitBindings(t, i)
        <5>1. at[i] = "engine" /\ at' = [at EXCEPT ![i] = "bound"]
          BY <4>3 DEF InitBindings
        <5> QED
          BY <2>3, <5>1 DEF PhaseInv, Stages, Busy
      <4>4. CASE InitBindingsFails(t, i)
        <5>1. FALSE
          BY <1>0, <3>1, <4>4 DEF InitBindingsFails
        <5> QED
          BY <5>1
      <4>5. CASE RegisterInstance(t, i)
        <5>1. at[i] = "bound" /\ at' = [at EXCEPT ![i] = "registered"]
          BY <4>5 DEF RegisterInstance
        <5> QED
          BY <2>3, <5>1 DEF PhaseInv, Stages, Busy
      <4>6. ~InitializeCudaGraphFails(t, i)
        BY <1>0 DEF InitializeCudaGraphFails
      <4>7. CASE FinalizeInstance(t, i)
        BY <4>7 DEF FinalizeInstance
      <4> QED
        BY <1>4, <4>1, <4>2, <4>3, <4>4, <4>5, <4>6, <4>7 DEF InstanceStep
    <3> QED
      BY <1>0, <2>1, <3>2 DEF Unharmed, Siblings
  <2> QED
    BY <2>2, <2>3
<1>5. ASSUME NEW i \in Instances, AbandonInstance(i)
      PROVE  Unharmed(m)'
  <2>1. UNCHANGED phase /\ at[i] = "failed" /\ at' = [at EXCEPT ![i] = "abandoned"]
    BY <1>5 DEF AbandonInstance, modelVars
  <2>2. i \notin Siblings(m)
    BY <2>1 DEF Unharmed
  <2>3. \A k \in Siblings(m) : k \in Instances /\ at'[k] = at[k]
    BY <1>0, <2>1, <2>2 DEF Siblings
  <2> QED
    BY <2>1, <2>3 DEF Unharmed, Siblings
<1>6. UNCHANGED vars => UNCHANGED <<phase, at>>
  BY DEF vars, modelVars, instanceVars
<1> QED
  BY <1>1, <1>2, <1>3, <1>4, <1>5, <1>6, StepCases

LEMMA LossInit == Init => LossInv
<1> SUFFICES ASSUME Init PROVE LossInv
  OBVIOUS
<1>1. world \in Worlds /\ world.faults \in Nat /\ faultsLeft = world.faults
  BY WorldsAssumption DEF Init
<1>2. \A m \in world.loaded : Unharmed(m)
  BY <1>1, WorldsAssumption DEF Init, Unharmed, Siblings
<1> QED
  BY <1>1, <1>2 DEF LossInv

LEMMA LossStep ==
  ASSUME TypeOK, PhaseInv, ConfigInv, LossInv, [Next]_vars
  PROVE  LossInv'
<1>1. /\ world' = world /\ world.faults \in Nat /\ faultsLeft \in Nat /\ faultsLeft <= world.faults
  BY WorldKept DEF LossInv
<1>2. faultsLeft' = faultsLeft \/ (faultsLeft' \in Nat /\ faultsLeft' < faultsLeft)
  BY <1>1, FaultsCounted
<1>3. ASSUME faultsLeft' = world'.faults, NEW m \in world'.loaded, Wanted(m)'
      PROVE  Unharmed(m)'
  <2>1. faultsLeft' = faultsLeft /\ faultsLeft = world.faults
    BY <1>1, <1>2, <1>3
  <2>2. m \in world.loaded /\ Wanted(m)
    BY <1>1, <1>3 DEF Wanted, LeftToCompletion, PlanOf, Siblings
  <2>3. Unharmed(m)
    BY <2>1, <2>2 DEF LossInv
  <2> QED
    BY <1>1, <2>1, <2>2, <2>3, UnharmedStep
<1> QED
  BY <1>1, <1>2, <1>3 DEF LossInv

\* "Assuming the first dimension to be batch dimension": a model whose
\* configuration says nothing of its tensors, with an engine for which this is so
\* on every GPU, loads unless a call fails: completion is not refused, and
\* ValidateIO and InitIOBindingBuffers accept what it wrote.
THEOREM CompletedLoads == Spec => []CompletedConfigLoads
<1>1. Init => ConfigInv /\ LossInv
  BY ConfigInit, LossInit
<1>2. IInv /\ (ConfigInv /\ LossInv) /\ [Next]_vars => (ConfigInv /\ LossInv)'
  BY ConfigStep, LossStep DEF IInv
<1>3. LossInv => CompletedConfigLoads
  <2> SUFFICES ASSUME LossInv, NEW m \in world.loaded, Wanted(m),
                      NEW i \in Siblings(m), at[i] = "failed" \/ (phase[m] = "gone" /\ at[i] = "absent")
               PROVE  faultsLeft < world.faults
    BY DEF CompletedConfigLoads, Wanted
  <2>1. ~Unharmed(m)
    BY DEF Unharmed
  <2> QED
    BY <2>1 DEF LossInv
<1> QED
  BY <1>1, <1>2, <1>3, LoadingInvariant, PTL DEF Spec

=============================================================================
