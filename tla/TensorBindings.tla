--------------------------- MODULE TensorBindings ---------------------------
(***************************************************************************)
(* The buffers of a model instance: which tensors of the engine the model  *)
(* configuration describes, which descriptions are refused (ValidateIO and *)
(* the checks of the Initialize...Binding functions), and how large a      *)
(* buffer each tensor gets in each set (InitIOBindingBuffers).             *)
(*                                                                         *)
(* Everything here is done by one thread and depends on two things only,   *)
(* the engine and the configuration, so it is given as operators on        *)
(*                                                                         *)
(*   e    the engine: its tensors, in the order of their indices, and the  *)
(*        bounds of its profiles;                                          *)
(*   cfg  the configuration: maxBatch, the profiles of the instance,       *)
(*        inputs, outputs and the tensors of the schedulers.               *)
(*                                                                         *)
(* Sizes are counted in elements.  A dimension is -1 when it is not fixed. *)
(* Zero copy changes where a buffer lies and not its size, and is left     *)
(* out, as is a tensor without dimensions in a model that does not batch.  *)
(***************************************************************************)
EXTENDS Integers, Sequences, SequencesExt

WILDCARD_DIM == -1

Volume(dims) == FoldLeft(LAMBDA n, d : n * d, 1, dims)
ContainsWildcard(dims) == \E d \in DOMAIN dims : dims[d] = WILDCARD_DIM

Batching(cfg) == cfg.maxBatch > 0
Names(e) == {e.tensors[k].name : k \in DOMAIN e.tensors}
Tensor(e, name) == e.tensors[CHOOSE k \in DOMAIN e.tensors : e.tensors[k].name = name]
IsInput(e, name) == name \in Names(e) /\ Tensor(e, name).input
IsShape(e, name) == name \in Names(e) /\ Tensor(e, name).shape
InputNames(e) == {n \in Names(e) : IsInput(e, n)}

\* The profiles contexts are made for; the first one when none is named.
Contexts(cfg) == IF cfg.profiles = << >> THEN {1} ELSE ToSet(cfg.profiles)
BufferSets(cfg) == IF cfg.separateOutput THEN {0, 1} ELSE {0}

\* The dims a description stands for: those of its reshape, when it has one.
ConfigDims(io) == IF io.reshape # << >> THEN io.reshape[1] ELSE io.dims

-----------------------------------------------------------------------------
(***************************************************************************)
(* What is taken for granted.  Of an engine, what TensorRT guarantees: its *)
(* tensors have different names, the bounds of a profile are sizes and as  *)
(* many as its inputs have dimensions, those of the values of a shape      *)
(* tensor are as many as it has elements.  Of a configuration, what        *)
(* Triton's own checks leave.                                              *)
(***************************************************************************)
EngineTyped(e) ==
  /\ e.tensors \in Seq(ToSet(e.tensors))
  /\ \A k, l \in DOMAIN e.tensors : e.tensors[k].name = e.tensors[l].name => k = l
  /\ \A k \in DOMAIN e.tensors :
       /\ e.tensors[k].dims \in Seq(Int)
       /\ e.tensors[k].input \in BOOLEAN /\ e.tensors[k].shape \in BOOLEAN
       /\ e.tensors[k].format.linear \/ e.tensors[k].format.components \in Nat \ {0}
  /\ \A c \in DOMAIN e.profiles : \A n \in InputNames(e) :
       /\ e.profiles[c][n].min \in Seq(Nat) /\ e.profiles[c][n].max \in Seq(Nat)
       /\ Len(e.profiles[c][n].min) = Len(e.profiles[c][n].max)
       /\ IsShape(e, n) =>
            /\ e.profiles[c][n].low \in Seq(Int) /\ e.profiles[c][n].high \in Seq(Int)
            /\ Len(e.profiles[c][n].low) = Len(e.profiles[c][n].high)
            /\ Len(e.profiles[c][n].high) = Volume(e.profiles[c][n].max)

BatchInputKinds ==
  {"BATCH_ELEMENT_COUNT", "BATCH_ACCUMULATED_ELEMENT_COUNT",
   "BATCH_ACCUMULATED_ELEMENT_COUNT_WITH_ZERO", "BATCH_MAX_ELEMENT_COUNT_AS_SHAPE",
   "BATCH_ITEM_SHAPE", "BATCH_ITEM_SHAPE_FLATTEN"}

DescriptionsTyped(ios) ==
  /\ ios \in Seq(ToSet(ios))
  /\ \A k \in DOMAIN ios :
       /\ {"name", "type", "dims", "reshape", "ragged", "shape", "nonLinear"} \subseteq DOMAIN ios[k]
       /\ ios[k].dims \in Seq(Int) /\ ios[k].reshape \in Seq(Seq(Int))
       /\ ios[k].ragged \in BOOLEAN /\ ios[k].shape \in BOOLEAN

ConfigTyped(cfg) ==
  /\ {"maxBatch", "scheduler", "profiles", "groupProfiles", "inputs", "outputs", "controls",
      "batchInputs", "batchOutputs", "states"} \subseteq DOMAIN cfg
  /\ cfg.maxBatch \in Nat /\ cfg.profiles \in Seq(Nat)
  /\ DescriptionsTyped(cfg.inputs) /\ DescriptionsTyped(cfg.outputs)
  /\ cfg.controls \in Seq(ToSet(cfg.controls))
  /\ cfg.batchInputs \in Seq(ToSet(cfg.batchInputs))
  /\ \A k \in DOMAIN cfg.batchInputs : cfg.batchInputs[k].kind \in BatchInputKinds
  /\ cfg.batchOutputs \in Seq(ToSet(cfg.batchOutputs))
  /\ cfg.states \in Seq(ToSet(cfg.states))
  /\ \A k \in DOMAIN cfg.states : cfg.states[k].dims \in Seq(Int)

-----------------------------------------------------------------------------
(***************************************************************************)
(* Checks of dimensions.                                                   *)
(***************************************************************************)
CompareDimsSupported(batching, modelDims, dims) ==
  LET full == IF batching THEN <<WILDCARD_DIM>> \o dims ELSE dims
  IN  /\ Len(modelDims) = Len(full)
      /\ \A d \in DOMAIN full :
           modelDims[d] = WILDCARD_DIM \/ full[d] = WILDCARD_DIM \/ modelDims[d] = full[d]

\* A shape tensor has at most one dimension: how many values it has.  The
\* batch size is its first value and not one of the configured ones.
CompareShapeDimsSupported(batching, modelDims, dims) ==
  /\ Len(dims) = Len(modelDims)
  /\ Len(modelDims) <= 1
  /\ modelDims # << >> =>
       /\ dims[1] # WILDCARD_DIM
       /\ dims[1] + (IF batching THEN 1 ELSE 0) = modelDims[1]

ValidateControlDimsDynamic(batching, modelDims) ==
  /\ modelDims[1] = IF batching THEN WILDCARD_DIM ELSE 1
  /\ \A d \in DOMAIN modelDims : d > 1 => modelDims[d] = 1

\* A wildcard is in every range.
ValidateDimension(dims, min, max) ==
  /\ Len(dims) = Len(max)
  /\ \A d \in DOMAIN dims : dims[d] = WILDCARD_DIM \/ dims[d] \in min[d] .. max[d]

\* A vectorized format rounds its dimension up to whole vectors, and adds one
\* vector when it is a whole number of them already.
SetFormat(tensor) == tensor.format.linear \/ tensor.format.dim # -1
Padded(format, dims) ==
  IF format.linear THEN dims
  ELSE [dims EXCEPT ![format.dim] = @ + (format.components - (@ % format.components))]

-----------------------------------------------------------------------------
(***************************************************************************)
(* ValidateIO: the configuration names tensors of the engine, of types     *)
(* TensorRT has, and says truly which are shape tensors and which have a   *)
(* format that is not linear.                                              *)
(***************************************************************************)
TrtTypes == {"FP32", "INT32", "INT64"}

ValidateIOHelper(e, ios) ==
  \A k \in DOMAIN ios :
    /\ ios[k].type \in TrtTypes
    /\ ios[k].shape = Tensor(e, ios[k].name).shape
    /\ ios[k].nonLinear = ~Tensor(e, ios[k].name).format.linear

AllowedIO(e, cfg) ==
  /\ \A k \in DOMAIN cfg.inputs : IsInput(e, cfg.inputs[k].name)
  /\ \A k \in DOMAIN cfg.outputs : cfg.outputs[k].name \in Names(e) \ InputNames(e)

ValidateIO(e, cfg) ==
  /\ Len(cfg.inputs) <= Cardinality(InputNames(e))
  /\ AllowedIO(e, cfg)
  /\ ValidateIOHelper(e, cfg.inputs)
  /\ ValidateIOHelper(e, cfg.outputs)

-----------------------------------------------------------------------------
(***************************************************************************)
(* What the initialization has done so far (st):                           *)
(*   ok     no error was returned yet;                                     *)
(*   info   IOBindingInfo of each tensor in each buffer set;               *)
(*   max    max_dims_ of each context, the profile's until the             *)
(*          configuration prunes it;                                       *)
(*   given  the inputs whose shape, and whose largest values, were given   *)
(*          to the context;                                                *)
(*   nb     nb_shape_values_ of each context, one for all shape tensors.   *)
(***************************************************************************)
NoInfo == [allocated |-> FALSE, dynamic |-> FALSE, size |-> 0, ragged |-> FALSE,
           batchInput |-> FALSE, requested |-> FALSE, state |-> FALSE]

Start(e, cfg) ==
  [ok    |-> TRUE,
   info  |-> [s \in BufferSets(cfg) |-> [n \in Names(e) |-> NoInfo]],
   max   |-> [c \in Contexts(cfg) |-> [n \in InputNames(e) |-> e.profiles[c][n].max]],
   given |-> [c \in Contexts(cfg) |-> {}],
   nb    |-> [c \in Contexts(cfg) |-> 0]]

Refuse(st) == [st EXCEPT !.ok = FALSE]

\* Mutant of Allocate: the buffer is as large as the first context needs.
AllocateForOne(st, s, name, sizes, ragged) ==
  [st EXCEPT !.info[s][name].allocated = TRUE,
             !.info[s][name].size = sizes[Min(DOMAIN sizes)],
             !.info[s][name].ragged = ragged]

\* A buffer of the size the hungriest context needs.
Allocate(st, s, name, sizes, ragged) ==
  [st EXCEPT !.info[s][name].allocated = TRUE,
             !.info[s][name].size = Max({sizes[c] : c \in DOMAIN sizes}),
             !.info[s][name].ragged = ragged]

-----------------------------------------------------------------------------
(***************************************************************************)
(* Inputs.  An input description says where it comes from: "config",       *)
(* "control", "batch" or "state".                                          *)
(***************************************************************************)
\* Mutant of FullConfigDims: max_batch_size bounds batch inputs as well.
FullDimsAllBounded(cfg, io) ==
  IF io.ragged THEN <<WILDCARD_DIM>>
  ELSE IF Batching(cfg) THEN <<cfg.maxBatch>> \o ConfigDims(io) ELSE ConfigDims(io)

\* The shape an input has in a whole batch, as far as it is configured.
FullConfigDims(cfg, io) ==
  IF io.ragged THEN <<WILDCARD_DIM>>
  ELSE IF ~Batching(cfg) THEN ConfigDims(io)
  ELSE <<IF io.role = "batch" THEN WILDCARD_DIM ELSE cfg.maxBatch>> \o ConfigDims(io)

\* The largest shape: that of the profile, reduced by what the configuration
\* fixes; max_batch_size bounds the first dimension and does not fix it.
MaximumDims(cfg, max, full) ==
  [d \in DOMAIN max |->
     IF full[d] = WILDCARD_DIM THEN max[d]
     ELSE IF d = 1 /\ Batching(cfg) THEN Min({max[d], full[d]})
     ELSE full[d]]

\* The dimensions are in the profile, and setInputShape takes their maximum.
ConfigureInputDimensions(cfg, min, max, full) ==
  LET checked == IF Batching(cfg) THEN [full EXCEPT ![1] = WILDCARD_DIM] ELSE full
  IN  /\ ValidateDimension(checked, min, max)
      /\ \A d \in DOMAIN max : MaximumDims(cfg, max, full)[d] >= min[d]

\* The engine has the shape the description asks for.
InputDimsSupported(e, cfg, io) ==
  LET dims == Tensor(e, io.name).dims
  IN  IF io.role = "control" /\ ContainsWildcard(dims)
      THEN ValidateControlDimsDynamic(Batching(cfg), dims)
      ELSE IF io.ragged THEN Len(dims) = 1 /\ ConfigDims(io) # << >> /\ dims[1] = ConfigDims(io)[1]
      ELSE CompareDimsSupported(Batching(cfg), dims, ConfigDims(io))

ExecuteInputAccepted(e, cfg, st, s, io) ==
  /\ IsInput(e, io.name)
  /\ ~st.info[s][io.name].allocated
  /\ Tensor(e, io.name).type = io.type
  /\ SetFormat(Tensor(e, io.name))
  /\ io.ragged => Tensor(e, io.name).format.linear
  /\ InputDimsSupported(e, cfg, io)
  /\ \A c \in Contexts(cfg) :
       ConfigureInputDimensions(cfg, e.profiles[c][io.name].min, st.max[c][io.name],
                                FullConfigDims(cfg, io))

\* Left to InitializeShapeInputBinding, or done already: a state that is a
\* configured input as well.
ExecuteInputSkipped(e, st, s, io) ==
  /\ io.name \in Names(e)
  /\ IsShape(e, io.name) \/ (io.role = "state" /\ st.info[s][io.name].allocated)

InitializeExecuteInputBinding(e, cfg, st, s, io) ==
  LET max == [c \in Contexts(cfg) |->
                MaximumDims(cfg, st.max[c][io.name], FullConfigDims(cfg, io))]
      bound == [st EXCEPT
        !.max = [c \in Contexts(cfg) |-> [@[c] EXCEPT ![io.name] = max[c]]],
        !.given = [c \in Contexts(cfg) |-> @[c] \cup {io.name}],
        !.info[s][io.name].batchInput = (io.role = "batch")]
  IN  IF ExecuteInputSkipped(e, st, s, io) THEN st
      ELSE IF ~ExecuteInputAccepted(e, cfg, st, s, io) THEN Refuse(st)
      ELSE Allocate(bound, s, io.name,
                    [c \in Contexts(cfg) |-> Volume(Padded(Tensor(e, io.name).format, max[c]))],
                    io.ragged)

ShapeInputAccepted(e, cfg, io) ==
  /\ io.type \in {"INT32", "INT64"}
  /\ Tensor(e, io.name).type = io.type
  /\ SetFormat(Tensor(e, io.name))
  /\ CompareShapeDimsSupported(Batching(cfg), Tensor(e, io.name).dims, ConfigDims(io))

\* Tried with every configured input.  The context gets the largest values, so
\* that it gives the largest shapes of outputs; a shape tensor that TensorRT
\* wants on the device gets no buffer.  A tensor without dimensions has one value.
InitializeShapeInputBinding(e, cfg, st, s, io) ==
  LET values == [c \in Contexts(cfg) |-> Volume(st.max[c][io.name])]
      seen == [st EXCEPT !.given = [c \in Contexts(cfg) |-> @[c] \cup {io.name}], !.nb = values]
  IN  IF ~IsInput(e, io.name) \/ st.info[s][io.name].allocated THEN Refuse(st)
      ELSE IF ~IsShape(e, io.name) THEN st
      ELSE IF ~ShapeInputAccepted(e, cfg, io) THEN Refuse(st)
      ELSE IF Tensor(e, io.name).host THEN Allocate(seen, s, io.name, values, FALSE)
      ELSE seen

\* The dims of a batch input, a tensor the backend fills: how many dimensions its
\* source has, for the kinds that are about item shapes.
BatchInputDims(cfg, input) ==
  LET sources == {k \in DOMAIN cfg.inputs : cfg.inputs[k].name = input.source}
      rank == IF sources = {} THEN 0 ELSE Len(ConfigDims(cfg.inputs[Min(sources)]))
      item == IF rank = 0 THEN << >> ELSE <<rank>>
  IN  IF Batching(cfg) THEN IF input.kind = "BATCH_ITEM_SHAPE" THEN item ELSE << >>
      ELSE CASE input.kind \in {"BATCH_ELEMENT_COUNT", "BATCH_ACCUMULATED_ELEMENT_COUNT"} -> <<1>>
             [] input.kind = "BATCH_ACCUMULATED_ELEMENT_COUNT_WITH_ZERO" -> <<2>>
             [] input.kind = "BATCH_MAX_ELEMENT_COUNT_AS_SHAPE" -> <<WILDCARD_DIM>>
             [] input.kind = "BATCH_ITEM_SHAPE" -> <<1>> \o item
             [] input.kind = "BATCH_ITEM_SHAPE_FLATTEN" -> item

-----------------------------------------------------------------------------
(***************************************************************************)
(* Outputs.  What TensorRT infers of the shape of an output, once the      *)
(* shapes of inputs are given, is modelled by three kinds of output: of    *)
(* the shape of an input, of the shape that the values of a shape tensor   *)
(* are, and of a shape that depends on data.                               *)
(***************************************************************************)
OutputShape(e, st, c, name) ==
  LET from == Tensor(e, name).from
  IN  IF IsShape(e, name) THEN Tensor(e, name).dims
      ELSE IF from \notin st.given[c] THEN <<WILDCARD_DIM>>
      ELSE IF IsShape(e, from) THEN e.profiles[c][from].high
      ELSE st.max[c][from]

\* What a shape takes in whole vectors of a format.
InVectors(format, dims) ==
  IF format.linear THEN dims
  ELSE [dims EXCEPT ![format.dim] =
          format.components * ((@ + format.components - 1) \div format.components)]

\* getMaxOutputSize: the largest size of an output.
GetFullByteSize(e, st, c, name) ==
  Volume(InVectors(Tensor(e, name).format, OutputShape(e, st, c, name)))

UnresolvedOutput(e, cfg, st, name) ==
  \E c \in Contexts(cfg) : ContainsWildcard(OutputShape(e, st, c, name))

\* An output TensorRT allocates through an OutputAllocator, or one of the size
\* the largest inputs give.
BindOutput(e, cfg, st, s, name, dynamic) ==
  IF dynamic
  THEN [st EXCEPT !.info[s][name].allocated = TRUE, !.info[s][name].dynamic = TRUE]
  ELSE Allocate(st, s, name,
                [c \in Contexts(cfg) |-> GetFullByteSize(e, st, c, name)],
                st.info[s][name].ragged)

ExecuteOutputAccepted(e, cfg, st, s, io) ==
  LET tensor == Tensor(e, io.name)
      info   == st.info[s][io.name]
  IN  /\ ~tensor.input
      /\ ~info.allocated
      /\ tensor.type = io.type
      /\ SetFormat(tensor)
      /\ IF info.ragged THEN tensor.format.linear
         ELSE CompareDimsSupported(Batching(cfg), tensor.dims, ConfigDims(io))

\* Tried with every configured output that is not a shape tensor, and with states.
InitializeExecuteOutputBinding(e, cfg, st, s, io) ==
  LET named == IF io.role = "state" THEN [st EXCEPT !.info[s][io.name].state = TRUE]
               ELSE [st EXCEPT !.info[s][io.name].requested = TRUE]
  IN  IF io.shape THEN st
      ELSE IF io.name \notin Names(e) THEN Refuse(st)
      ELSE IF io.role = "state" /\ st.info[s][io.name].allocated THEN named
      ELSE IF ~ExecuteOutputAccepted(e, cfg, st, s, io) THEN Refuse(st)
      ELSE BindOutput(e, cfg, named, s, io.name, UnresolvedOutput(e, cfg, st, io.name))

\* Tried with every configured output, it skips those that are no shape tensors;
\* ValidateIO has checked that the others are shape tensors of the engine.
InitializeShapeOutputBinding(e, cfg, st, s, io) ==
  LET accepted ==
        /\ ~IsInput(e, io.name)
        /\ ~st.info[s][io.name].allocated
        /\ io.type = "INT64" /\ Tensor(e, io.name).type = "INT64"
        /\ SetFormat(Tensor(e, io.name))
        /\ CompareShapeDimsSupported(Batching(cfg), Tensor(e, io.name).dims, ConfigDims(io))
  IN  IF ~io.shape THEN st
      ELSE IF ~accepted THEN Refuse(st)
      ELSE BindOutput(e, cfg, st, s, io.name, ContainsWildcard(Tensor(e, io.name).dims))

\* A batch output is scattered to requests by the shapes of its source; the
\* target is an output of the engine.
InitializeBatchOutputBinding(e, st, s, io) ==
  IF IsShape(e, io.name) \/ io.kind # "BATCH_SCATTER_WITH_INPUT_SHAPE" THEN Refuse(st)
  ELSE [st EXCEPT !.info[s][io.name].ragged = TRUE]

-----------------------------------------------------------------------------
(***************************************************************************)
(* InitIOBindingBuffers: for each buffer set, the inputs, and when all are *)
(* done the outputs of each.  States come last.                            *)
(***************************************************************************)
Description(name, type, dims, role) ==
  [name |-> name, type |-> type, dims |-> dims, reshape |-> << >>, ragged |-> FALSE,
   shape |-> FALSE, role |-> role]

Steps(kind, s, ios) == [k \in DOMAIN ios |-> [kind |-> kind, set |-> s, io |-> ios[k]]]
Configured(ios) ==
  [k \in DOMAIN ios |->
     [name |-> ios[k].name, type |-> ios[k].type, dims |-> ios[k].dims,
      reshape |-> ios[k].reshape, ragged |-> ios[k].ragged, shape |-> ios[k].shape,
      role |-> "config"]]

InputSteps(cfg, s) ==
  LET controls == [k \in DOMAIN cfg.controls |->
                     Description(cfg.controls[k].name, cfg.controls[k].type, <<1>>, "control")]
      batches  == [k \in DOMAIN cfg.batchInputs |->
                     Description(cfg.batchInputs[k].name, cfg.batchInputs[k].type,
                                 BatchInputDims(cfg, cfg.batchInputs[k]), "batch")]
      states   == [k \in DOMAIN cfg.states |->
                     Description(cfg.states[k].input, cfg.states[k].type, cfg.states[k].dims, "state")]
  IN  Steps("shape input", s, Configured(cfg.inputs))
      \o Steps("input", s, Configured(cfg.inputs))
      \o Steps("input", s, controls)
      \o Steps("input", s, batches)
      \o Steps("input", s, states)

OutputSteps(cfg, s) ==
  LET state == [k \in DOMAIN cfg.states |->
                  Description(cfg.states[k].output, cfg.states[k].type, cfg.states[k].dims, "state")]
  IN  Steps("batch output", s, cfg.batchOutputs)
      \o Steps("shape output", s, Configured(cfg.outputs))
      \o Steps("output", s, Configured(cfg.outputs))
      \o Steps("output", s, state)

Initialize(e, cfg, st, step) ==
  CASE step.kind = "shape input"  -> InitializeShapeInputBinding(e, cfg, st, step.set, step.io)
    [] step.kind = "input"        -> InitializeExecuteInputBinding(e, cfg, st, step.set, step.io)
    [] step.kind = "batch output" -> InitializeBatchOutputBinding(e, st, step.set, step.io)
    [] step.kind = "shape output" -> InitializeShapeOutputBinding(e, cfg, st, step.set, step.io)
    [] step.kind = "output"       -> InitializeExecuteOutputBinding(e, cfg, st, step.set, step.io)

\* Every tensor of the engine must have got a buffer.
AllAllocated(st) == \A s \in DOMAIN st.info : \A n \in DOMAIN st.info[s] : st.info[s][n].allocated

InitializationSteps(cfg) ==
  LET sets == IF cfg.separateOutput THEN <<0, 1>> ELSE <<0>>
  IN  FlattenSeq([k \in DOMAIN sets |-> InputSteps(cfg, sets[k])])
      \o FlattenSeq([k \in DOMAIN sets |-> OutputSteps(cfg, sets[k])])

\* The first refusal ends the initialization.
InitIOBindingBuffers(e, cfg) ==
  LET unlessRefused(st, step) == IF st.ok THEN Initialize(e, cfg, st, step) ELSE st
      done == FoldLeft(unlessRefused, Start(e, cfg), InitializationSteps(cfg))
  IN  [done EXCEPT !.ok = @ /\ AllAllocated(done)]

\* InitOptimizationProfiles: the profiles named are profiles of the engine.
ProfilesExist(e, cfg) == Contexts(cfg) \subseteq DOMAIN e.profiles

\* The three steps by which Create gets at the buffers of an instance.
Bindings(e, cfg) ==
  IF ProfilesExist(e, cfg) /\ ValidateIO(e, cfg) THEN InitIOBindingBuffers(e, cfg)
  ELSE [ok |-> FALSE]

-----------------------------------------------------------------------------
(***************************************************************************)
(* A run.  A context admits the shape of an input of a batch within the    *)
(* bounds that InitIOBindingBuffers left it (SetBindingDimensions), and    *)
(* the values of a shape tensor if there are nb of them, each within the   *)
(* bounds of the profile (ValidateShapeValues).  What a run then copies    *)
(* into the buffer of the input is CopiedElements.  That Run also compares *)
(* this size with that of the first request's data, for a vectorized       *)
(* input, is left out: what it refuses is not copied.                      *)
(***************************************************************************)
SetBindingDimensions(e, st, c, name, shape) ==
  LET min == e.profiles[c][name].min
      max == st.max[c][name]
  IN  Len(shape) = Len(max) /\ \A d \in DOMAIN shape : shape[d] \in min[d] .. max[d]

CheckShapeTensorInRange(e, c, name, values) ==
  \A v \in DOMAIN values :
    values[v] \in e.profiles[c][name].low[v] .. e.profiles[c][name].high[v]

ValidateShapeValues(e, st, c, name, values) ==
  Len(values) = st.nb[c] /\ CheckShapeTensorInRange(e, c, name, values)

CopiedElements(e, name, shape) == Volume(Padded(Tensor(e, name).format, shape))
=============================================================================
