-------------------------- MODULE ConfigCompletion --------------------------
(***************************************************************************)
(* What AutoCompleteConfigHelper makes of a model configuration, given the *)
(* engine it loads for the purpose: the maximum batch size, the scheduler, *)
(* and the inputs and outputs as far as the user left them out.            *)
(*                                                                         *)
(* A configuration is that of TensorBindings with                          *)
(*   groupProfiles   the profiles of all instance groups, and              *)
(*   scheduler       "none", "dynamic" or "sequence";                      *)
(* in it a type of "" and dims of << >> are ones the user did not give.    *)
(* Every input of the engine has a dimension (FirstDimensions).            *)
(***************************************************************************)
EXTENDS TensorBindings

\* A configuration, or an error.
Completed(cfg) == [ok |-> TRUE, config |-> cfg]
NotCompleted(cfg) == [ok |-> FALSE, config |-> cfg]

-----------------------------------------------------------------------------
(***************************************************************************)
(* Does the user want batches?  A description with a dimension less than   *)
(* its tensor says so, and a ragged one does and ends the search.          *)
(***************************************************************************)
\* Mutant of ShouldBatch: a shape tensor hints as the others do.
ShouldBatchByRank(tensor, dims) == Len(tensor.dims) = Len(dims) + 1

\* A shape tensor of a batch has the batch size as its first value.
ShouldBatch(tensor, dims) ==
  IF tensor.shape THEN tensor.dims[1] = dims[1] + 1
  ELSE Len(tensor.dims) = Len(dims) + 1

NoHint == [ok |-> TRUE, ragged |-> FALSE, batch |-> FALSE, shaped |-> 0]

\* One description; a hint against batches is an error after one for them.
ExtractBatchHint(e, hint, io, allowed) ==
  LET dims   == ConfigDims(io)
      batch  == ShouldBatch(Tensor(e, io.name), dims)
      shaped == [hint EXCEPT !.batch = @ \/ batch, !.shaped = @ + 1, !.ok = batch \/ ~hint.batch]
  IN  IF ~hint.ok \/ hint.ragged THEN hint
      ELSE IF io.ragged THEN [hint EXCEPT !.ragged = TRUE, !.batch = TRUE]
      ELSE IF io.name \notin allowed THEN [hint EXCEPT !.ok = FALSE]
      ELSE IF dims = << >> THEN hint
      ELSE shaped

ConfigBatchHint(e, cfg) ==
  LET ofInput(hint, io)  == ExtractBatchHint(e, hint, io, InputNames(e))
      ofOutput(hint, io) == ExtractBatchHint(e, hint, io, Names(e) \ InputNames(e))
  IN  FoldLeft(ofOutput, FoldLeft(ofInput, NoHint, cfg.inputs), cfg.outputs)

-----------------------------------------------------------------------------
(***************************************************************************)
(* The batches the engine takes: the first dimension of each input is      *)
(* taken for the batch size.                                               *)
(***************************************************************************)
ProfileIndices(cfg) == IF cfg.groupProfiles = {} THEN {1} ELSE cfg.groupProfiles

\* Of an engine whose batches completion takes the size of.
FirstDimensions(e) ==
  \A c \in DOMAIN e.profiles : \A n \in InputNames(e) :
    IF IsShape(e, n) THEN e.profiles[c][n].high # << >> ELSE e.profiles[c][n].max # << >>

INT_MAX == 2147483647

\* The first maximum value of a shape tensor, the first maximum dimension of
\* every other input.
GetProfileMaxBatchSize(e, c) ==
  Min({INT_MAX} \cup
      {IF IsShape(e, n) THEN e.profiles[c][n].high[1] ELSE e.profiles[c][n].max[1] :
          n \in InputNames(e)})

GetMaxSupportedBatchSize(e, cfg) ==
  Max({0} \cup {GetProfileMaxBatchSize(e, c) : c \in ProfileIndices(cfg)})

-----------------------------------------------------------------------------
(***************************************************************************)
(* Inputs and outputs.                                                     *)
(***************************************************************************)
\* Mutant of InitIODims: the first dimension stays, though it is the batch size.
InitIODimsUnbatched(maxBatch, tensor) == [dims |-> tensor.dims, reshape |-> << >>]

\* Without the batch size; dims must not be empty, so that a tensor without
\* dimensions of its own is a reshape of one.
InitIODims(maxBatch, tensor) ==
  LET batching == maxBatch # 0
      own      == IF batching /\ tensor.dims # << >> THEN Tail(tensor.dims) ELSE tensor.dims
      values   == IF batching THEN [d \in DOMAIN tensor.dims |-> tensor.dims[d] - 1] ELSE tensor.dims
  IN  CASE tensor.shape               -> [dims |-> values, reshape |-> << >>]
        [] ~tensor.shape /\ own = << >> -> [dims |-> <<1>>, reshape |-> << << >> >>]
        [] OTHER                      -> [dims |-> own, reshape |-> << >>]

\* The description of a tensor as the engine has it.
RefIO(maxBatch, tensor) ==
  LET dims == InitIODims(maxBatch, tensor)
  IN  [name |-> tensor.name, type |-> tensor.type, dims |-> dims.dims, reshape |-> dims.reshape,
       ragged |-> FALSE, shape |-> tensor.shape, nonLinear |-> ~tensor.format.linear]

GetRefIO(e, maxBatch, input) ==
  LET refOf(ios, tensor) ==
        IF tensor.input = input THEN Append(ios, RefIO(maxBatch, tensor)) ELSE ios
  IN  FoldLeft(refOf, << >>, e.tensors)

\* What the user left out; the kind of the tensor is always that of the engine.
FixDescription(io, ref) ==
  [io EXCEPT !.type = IF @ = "" THEN ref.type ELSE @,
             !.dims = IF @ = << >> THEN ref.dims ELSE @,
             !.reshape = IF io.dims = << >> /\ ref.reshape # << >> THEN ref.reshape ELSE @,
             !.shape = ref.shape,
             !.nonLinear = ref.nonLinear]

\* A description of a tensor the engine lacks is left as it is, and so is one
\* that is missing, unless all are.
FixIO(refs, ios) ==
  LET refOf(io) == {k \in DOMAIN refs : refs[k].name = io.name}
  IN  IF ios = << >> THEN refs
      ELSE [k \in DOMAIN ios |->
              IF refOf(ios[k]) = {} THEN ios[k]
              ELSE FixDescription(ios[k], refs[Min(refOf(ios[k]))])]

\* FixIO returns an error: the engine's tensor is not of the special kind the
\* user says it is.
KindContradicted(refs, ios) ==
  \E k \in DOMAIN ios, r \in DOMAIN refs :
    /\ ios[k].name = refs[r].name
    /\ (ios[k].shape /\ ~refs[r].shape) \/ (ios[k].nonLinear /\ ~refs[r].nonLinear)

-----------------------------------------------------------------------------
\* Dimensions that the user gave without a batch size turn batches off.
BatchesWanted(e, cfg) ==
  LET hint == ConfigBatchHint(e, cfg)
  IN  IF hint.shaped # 0 /\ ~hint.batch THEN 0 ELSE GetMaxSupportedBatchSize(e, cfg)

AutoCompleteConfigHelper(e, cfg) ==
  LET hint     == ConfigBatchHint(e, cfg)
      maxBatch == BatchesWanted(e, cfg)
      size     == IF cfg.maxBatch = 0 THEN maxBatch ELSE cfg.maxBatch
      inputs   == GetRefIO(e, size, TRUE)
      outputs  == GetRefIO(e, size, FALSE)
      refused  == \/ ~hint.ok
                  \/ ~(ProfileIndices(cfg) \subseteq DOMAIN e.profiles)
                  \/ hint.batch /\ maxBatch = 0
                  \/ cfg.maxBatch > maxBatch
                  \/ KindContradicted(inputs, cfg.inputs)
                  \/ KindContradicted(outputs, cfg.outputs)
  IN  IF refused THEN NotCompleted(cfg)
      ELSE Completed([cfg EXCEPT
             !.maxBatch  = size,
             !.scheduler = IF maxBatch > 1 /\ @ = "none" THEN "dynamic" ELSE @,
             !.inputs    = FixIO(inputs, @),
             !.outputs   = FixIO(outputs, @)])
=============================================================================
