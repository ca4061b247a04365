-------------------------- MODULE ProfileSelection --------------------------
(***************************************************************************)
(* Which optimization profile, hence which execution context, a batch is   *)
(* run with (GetMostOptimizedProfile, EvaluateTensorRTContext), and what a *)
(* context accepts when the shapes of inputs are set                       *)
(* (SetBindingDimensions).                                                 *)
(*                                                                         *)
(* An input is "plain" (its shape starts with the batch size when the      *)
(* model batches) or "ragged" (its shape is what the requests of the batch *)
(* add up to); shape tensors and batch inputs are left out.  Each has one  *)
(* dimension of its own.  A batch, and each bound of a profile, is a batch *)
(* size with the own dimensions of the inputs; the batch size of a model   *)
(* that does not batch is that of one request, 1.                          *)
(***************************************************************************)
EXTENDS Integers, Sequences, SequencesExt

CONSTANTS
  MaxBatchSize,   \* max_batch_size of the model, 0 when it does not batch
  Inputs,         \* kind of each input, a sequence of "plain" and "ragged"
  Profiles        \* min, opt and max bounds of each context, in the order of the map

InputIndices == 1 .. Len(Inputs)
Contexts == 1 .. Len(Profiles)

\* What a batch adds up to, and a bound of a profile.
Sizes == [batch : Nat, own : [InputIndices -> Nat]]

ASSUME ProfilesAssumption ==
  /\ MaxBatchSize \in Nat
  /\ Inputs \in Seq({"plain", "ragged"})
  /\ Profiles \in Seq([min : Sizes, opt : Sizes, max : Sizes]) /\ Profiles # << >>

ShapeOf(b, i) ==
  IF Inputs[i] = "plain" /\ MaxBatchSize > 0 THEN <<b.batch, b.own[i]>> ELSE <<b.own[i]>>

\* ValidateDimension: as many dimensions as the profile has, each in its range.
InProfile(c, i, shape) ==
  LET low  == ShapeOf(Profiles[c].min, i)
      high == ShapeOf(Profiles[c].max, i)
  IN  /\ Len(shape) = Len(high)
      /\ \A d \in DOMAIN shape : shape[d] \in low[d] .. high[d]

BatchAccepted(c, b) == \A i \in InputIndices : InProfile(c, i, ShapeOf(b, i))

-----------------------------------------------------------------------------
Apart(a, b) == IF a < b THEN b - a ELSE a - b
Sum(f) == FoldFunction(+, 0, f)

\* The contribution of an input: a ragged one has a single dimension; for the
\* others the first optimal dimension is compared with the batch size and every
\* other one with the dimension of the batch before it.
InputDistance(c, b, i) ==
  LET opt == ShapeOf(Profiles[c].opt, i)
  IN  IF Inputs[i] = "ragged" THEN Apart(opt[1], b.own[i])
      ELSE Sum([d \in DOMAIN opt |->
                  Apart(opt[d], IF d = 1 THEN b.batch ELSE ShapeOf(b, i)[d - 1])])

\* Larger than every distance.
LLONG_MAX == 1000000

\* Mutant of EvaluateTensorRTContext: a context the batch does not fit is
\* measured like the others.
EvaluateWithoutLimits(c, b) == Sum([i \in InputIndices |-> InputDistance(c, b, i)])

EvaluateTensorRTContext(c, b) ==
  IF BatchAccepted(c, b)
  THEN Sum([i \in InputIndices |-> InputDistance(c, b, i)])
  ELSE LLONG_MAX

\* The first context of the shortest distance; the first of all when none
\* accepts the batch.
GetMostOptimizedProfile(b) ==
  LET distance == [c \in Contexts |-> EvaluateTensorRTContext(c, b)]
  IN  CHOOSE c \in Contexts :
        \A d \in Contexts : distance[c] < distance[d] \/ (distance[c] = distance[d] /\ c <= d)

\* The distance the comment of GetMostOptimizedProfile speaks of: every input
\* dimension of the batch from the optimal one of the profile.
ManhattanDistance(c, b) ==
  Sum([i \in InputIndices |->
         Sum([d \in DOMAIN ShapeOf(b, i) |->
                Apart(ShapeOf(Profiles[c].opt, i)[d], ShapeOf(b, i)[d])])])

=============================================================================
