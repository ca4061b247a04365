----------------------------- MODULE CudaGraphs -----------------------------
(***************************************************************************)
(* CUDA graphs of a model instance: how Create captures them, one per      *)
(* graph spec, execution context and event set (InitializeCudaGraph,       *)
(* BuildCudaGraph), and how Run looks up and launches the one closest to   *)
(* the shapes of a batch (FindClosestCudaGraph).                           *)
(*                                                                         *)
(* Create and Run are calls of one thread and nothing here depends on the  *)
(* device: the difficulty is that keys, bounds and buffer indices are      *)
(* computed in one place at capture time and in another at run time, and   *)
(* must agree.                                                             *)
(*                                                                         *)
(* An input with a shape that starts with the batch size is plain; see     *)
(* ProfileSelection, which also gives a batch its context.                 *)
(***************************************************************************)
EXTENDS ProfileSelection

CONSTANTS
  SeparateOutputStream,  \* separate_output_stream of the model configuration
  Configurations,        \* the graph specifications a model may be configured with
  Preferred,             \* preferred batch sizes of its scheduler, or NoScheduler
  Batches,               \* the batches to run
  MaxFailures            \* bound: captures that fail

\* A graph spec of the configuration; one without a lower bound is its own
\* lower bound.
GraphSpecs ==
  {spec \in [batch : Int, shapes : Seq(Int),
             lower_batch : Int, lower_shapes : Seq(Int), bounded : BOOLEAN] :
     ~spec.bounded =>
       spec.lower_batch = spec.batch /\ spec.lower_shapes = spec.shapes}

ASSUME GraphsAssumption ==
  /\ SeparateOutputStream \in BOOLEAN
  /\ Configurations \subseteq Seq(GraphSpecs)
  /\ Preferred \subseteq Int /\ IsFiniteSet(Preferred)
  /\ Batches \subseteq Sizes
  /\ MaxFailures \in Nat

\* No distance of a context that accepts a batch reaches the value that stands
\* for "does not accept": what a profile admits is bounded by the 32 bits of
\* its dimensions, the limit is the largest number of 64 bits.
ASSUME DistanceAssumption ==
  \A b \in Batches, c \in Contexts :
    BatchAccepted(c, b) => EvaluateTensorRTContext(c, b) < LLONG_MAX

EVENT_SET_COUNT == 3
NumCopyStreams == IF SeparateOutputStream THEN 2 ELSE 1
NoScheduler == {-1}
NoGraph == [key |-> << >>]

VARIABLES
  phase,                    \* where Create is: "specs", "build", "capture", "serve", "refused"
  graph_specs,              \* the specs still to be built; the first is being built
  allow_inexact_match_,
  context,                  \* the context the first spec is being built for
  cuda_graph_execs_,        \* graphs captured, per context and event set
  capture,                  \* locals of BuildCudaGraph
  next_set_,
  next_buffer_binding_set_,
  failures,                 \* captures that failed, to bound them
  launch                    \* what the last Run executed, with which sets
vars == <<phase, graph_specs, allow_inexact_match_, context, cuda_graph_execs_,
          capture, next_set_, next_buffer_binding_set_, failures, launch>>

-----------------------------------------------------------------------------
(***************************************************************************)
(* Graph specifications: the batch size, the shapes of inputs (empty in a  *)
(* default spec) and their lower bounds.                                   *)
(***************************************************************************)
DefaultSpec(batch_size) ==
  [batch |-> batch_size, shapes |-> << >>,
   lower_batch |-> batch_size, lower_shapes |-> << >>, bounded |-> FALSE]

\* Batch sizes graphs are built for when the configuration names none: std::set
\* iterates in ascending order.
DefaultBatchSizes ==
  LET first == {IF MaxBatchSize = 0 THEN 0 ELSE 1}
      sizes == IF Preferred = NoScheduler
               THEN {1, 2, 3, 4, 6, 8, 12, 16} \cup first
               ELSE first \cup Preferred
  IN  {b \in sizes \cup {MaxBatchSize} : b <= MaxBatchSize}

\* The i-th of them has i - 1 smaller ones.
DefaultSpecs ==
  [i \in 1 .. Cardinality(DefaultBatchSizes) |->
     DefaultSpec(CHOOSE b \in DefaultBatchSizes :
                   Cardinality({a \in DefaultBatchSizes : a < b}) = i - 1)]

ValidBatchSize(b) ==
  IF MaxBatchSize = 0 THEN b = 0 ELSE b \in 1 .. MaxBatchSize

ValidateGraphSpec(spec) ==
  /\ ValidBatchSize(spec.batch) /\ ValidBatchSize(spec.lower_batch)
  /\ spec.lower_batch <= spec.batch
  /\ \A i \in DOMAIN spec.shapes :
       /\ i \in DOMAIN spec.lower_shapes
       /\ spec.lower_shapes[i] \in 0 .. spec.shapes[i]

-----------------------------------------------------------------------------
(***************************************************************************)
(* Keys.  A key is the batch size followed by the shapes of all inputs.    *)
(***************************************************************************)
\* A spec without shapes takes the optimal shapes of the profile, and puts the
\* batch size in the first dimension of every input, ragged ones included.
GraphShape(spec, c, i) ==
  IF spec.shapes # << >> THEN ShapeOf([batch |-> spec.batch, own |-> spec.shapes], i)
  ELSE IF spec.batch = 0 THEN ShapeOf(Profiles[c].opt, i)
  ELSE [ShapeOf(Profiles[c].opt, i) EXCEPT ![1] = spec.batch]

\* Mutant of LowerShape: the batch size is left out, as for ragged inputs.
LowerShapeWithoutBatch(spec, c, i) ==
  IF spec.shapes = << >> THEN GraphShape(spec, c, i) ELSE <<spec.lower_shapes[i]>>

\* The lower bound of a plain input starts with a batch size even when the
\* model does not batch.
LowerBatch(spec) == IF spec.lower_batch = 0 THEN 1 ELSE spec.lower_batch
LowerShape(spec, c, i) ==
  IF spec.shapes = << >> THEN GraphShape(spec, c, i)
  ELSE IF Inputs[i] = "plain" THEN <<LowerBatch(spec), spec.lower_shapes[i]>>
  ELSE <<spec.lower_shapes[i]>>

Key(batch, shapes) == <<batch>> \o FlattenSeq(shapes)

\* SetCudaGraphShape: the graph a spec asks for, and when it is an error
\* (setInputShape accepts what the profile admits).
ShapesAccepted(spec, c) ==
  \A i \in InputIndices :
    /\ spec.shapes # << >> => i \in DOMAIN spec.shapes
    /\ InProfile(c, i, GraphShape(spec, c, i))

SetCudaGraphShape(spec, c) ==
  LET dims == [i \in InputIndices |-> GraphShape(spec, c, i)]
  IN  [key |-> Key(spec.batch, dims), input_dims |-> dims,
       lower_bound_key |->
         Key(LowerBatch(spec), [i \in InputIndices |-> LowerShape(spec, c, i)])]

-----------------------------------------------------------------------------
(***************************************************************************)
(* Lookup.  The graphs of an event set are a std::map: keys are ordered    *)
(* lexicographically, and a second graph of the same key is not inserted.  *)
(***************************************************************************)
KeyBefore(k, l) ==
  \E i \in DOMAIN k : k[i] < l[i] /\ \A j \in 1 .. i - 1 : k[j] = l[j]

Insert(graphs, g) ==
  IF \E h \in graphs : h.key = g.key THEN graphs ELSE graphs \cup {g}

\* Mutant of FirstGraph: the map is searched from its end.
LastGraph(graphs) ==
  IF graphs = {} THEN NoGraph
  ELSE CHOOSE g \in graphs : \A h \in graphs \ {g} : KeyBefore(h.key, g.key)

\* The first graph of a set in the order of the map.
FirstGraph(graphs) ==
  IF graphs = {} THEN NoGraph
  ELSE CHOOSE g \in graphs : \A h \in graphs \ {g} : KeyBefore(g.key, h.key)

\* Mutant of Stands: the order of the map is taken for the order of all entries.
StandsByOrder(g, key) ==
  \A i \in DOMAIN key : key[i] >= g.lower_bound_key[i]

\* A graph stands for a batch when each entry of its key is at least that of
\* the batch, and each entry of its lower bound at most.
Stands(g, key) ==
  \A i \in DOMAIN key : key[i] <= g.key[i] /\ key[i] >= g.lower_bound_key[i]

\* Mutant of FindClosestCudaGraph: the graph at the lower bound is the only one
\* looked at.
LowerBoundOnly(c, s, key) ==
  LET first == FirstGraph({g \in cuda_graph_execs_[c][s] : ~KeyBefore(g.key, key)})
  IN  IF first.key = key \/ (first # NoGraph /\ allow_inexact_match_ /\ Stands(first, key))
      THEN first ELSE NoGraph

\* The search starts at the first key not before the one asked for.
FindClosestCudaGraph(c, s, key) ==
  LET from  == {g \in cuda_graph_execs_[c][s] : ~KeyBefore(g.key, key)}
      first == FirstGraph(from)
  IN  IF first.key = key THEN first
      ELSE IF allow_inexact_match_ THEN FirstGraph({g \in from : Stands(g, key)})
      ELSE NoGraph

-----------------------------------------------------------------------------
NoCapture == [set |-> 0, captured |-> FALSE, saved_set |-> 0, saved_buffers |-> 0]
NoBatch == [batch |-> 0, own |-> << >>]
NoLaunch == [graph |-> NoGraph, context |-> 0, batch |-> NoBatch, set |-> 0, buffers |-> 0]

Init ==
  /\ phase = "specs"
  /\ graph_specs \in Configurations
  /\ allow_inexact_match_ = FALSE
  /\ context = 1
  /\ cuda_graph_execs_ = [c \in Contexts |-> [s \in 0 .. EVENT_SET_COUNT - 1 |-> {}]]
  /\ capture = NoCapture
  /\ next_set_ = 0 /\ next_buffer_binding_set_ = 0
  /\ failures = 0 /\ launch = NoLaunch

\* InitializeGraphSpecs: the specs of the configuration or the default ones;
\* an invalid one fails the creation of the instance.
InitializeGraphSpecs ==
  LET specs == IF graph_specs = << >> THEN DefaultSpecs ELSE graph_specs
  IN  /\ phase = "specs"
      /\ graph_specs' = specs
      /\ allow_inexact_match_' = \E i \in DOMAIN specs : specs[i].bounded
      /\ phase' = IF \A i \in DOMAIN specs : ValidateGraphSpec(specs[i])
                  THEN "build" ELSE "refused"
      /\ UNCHANGED <<context, cuda_graph_execs_, capture, next_set_,
                     next_buffer_binding_set_, failures, launch>>

\* The loop of InitializeCudaGraph: every context of a spec, then the next spec.
NextGraph ==
  IF context < Len(Profiles)
  THEN context' = context + 1 /\ phase' = "build" /\ UNCHANGED graph_specs
  ELSE /\ context' = 1
       /\ graph_specs' = Tail(graph_specs)
       /\ phase' = IF Len(graph_specs) > 1 THEN "build" ELSE "serve"

\* BuildCudaGraph cannot set the shapes of the spec: no graph.
ShapesRefused ==
  /\ phase = "build" /\ ~ShapesAccepted(Head(graph_specs), context)
  /\ NextGraph
  /\ UNCHANGED <<allow_inexact_match_, cuda_graph_execs_, capture, next_set_,
                 next_buffer_binding_set_, failures, launch>>

\* The executions that precede the capture, one per set of buffers, fail at set
\* s: BuildCudaGraph returns without restoring the index of the buffers.
WarmUpFails ==
  /\ phase = "build" /\ ShapesAccepted(Head(graph_specs), context)
  /\ failures < MaxFailures /\ failures' = failures + 1
  /\ next_buffer_binding_set_' \in 0 .. NumCopyStreams - 1
  /\ NextGraph
  /\ UNCHANGED <<allow_inexact_match_, cuda_graph_execs_, capture, next_set_, launch>>

WarmUp ==
  /\ phase = "build" /\ ShapesAccepted(Head(graph_specs), context)
  /\ phase' = "capture"
  /\ capture' = [set |-> 0, captured |-> TRUE,
                 saved_set |-> next_set_, saved_buffers |-> next_buffer_binding_set_]
  /\ next_buffer_binding_set_' = NumCopyStreams - 1
  /\ UNCHANGED <<graph_specs, allow_inexact_match_, context, cuda_graph_execs_,
                 next_set_, failures, launch>>

CapturedGraph(set) ==
  LET shape == SetCudaGraphShape(Head(graph_specs), context)
  IN  [key |-> shape.key, input_dims |-> shape.input_dims,
       lower_bound_key |-> shape.lower_bound_key,
       buffers |-> set % NumCopyStreams, spec |-> Head(graph_specs)]

\* One event set is captured, or not: once a capture failed, "captured" stays
\* FALSE and the graphs of later event sets are dropped.  A graph can also be
\* kept and "captured" become FALSE (cudaGraphDestroy fails).
CaptureSet ==
  /\ phase = "capture" /\ capture.set < EVENT_SET_COUNT
  /\ \E instantiated, clean \in BOOLEAN :
       /\ failures' = failures + (IF instantiated /\ clean THEN 0 ELSE 1)
       /\ failures' <= MaxFailures
       /\ capture' = [capture EXCEPT !.set = @ + 1, !.captured = @ /\ instantiated /\ clean]
       /\ cuda_graph_execs_' =
            IF capture.captured /\ instantiated
            THEN [cuda_graph_execs_ EXCEPT ![context][capture.set] =
                    Insert(@, CapturedGraph(capture.set))]
            ELSE cuda_graph_execs_
  /\ next_set_' = capture.set
  /\ next_buffer_binding_set_' = capture.set % NumCopyStreams
  /\ UNCHANGED <<phase, graph_specs, allow_inexact_match_, context, launch>>

FinishCapture ==
  /\ phase = "capture" /\ capture.set = EVENT_SET_COUNT
  /\ next_set_' = capture.saved_set
  /\ next_buffer_binding_set_' = capture.saved_buffers
  /\ capture' = NoCapture
  /\ NextGraph
  /\ UNCHANGED <<allow_inexact_match_, cuda_graph_execs_, failures, launch>>

-----------------------------------------------------------------------------
(***************************************************************************)
(* Run.                                                                    *)
(***************************************************************************)
BatchKey(b) == Key(b.batch, [i \in InputIndices |-> ShapeOf(b, i)])

\* The context selected does not accept the batch, which is failed before it is
\* given to the device.
RunRefused(b) ==
  LET c == GetMostOptimizedProfile(b)
  IN  /\ phase = "serve" /\ ~BatchAccepted(c, b)
      /\ launch' = [NoLaunch EXCEPT !.context = c, !.batch = b]
      /\ UNCHANGED <<phase, graph_specs, allow_inexact_match_, context,
                     cuda_graph_execs_, capture, next_set_,
                     next_buffer_binding_set_, failures>>

\* A batch is executed with the graph found, or enqueued when there is none.
\* A run that fails leaves the indices of both sets alone.
Run(b) ==
  LET c == GetMostOptimizedProfile(b)
  IN  /\ phase = "serve" /\ BatchAccepted(c, b)
      /\ launch' = [graph |-> FindClosestCudaGraph(c, next_set_, BatchKey(b)),
                    context |-> c, batch |-> b, set |-> next_set_,
                    buffers |-> next_buffer_binding_set_]
      /\ \/ /\ next_set_' = (next_set_ + 1) % EVENT_SET_COUNT
            /\ next_buffer_binding_set_' = (next_buffer_binding_set_ + 1) % NumCopyStreams
         \/ UNCHANGED <<next_set_, next_buffer_binding_set_>>
      /\ UNCHANGED <<phase, graph_specs, allow_inexact_match_, context,
                     cuda_graph_execs_, capture, failures>>

Next ==
  \/ InitializeGraphSpecs \/ ShapesRefused \/ WarmUpFails \/ WarmUp
  \/ CaptureSet \/ FinishCapture
  \/ \E b \in Batches : RunRefused(b) \/ Run(b)

Spec == Init /\ [][Next]_vars

-----------------------------------------------------------------------------
(***************************************************************************)
(* Properties.                                                             *)
(***************************************************************************)
\* Types of all variables; indices of event and buffer sets are in range, keys
\* and lower bounds of a batching model have the same length.
TypeOK ==
  /\ phase \in {"specs", "build", "capture", "serve", "refused"}
  /\ allow_inexact_match_ \in BOOLEAN
  /\ context \in Contexts
  /\ capture.set \in 0 .. EVENT_SET_COUNT
  /\ next_set_ \in 0 .. EVENT_SET_COUNT - 1
  /\ next_buffer_binding_set_ \in 0 .. NumCopyStreams - 1
  /\ \A c \in Contexts, s \in 0 .. EVENT_SET_COUNT - 1 :
       \A g \in cuda_graph_execs_[c][s] :
         /\ g.buffers \in 0 .. NumCopyStreams - 1
         /\ MaxBatchSize > 0 => Len(g.lower_bound_key) = Len(g.key)

\* A batch is within the bounds a spec states.
InBounds(b, spec, c) ==
  /\ MaxBatchSize > 0 => b.batch \in spec.lower_batch .. spec.batch
  /\ \A i \in InputIndices :
       IF spec.shapes # << >> THEN b.own[i] \in spec.lower_shapes[i] .. spec.shapes[i]
       ELSE ShapeOf(b, i) = GraphShape(spec, c, i)

\* A graph is launched for every batch within the bounds of a spec captured for
\* the event set: the key Run packs while it sets the input shapes and the keys
\* SetCudaGraphShape packed agree, and the search misses no graph.
SpecServesItsRange ==
  phase = "serve" =>
    \A c \in Contexts, s \in 0 .. EVENT_SET_COUNT - 1, b \in Batches :
      \A g \in cuda_graph_execs_[c][s] :
        BatchAccepted(c, b) /\ InBounds(b, g.spec, c) =>
          FindClosestCudaGraph(c, s, BatchKey(b)) # NoGraph

\* A launched graph executes shapes that hold the whole batch, in every
\* dimension of every input.
GraphHoldsBatch ==
  launch.graph # NoGraph =>
    \A i \in InputIndices : \A d \in DOMAIN ShapeOf(launch.batch, i) :
      launch.graph.input_dims[i][d] >= ShapeOf(launch.batch, i)[d]

\* No graph of a smaller batch size stands for the batch that is launched, and
\* a graph captured with its very shapes is preferred to any other.
ClosestGraphLaunched ==
  launch.graph # NoGraph =>
    \A g \in cuda_graph_execs_[launch.context][launch.set] :
      /\ Stands(g, BatchKey(launch.batch)) => g.spec.batch >= launch.graph.spec.batch
      /\ g.key = BatchKey(launch.batch) => launch.graph = g

\* A batch that some profile admits is never refused: the profile selected
\* accepts it.
AdmittedBatchRuns ==
  launch.batch # NoBatch /\ ~BatchAccepted(launch.context, launch.batch) =>
    \A c \in Contexts : ~BatchAccepted(c, launch.batch)

\* No other profile that admits the batch is closer to it than the one selected.
ClosestProfileSelected ==
  launch.batch # NoBatch =>
    \A c \in Contexts :
      BatchAccepted(c, launch.batch) =>
        ManhattanDistance(launch.context, launch.batch) <= ManhattanDistance(c, launch.batch)

\* A launched graph reads and writes the buffers Run filled and will answer
\* from.
GraphUsesBuffersOfRun ==
  launch.graph # NoGraph => launch.graph.buffers = launch.buffers

=============================================================================
