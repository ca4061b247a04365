------------------------------ MODULE MCLoading ------------------------------
(***************************************************************************)
(* Two kinds of worlds for ModelLoading.  In the concurrent ones a model   *)
(* of three instances on two GPUs, or two models of one instance on a GPU  *)
(* each, are loaded and unloaded by two threads, with small engines and    *)
(* one error.  In the others a model of one instance is loaded alone, with *)
(* an engine and a configuration that exercise the bindings and the        *)
(* completion.                                                             *)
(***************************************************************************)
EXTENDS ModelLoading

CONSTANTS m1, m2, m3, a1, a2, a3, b1, c1, t1, t2

MCModelOf == (a1 :> m1) @@ (a2 :> m1) @@ (a3 :> m1) @@ (b1 :> m2) @@ (c1 :> m3)
GPU(n) == [gpu |-> n, dla |-> -1]
MCPlaceOf == (a1 :> GPU(0)) @@ (a2 :> GPU(0)) @@ (a3 :> GPU(1)) @@ (b1 :> GPU(0)) @@ (c1 :> GPU(1))
MCFirstGPU == (m1 :> 1) @@ (m2 :> 0) @@ (m3 :> 1)

-----------------------------------------------------------------------------
\* Engines.
Linear == [linear |-> TRUE, dim |-> -1, components |-> 1]
Vectors(dim, n) == [linear |-> FALSE, dim |-> dim, components |-> n]

In(name, type, dims) ==
  [name |-> name, input |-> TRUE, shape |-> FALSE, host |-> FALSE, type |-> type,
   dims |-> dims, format |-> Linear, from |-> name]
Out(name, type, dims, from) == [In(name, type, dims) EXCEPT !.input = FALSE, !.from = from]
Shape(t) == [t EXCEPT !.shape = TRUE, !.host = TRUE]
Formatted(t, format) == [t EXCEPT !.format = format]

Bounds(min, max) == [min |-> min, max |-> max, low |-> << >>, high |-> << >>]
ShapeBounds(n, low, high) == [min |-> <<n>>, max |-> <<n>>, low |-> low, high |-> high]

\* x to y, of a fixed or of a dynamic shape.
StaticEngine ==
  [tensors |-> <<In("x", "FP32", <<1, 2>>), Out("y", "FP32", <<1, 2>>, "x")>>,
   profiles |-> <<"x" :> Bounds(<<1, 2>>, <<1, 2>>)>>]
DynamicEngine ==
  [tensors |-> <<In("x", "FP32", <<-1, 2>>), Out("y", "FP32", <<-1, 2>>, "x")>>,
   profiles |-> <<"x" :> Bounds(<<1, 2>>, <<2, 2>>)>>]

\* A second input that no batch size is a dimension of.
UnbatchedInput ==
  [tensors |-> <<In("x", "FP32", <<-1, 2>>), In("w", "FP32", <<3, 2>>), Out("y", "FP32", <<-1, 2>>, "x")>>,
   profiles |-> <<("x" :> Bounds(<<1, 2>>, <<2, 2>>)) @@ ("w" :> Bounds(<<3, 2>>, <<3, 2>>))>>]

\* Two profiles, neither of which is larger in all dimensions.
TwoProfiles ==
  [tensors |-> <<In("x", "FP32", <<-1, -1>>), Out("y", "FP32", <<-1, -1>>, "x")>>,
   profiles |-> <<"x" :> Bounds(<<1, 1>>, <<2, 4>>), "x" :> Bounds(<<1, 2>>, <<4, 3>>)>>]

\* A vectorized input and output.
VectorEngine ==
  [tensors |-> <<Formatted(In("x", "FP32", <<-1, -1>>), Vectors(2, 2)),
                 Formatted(Out("y", "FP32", <<-1, -1>>, "x"), Vectors(2, 2))>>,
   profiles |-> <<"x" :> Bounds(<<1, 1>>, <<2, 4>>)>>]

\* The values of v are the batch size and the second dimension of y, the shape
\* of z depends on the data.
ShapeEngine ==
  [tensors |-> <<In("x", "FP32", <<-1, 2>>), Shape(In("v", "INT64", <<2>>)),
                 Out("y", "FP32", <<-1, -1>>, "v"), Out("z", "FP32", <<-1, -1>>, "data"),
                 Shape(Out("w", "INT64", <<2>>, "v"))>>,
   profiles |-> <<("x" :> Bounds(<<1, 2>>, <<2, 2>>)) @@ ("v" :> ShapeBounds(2, <<1, 1>>, <<2, 3>>))>>]

\* Requests laid end to end, with where each of them ends, how many there are
\* and the shape of each.
RaggedEngine ==
  [tensors |-> <<In("x", "FP32", <<-1>>), In("ends", "FP32", <<-1>>), In("shapes", "FP32", <<-1, 1>>),
                 In("n", "FP32", <<-1, 2>>), Out("y", "FP32", <<-1>>, "x"), Out("q", "FP32", <<-1, 2>>, "n")>>,
   profiles |-> <<("x" :> Bounds(<<1>>, <<6>>)) @@ ("ends" :> Bounds(<<1>>, <<4>>))
                  @@ ("shapes" :> Bounds(<<1, 1>>, <<4, 1>>)) @@ ("n" :> Bounds(<<1, 2>>, <<4, 2>>))>>]

\* A sequence model: controls and a state.
SequenceEngine ==
  [tensors |-> <<In("x", "FP32", <<-1, 2>>), In("start", "FP32", <<-1, 1>>), In("id", "INT64", <<2, 1>>),
                 In("s", "FP32", <<-1, -1>>), Out("s'", "FP32", <<-1, -1>>, "s"), Out("y", "FP32", <<-1, 2>>, "x")>>,
   profiles |-> <<("x" :> Bounds(<<1, 2>>, <<2, 2>>)) @@ ("start" :> Bounds(<<1, 1>>, <<2, 1>>))
                  @@ ("id" :> Bounds(<<2, 1>>, <<2, 1>>)) @@ ("s" :> Bounds(<<1, 1>>, <<2, 3>>))>>]

-----------------------------------------------------------------------------
\* Configurations.
Empty ==
  [maxBatch |-> 0, profiles |-> << >>, groupProfiles |-> {}, scheduler |-> "none",
   separateOutput |-> FALSE, inputs |-> << >>, outputs |-> << >>, controls |-> << >>,
   states |-> << >>, batchInputs |-> << >>, batchOutputs |-> << >>]

IO(name, type, dims) ==
  [name |-> name, type |-> type, dims |-> dims, reshape |-> << >>, ragged |-> FALSE,
   shape |-> FALSE, nonLinear |-> FALSE]
ShapeIO(name, type, dims) == [IO(name, type, dims) EXCEPT !.shape = TRUE]
VectorIO(name, type, dims) == [IO(name, type, dims) EXCEPT !.nonLinear = TRUE]

Config(maxBatch, inputs, outputs) ==
  [Empty EXCEPT !.maxBatch = maxBatch, !.inputs = inputs, !.outputs = outputs]
Plain(maxBatch, dims) == Config(maxBatch, <<IO("x", "FP32", dims)>>, <<IO("y", "FP32", dims)>>)
InBothProfiles(cfg) ==
  [cfg EXCEPT !.profiles = <<1, 2>>, !.groupProfiles = {1, 2}, !.separateOutput = TRUE]

Vectorized(maxBatch, dims) ==
  Config(maxBatch, <<VectorIO("x", "FP32", dims)>>, <<VectorIO("y", "FP32", dims)>>)
Shaped ==
  Config(2, <<IO("x", "FP32", <<2>>), ShapeIO("v", "INT64", <<1>>)>>,
            <<IO("y", "FP32", <<-1>>), IO("z", "FP32", <<-1>>), ShapeIO("w", "INT64", <<1>>)>>)
Ragged ==
  [Config(2, <<[IO("x", "FP32", <<-1>>) EXCEPT !.ragged = TRUE], IO("n", "FP32", <<2>>)>>,
             <<IO("y", "FP32", <<-1>>), IO("q", "FP32", <<2>>)>>) EXCEPT
     !.batchInputs = <<[name |-> "ends", type |-> "FP32", source |-> "x",
                        kind |-> "BATCH_ACCUMULATED_ELEMENT_COUNT"],
                       [name |-> "shapes", type |-> "FP32", source |-> "x",
                        kind |-> "BATCH_ITEM_SHAPE"]>>,
     !.batchOutputs = <<[name |-> "y", kind |-> "BATCH_SCATTER_WITH_INPUT_SHAPE"]>>]
Sequence ==
  [Plain(2, <<2>>) EXCEPT
     !.scheduler = "sequence",
     !.controls = <<[name |-> "start", type |-> "FP32"], [name |-> "id", type |-> "INT64"]>>,
     !.states = <<[input |-> "s", output |-> "s'", type |-> "FP32", dims |-> <<-1>>]>>]
StateRequested ==
  [Sequence EXCEPT !.inputs = Append(@, IO("s", "FP32", <<3>>)),
                   !.outputs = Append(@, IO("s'", "FP32", <<3>>))]

-----------------------------------------------------------------------------
\* Worlds.
All(v) == [m \in {m1, m2, m3} |-> v]

\* plan0 and plan1 are the plans of every model for GPU 0 and GPU 1.
Concurrent(models, plan0, plan1, completed) ==
  [loaded |-> models, autoComplete |-> [m \in DOMAIN All(0) |-> m \in completed], graphs |-> All(TRUE),
   devices |-> {1}, faults |-> 1, plan |-> All((0 :> plan0) @@ (1 :> plan1)),
   config |-> [m \in DOMAIN All(0) |-> IF m \in completed THEN Empty ELSE Plain(1, <<2>>)]]

Alone(e, cfg, complete) ==
  [loaded |-> {m2}, autoComplete |-> All(complete), graphs |-> All(FALSE), devices |-> {0}, faults |-> 0,
   plan |-> All([gpu \in {0, 1} |-> e]), config |-> All(cfg)]

WithoutDims(cfg) == [cfg EXCEPT !.inputs = [k \in DOMAIN @ |-> [@[k] EXCEPT !.dims = << >>]]]

Fitting ==
  {<<StaticEngine, Plain(1, <<2>>)>>, <<StaticEngine, Plain(0, <<1, 2>>)>>, <<DynamicEngine, Plain(2, <<2>>)>>,
   <<TwoProfiles, InBothProfiles(Plain(3, <<-1>>))>>, <<TwoProfiles, InBothProfiles(Plain(3, <<3>>))>>,
   <<TwoProfiles, InBothProfiles(Plain(0, <<-1, 3>>))>>, <<TwoProfiles, Plain(2, <<4>>)>>, <<TwoProfiles, Plain(8, <<-1>>)>>,
   <<VectorEngine, Vectorized(2, <<-1>>)>>, <<VectorEngine, Vectorized(0, <<2, 3>>)>>,
   <<ShapeEngine, Shaped>>, <<RaggedEngine, Ragged>>, <<SequenceEngine, Sequence>>,
   <<SequenceEngine, StateRequested>>}

\* Refused: an unknown tensor, a wrong type, a wrong rank, a wrong kind, a missing
\* tensor, a profile that does not exist, sizes out of the profile.
Misfits ==
  {<<StaticEngine, Plain(2, <<2, 2>>)>>, <<StaticEngine, Config(1, <<IO("u", "FP32", <<2>>)>>, << >>)>>,
   <<StaticEngine, Config(1, <<IO("x", "INT32", <<2>>)>>, <<IO("y", "FP32", <<2>>)>>)>>,
   <<VectorEngine, Plain(2, <<-1>>)>>, <<ShapeEngine, Config(2, <<IO("x", "FP32", <<2>>)>>, << >>)>>,
   <<DynamicEngine, [Plain(2, <<2>>) EXCEPT !.profiles = <<3>>, !.groupProfiles = {3}]>>,
   <<TwoProfiles, Plain(2, <<5>>)>>, <<DynamicEngine, Vectorized(2, <<2>>)>>,
   <<RaggedEngine, [Ragged EXCEPT !.batchOutputs = << >>]>>}

Engines == {StaticEngine, DynamicEngine, TwoProfiles, VectorEngine, ShapeEngine, UnbatchedInput}

MCWorlds ==
  {Concurrent({m1}, StaticEngine, DynamicEngine, {}), Concurrent({m1}, DynamicEngine, StaticEngine, {}),
   Concurrent({m1}, StaticEngine, StaticEngine, {m1}), Concurrent({m1}, DynamicEngine, DynamicEngine, {m1}),
   Concurrent({m2, m3}, StaticEngine, StaticEngine, {m2}), Concurrent({m2, m3}, StaticEngine, DynamicEngine, {m3})}
  \cup {Alone(c[1], c[2], complete) : c \in Fitting \cup Misfits, complete \in BOOLEAN}
  \cup {Alone(c[1], WithoutDims(c[2]), TRUE) : c \in Fitting}
  \cup {Alone(e, Empty, TRUE) : e \in Engines}
=============================================================================
