# TensorRT backend: TLA+ models, checks and proofs

This directory is a verification project for the Triton TensorRT backend whose
source is beside it. It models the asynchronous execution of requests on a
model instance, the arbitration between instances, the choice of the
optimization profile and the CUDA graph of a batch, and the loading of models:
the completion of their configuration, the sharing of engines, the creation of
instances with their buffers, and what is left when any of it fails. It proves
and model-checks what makes them correct.

## The system

Triton loads the backend as a shared library and calls its C API
(`tensorrt.cc`). Each model has a `ModelState`, each instance of it a
`ModelInstanceState`. The parts, their state, and how they interact:

| part | state | operations | hard because |
|---|---|---|---|
| Issue side of an instance (`ProcessRequests`, `Run`) | `next_set_`, `next_buffer_binding_set_`, `payload_`, `barrier_` | one call per batch: validate, create responses, copy inputs, enqueue, copy outputs, hand over | every call in it can fail, after work was given to the device; it runs ahead of the completion side |
| Completion side (`ProcessResponse`) | the payload in hand | wait for events, give the slot back, update states, send responses, release requests | reads events the issue side may record again; leaves its loop on an error |
| `Semaphore` | `count_` | `Release`, `Acquire` | lost or spare units block or over-commit an instance |
| Event and buffer sets, CUDA streams | three event sets, one or two buffer sets | record, wait, synchronize | reused cyclically with different periods |
| Execution arbitrators (`model_state.cc`) | instances per device, `idx_` | `RegisterInstance`, `ExecutionState` | registration runs beside execution; the slot of another instance is waited for |
| Backend and model API (`tensorrt.cc`) | states attached to Triton's objects | initialize, finalize, execute | order of creation and destruction |
| Engines (`ModelState::CreateEngine`, `loader.cc`) | runtime and engine per device and DLA core, `engine_sharing_` | create or share, auto-complete | parallel creation, sharing decided when the first engines exist, errors half way that undo nothing |
| Optimization profiles | contexts with min, max and opt shapes and shape values | choose the profile of a batch, set binding dimensions | distances over several tensors, indices that may not line up |
| CUDA graphs | graphs per context, event set and input shapes | validate specs, capture, find the closest one, launch | keys and indices are computed at capture and again at run time |
| I/O bindings (`io_binding_info.cc`, `InitIOBindingBuffers`) | buffers, formats, batch inputs and outputs | allocate, describe | one size for all profiles, each pruned by the configuration; many kinds of tensors, the batch size in or out of their dimensions |
| Shape tensors (`shape_tensor.cc`) and checks (`tensorrt_utils.cc`) | values of one tensor | convert, compare, validate | integer widths, missing values |
| Output allocator | one buffer per dynamic output | grow | called from inside the engine |
| Logging, file system, shared library | none of interest | wrappers | pure I/O |

`Execute` asks the arbitrator for an instance and for the semaphore to wait
for; `ProcessRequests` of that instance runs on the calling thread and puts a
payload on `completion_queue_`; the completion thread of the instance takes
it, waits for events recorded by the issue side, and releases the semaphore
that a later `Execute` acquires. The destructor frees buffers, streams and
events, then puts a null payload on the queue and joins the thread.

## Modules

* `InstancePipeline` is one instance at work: the issue thread, the completion
  thread, the semaphore, the three event sets, the buffer sets, the barrier of
  implicit state, the destructor, and the device behind the streams. A run is
  one call of `ProcessRequests`. `issue` and `completion` say where the two
  threads are; each action is what a thread does between two points at which
  another thread or the device can matter. All three ways to answer a request
  are there: `RequestsRespondWithError`, `RESPOND_AND_SET_NULL_IF_ERROR` for
  one request, and `FAIL_ALL_AND_RETURN_IF_ERROR`. Calls of Triton, CUDA and
  TensorRT may fail wherever the code looks at their result. A CUDA event is
  the last run that recorded it, streams are FIFO. `ShapeInputs` and
  `ShapeOutputs` say whether the engine has shape tensors, which `Run` copies
  itself: `WriteShapeInputs` is its `memcpy` of their values, which waits for
  nothing, and `CopyShapeOutputs` its copies on `stream_`, behind which no event is
  recorded. The rest is copied by the collector, which waits for
  `prev_input_ready_event` first (`CopyInputs`), and by the responder, which
  records `output_ready_` if it had something to copy (`CopyOutputs`).
* `OrderedExecution` is what an instance promises Triton: runs are accepted
  one at a time, each fails at once or becomes pending, pending ones finish in
  order, and each finishes once. `InstancePipeline` instantiates it as
  `Promise`, with `Issuing`, `Pending` and `Released` as the mapping.
* `ExecutionArbitrator` is `Execute` with the two arbitrators, the semaphores
  of several instances and Triton's backend threads. It shows what
  `InstancePipeline` takes for granted: calls of `Execute` do not meet in an
  instance and enter it with a unit of its own semaphore.
* `CudaGraphs` is what Create does with the graph specs of a model
  (`InitializeGraphSpecs`, `ValidateGraphSpec`, `BuildCudaGraph` for every
  context and event set, with each failure it meets) and the part of `Run` that
  packs a key from the batch, looks up a graph and launches it. Keys are
  sequences of numbers as in the code; an input is "plain" or "ragged", with
  one dimension of its own. It is sequential: Create and Run are one thread's.
* `ProfileSelection` has the pure functions that measure a batch against the
  profiles and choose the context. `CudaGraphs` extends it: a batch that is run
  is first given its context, refused if the context does not accept its
  shapes, and looks up the graphs of that context.
* `TensorBindings` has what one instance makes of an engine and a configuration
  when it is created: `ValidateIO` and `InitIOBindingBuffers` with all its
  Initialize functions, in their order, over each set of buffers and all
  contexts, down to the size of each buffer and the pruned bounds of each
  profile; and what a run later admits and copies. It is one thread's work and
  depends on nothing else, so it is a fold of operators over the configured
  tensors. Sizes are counted in elements. What TensorRT infers of the shape of
  an output is one of three: the shape of an input, the values of a shape
  tensor, or a shape that depends on data.
* `ConfigCompletion` extends it by `AutoCompleteConfigHelper`: the hints for and
  against batches, the maximum batch size of the profiles, the scheduler, and
  `FixIO`. A configuration is a record with the members the code reads.
* `ModelLoading` is the concurrent part: Triton's threads load and unload models
  and create their instances in any order, call by call. `phase` is how far a
  model is, `at` how far an instance, `task` what a thread is inside of,
  `device` its CUDA device. Each action is what a thread does up to a point where
  another thread or an error matters; the global lock of `CreateEngine` is
  taken and given back in steps of their own. Engines and runtimes are named
  after the instance that made them, so that `engine`, `deviceEngine` and
  `deviceRuntime` are the shared pointers of the code. An instance whose `Create`
  fails is "abandoned": nothing deletes it. What completion and bindings
  make of the plans and configurations there are is tabulated once
  (`Completions`, `Initializations`), as they depend on those alone.
* `MCPipeline`, `MCArbitrator`, `MCCudaGraphs` and `MCLoading` give the small
  instances.
* `InstancePipelineProofs` holds the theorems about `InstancePipeline`, its second
  half those about what meets between the two threads and in the buffers;
  `ArbitratorProofs` those about
  `ExecutionArbitrator`; `CudaGraphProofs` those about `ProfileSelection` and
  `CudaGraphs`; `LoadingProofs` those about `ModelLoading` alone. `BindingProofs` joins
  it with `TensorBindings` and `ConfigCompletion`, `ConfigurationProofs` goes on
  to what a configuration means, and `CompletedLoadProofs` to what completion makes
  load. `RecursionFacts` has what several of them need
  of sums, of flattened sequences and of induction.

Operators whose comment starts with "Mutant:" are not part of the models: each
is a wrong version of the definition below it, used to see that a property
notices.

## Runs

| run | configuration | shows |
|---|---|---|
| `pipeline_default` | no eager batching, separate output stream, shape inputs, 5 runs, 1 error | event sets are exclusive, input and output buffers safe, statistics are of the own run, the refinement of `OrderedExecution` with its fairness, `Execute` returns |
| `pipeline_eager` | eager batching, one stream for execution and output, shape outputs, 6 runs, 1 error | slots are conserved, run-ahead is bounded, input buffers are safe, answers come after the copies and executions that are waited for, although events are recorded again or not at all |
| `pipeline_states` | eager batching, implicit state, two requests per run, every kind of error, 4 runs, 2 errors | each request is answered and released once, the barrier belongs to the payload, only a lost completion thread can block `Execute`; the thread may be lost, so the system may stop and deadlock is not checked |
| `output_overwritten` | eager batching and separate output stream, no errors | violation: see Findings |
| `shape_outputs_not_awaited` | shape outputs, no errors | violation: see Findings |
| `update_fails` | implicit state, state updates may fail | violation: see Findings |
| `arbitrator` | three instances on two devices, every policy, arbitrator and semaphore size, 7 calls | no two calls in an instance, slots of the own instance, round-robin, `Execute` returns |
| `cuda_graphs` | nine configurations of graph specs, two contexts, a plain and a ragged input, one failing capture | every batch within a captured spec finds a graph, which holds the batch in all dimensions and is the closest one; no batch is refused that a profile admits |
| `loading` | six worlds with two threads, up to three instances on two GPUs, static and dynamic engines, completion and one error; and models of one instance, of each kind of engine and configuration, fitting or not, completed or not | engines are shared when and only when they are static, outlived by their runtimes, everything is made on the own GPU and freed unless its creation failed; buffers hold whatever is admitted, pruning by the configuration refuses nothing that conforms to it, completed configurations load and do not change when completed again, every load ends |
| `graph_of_other_buffers` | separate output stream, no failures | violation: see Findings |
| `closer_profile` | as `cuda_graphs`, no failures | violation: see Findings |
| `unbatched_graphs` | `max_batch_size` 0, no failures | violation: see Findings |

Bounds. `MaxRuns` is larger than the three event sets and reaches twice the two
buffer sets, so that both wrap around while earlier payloads are outstanding: at most
`SemCount + 1` are, which is proved. `MaxFaults` of one or two is enough for an
error in one run to meet a good or bad neighbour. Two requests tell the answer
of one from the answer of all. The arbitrator's seven calls go around two
instances three times, with registration of the second at any point between.
The graph specs overlap in one dimension and not in the other, share a
key, default, or are refused, and batches lie inside, between and outside of
them; Create of an instance that is refused stops there, so deadlock is not
checked. `MaxFailures` of one lets the event sets of a context differ. The
other bounds are guards of `StartRun`, `Fault` and `ExecutionState`.

`loading` starts in one of the `Worlds` of `MCLoading`. In the concurrent ones a
model has two instances on one GPU and one on another, with a static plan for
one GPU and a dynamic one for the other, either way round, so that sharing is
disabled before, between or after the other creations; or two models have an
instance each on different GPUs while one of them is completed, by a thread
that starts on neither's device. One error is allowed anywhere. In the others a
single thread's work is all there is: two profiles neither of which is larger,
vectorized formats, shape tensors, ragged and batch inputs and outputs,
controls and states, with configurations that batch or not, fix dimensions or
leave them open, misfit the engine in nine ways, or are left to completion in
part or altogether. A model that was unloaded is not loaded again, and the
system may stop, so deadlock is not checked there.

Fairness. Threads of the backend are ordinary threads that run when they can,
and the device finishes what a stream was given: weak fairness on the steps of
each. Nothing is assumed of Triton: it need not call `Execute` or unload. In
`loading` a call that was made goes on until it returns (`Continue`), and
Triton goes on with a load or an unload it has begun (`Call`, `Conclude`);
nobody has to begin one. Creation of an instance may wait for the global lock,
whose holder goes on for the same reason.

## Findings

* `output_overwritten`: before an execution `stream_` waits for `output_ready_`
  of this run's event set (`instance_state.cc:905`), last recorded three runs
  ago, while the same output buffers were last used two runs ago. With eager
  batching and a separate output stream an execution can overwrite outputs that
  are still being copied.
* `shape_outputs_not_awaited`: a shape output that a response wants in device
  memory is copied on `stream_`, behind all events of the run, and whether a copy
  was started is not used (`instance_state.cc:1111`). The completion thread waits
  for `output_ready_` and `compute_output_start_`, takes the end of the computation,
  "when the output data copy is completed", and sends the responses. Of all other
  device work its waits are enough (`ResponseAfterDeviceWork`).
* `update_fails`: an error from `TRITONBACKEND_StateUpdate` returns from the
  completion thread before the promise is fulfilled, and `Execute` waits for
  ever.
* `graph_of_other_buffers`: graphs are captured for event sets 0, 1, 2 over
  buffers 0, 1, 0, but with two buffer sets the fourth run has event set 0 and
  buffers 1: it fills one set of buffers and launches a graph over the other.
  The header knows the danger and believes that there are two event sets.
* `unbatched_graphs`: a model without batching captures its graphs under keys
  that start with 0 and looks them up under keys that start with 1.
* `closer_profile`: the distance of a batch to a profile compares each optimal
  dimension after the first with the dimension of the batch before it, so a
  profile can be chosen that is farther than another. The choice is still one
  that accepts the batch (`AdmittedBatchRuns`).

Also seen, and not stated by any doc or comment, or not checked by a run of its
own:

* With eager batching and an engine with shape inputs `InputBufferSafe` fails:
  `Run` copies the values of a shape input into the pinned buffer of the input
  itself (`instance_state.cc:608`), and only the collector waits for the engine
  to have read the previous run's inputs. `pipeline_eager.cfg` with `ShapeInputs`
  set to `TRUE` shows run 2 writing while run 1 is consumed. Without eager
  batching (`pipeline_default`) the one unit of the semaphore is enough.
* With eager batching `EventSetExclusive` fails: the slot of a run is released when
  its inputs are consumed, so a fourth run may take the event set of a payload that
  is still being completed, whereas "One group should be used for one request at
  any given moment" (`instance_state.h:405`). The waits remain safe
  (`ResponseAfterDeviceWork` holds: a later record on the same streams only
  delays them), the timestamps need not be of the run.
* For an input of a vectorized format the size of the first request's data is
  compared with that of the entire batch (`instance_state.cc:794`), so that a
  batch of several requests is always refused. Neither the bounds that pruning
  leaves (`ConfiguredShapesAdmitted`) nor the sizes of buffers
  (`BuffersHoldAdmitted`) are about this check.
* When outputs fail half way the requests are released while copies for them
  may be in flight; and a spec with a lower bound for the batch size but no
  inputs takes the optimal shapes as lower bound too, so that it serves one
  batch size only.
* Completion loads its engine outside of the lock that `CreateEngine` takes
  because "TensorRT engine creation is not thread-safe" (`model_state.cc:197`,
  `439`), and reverts the device of its thread only when it succeeds. The second
  does no harm: every later call sets the device it needs, which is
  `OwnGPUOnly`.
* An instance whose `Create` failed is never deleted, as its state is not set
  before `Create` returns. It keeps its engine beyond the runtime that
  `~ModelState` takes care to end last, and, if a graph specification was
  refused, its completion thread. The properties except these instances.
* An engine whose inputs do not share a batch dimension is completed to a
  configuration that its own load refuses (`UnbatchedInput` of `MCLoading`);
  `CompletedConfigLoads` is about engines for which the assumption of the code,
  "the first dimension to be batch dimension", is true.
* Completion takes a static first dimension for the maximum batch size, so that
  smaller batches are refused at run time; finds contradicting hints in one
  order only; adds no descriptions to a list of inputs that is not empty.
* All shape inputs of a context share one number of values (`nb_shape_values_`).
  With batching the evaluation of a context compares the two dimensions of a
  request's shape tensor with the one of the engine's, so that no context is
  accepted and the first is used. A shape input that TensorRT wants on the
  device never gets a buffer, and the load is refused.
* A vectorized dimension that is a whole number of vectors is padded by one
  more; `ValidateControlDimsDynamic` accepts shapes of controls that
  `ConfigureInputDimensions` then refuses; a dynamic shape output cannot get past
  `CompareShapeDimsSupported`.

## Proofs

`InstancePipeline`, for every configuration, set of requests, kinds of errors
and bounds (its named assumptions):

* `TypeCorrect`: `TypeInv` adds to `TypeOK` that a run exists whenever the issue
  thread is inside `Execute`.
* `SlotsAreConserved`, `RunAheadIsBounded`: `SlotsInv` adds that the queue holds
  no null payload while the instance serves (a null payload holds no unit) and
  that the destructor runs only outside of `Execute`. The bound on run-ahead is
  arithmetic from it.
* `NoPayloadLeft`: `OrderInv` says that the payload in hand, the queue and the
  run being issued are strictly increasing and unreleased. When Triton has all
  requests back the queue must be empty; so `PutNullPayload` meets an idle
  completion thread.
* `KeepsPromise`: the refinement of `OrderedExecution`, step by step, from
  `OrderInv`: the payload in hand is the smallest pending run and not released.
* `EachAnsweredOnce`: `AnswersInv` says that until a run is released exactly the
  requests with a null response are answered; release answers the others.
* `EventSetsAreExclusive`, `StatisticsAreOfOwnRun` (without eager batching; with
  it runs share event sets, see Findings): `SetsInv` says that the payload in hand is one
  event set behind, and two when a run was handed over since. It rests on
  `OneUnit`: the unit of the semaphore that the issue thread holds leaves the
  queue empty, so at most two runs use the three sets.
* `DeviceWorkIsDone`, in every configuration, although with eager batching a
  later run may have recorded the events that the completion thread waits for,
  and an earlier one `output_ready_` if the responder had nothing to copy:
  `DeviceInv` says that an output event recorded by a later run stands for all
  earlier ones (`OutputsInOrder`), and that while the responder's copies of a payload
  are not done their event was recorded by its run or a later one
  (`OutputRecorded`). That the execution is over follows from the other wait, for
  `compute_output_start_` (`EngineInOrder`), and that the inputs are copied and
  consumed from the execution (`StagesInOrder`). Copies of shape outputs are
  not part of it, see Findings.
* `BarrierIsOfPayload`: `BarrierInv` says that while the issue thread waits the one
  run handed over is on the queue, in hand with the promise pending, or its
  states are updated; at any other time nothing is.
* `InputBuffersAreSafe`, unless eager batching meets shape inputs (with both it
  fails, see Findings), for the collector's copies (`CopiesSafe`, in every
  configuration) and the `memcpy` of shape values: `PreviousUsers` says that the event
  the collector waits for, one event set back with one buffer set and two with
  two, stands for every pending run with the buffers about to be filled.
  Failed runs do not advance the sets, which keeps the two cycles in step.
* `OutputBuffersAreSafe`, unless eager batching and an output stream are combined
  (with both it fails, see Findings): with one stream the FIFO is enough;
  without eager batching `OtherBuffers` says that what executes after the
  payload in hand, a failed run included, has the other buffer set.

`ExecutionArbitrator`, for any instances, placement on devices, policy and
number of calls (from `PlacementAssumption`):

* `ArbitratorTypeCorrect`: `ListInv` says that the list of a device holds
  registered instances of that device and is not empty once one is registered,
  so that an index into it is never past its end.
* `OneCall`: `CallInv` says that a busy thread is the thread of the instance it
  is in, and waits for that instance or for the one now up next on the device.
* `OwnUnits`: `SlotsInv` is `SlotsOfOwnInstance` with `Held`, a simpler form of
  `HeldFor` that is equivalent under `CallInv`, and says that an instance not
  yet registered has all its units free. Registration beside a busy thread is
  the case that needs it: the new instance may not become the one up next.
* `ArbitratorGoesRound`: `RoundInv` says that every registered instance is at one
  position of the list of its device, and that whoever has yet to be executed
  before `i` may be again is `Earlier` in the round, counted from the index of the
  device on. An instance that registers is put last in the list, and so
  between those at the end of the list and those the index has passed.

`ProfileSelection` and `CudaGraphs`, for any kinds of inputs, profiles, graph
specs, preferred batch sizes and capture failures. They assume that bounds and
batches are natural numbers (`ProfilesAssumption`, `GraphsAssumption`) and that no
context accepts a batch at the distance that stands for "does not accept",
`LLONG_MAX` (`DistanceAssumption`): sizes are 32 bits wide and a distance is a sum
over the dimensions. `GraphsInv` says besides the types that the specs left after
`Create` are valid, that each map holds one graph for each key, each with the key
and the lower bounds of a valid spec, and that the launch on record is what the
lookup returns for its batch.

* `AdmittedBatchesRun`: by `ProfileSelected` the profile that is chosen is at the
  smallest distance, and by `DistanceAssumption` that of an accepting one is
  smaller than that of any other.
* `LaunchedGraphHoldsBatch`, `LaunchedGraphIsClosest`: a key is all dimensions in a
  row, and `KeysPointwise` is why their comparison is one of the shapes: keys
  of one model have the same length, although the shapes come from an
  unordered specification. `LookupFinds` says what the search upward from the
  batch's key ends with; that the map has a first key at all is
  `FirstGraphExists`, by induction over its graphs.
* `SpecsServeTheirRange`, for a model that batches: `LookupMissesNone`. Without
  batches it is false (see Findings), as an empty lower bound stands for nothing.

What folds and recursive functions compute is proved by induction on a set
of indices (`InductionOnSet`), with the induction hypothesis an ordinary set of
sets, not an operator.

`ModelLoading`, for any models, instances, places, threads, worlds and errors.
It assumes that the names are distinct, that `ModelOf` and `FirstGPU` are
functions into models and GPUs, and that the devices a thread may start with
are GPUs of instances. What completion and bindings make of a configuration is
left open here: these proofs never expand it. The inductive invariant `IInv` has, besides
`TypeOK`:

* `LockInv`: the lock is held by the one instance that is "creating";
  `TaskInv`: a thread that creates an instance is alone with it and on its GPU.
  `InstancesOnTheirGPU` follows from the second.
* `PhaseInv`: no instance is being created unless its model is in the phase
  for it, so that a model is not finalized under it; `IdleInv`: before its engine
  is made and after it is finalized an instance holds nothing.
  `OnlyAbandonedHold` follows from the two.
* `CachedInv`: the engine kept for a place was made there, by the runtime of the
  place, and is not dynamic; `HeldInv`: the same of an engine an instance holds
  without having made it. `DynamicEnginesExclusive` follows. It takes both: an
  instance gets its engine from the place, and keeps it when the place has
  given it up.
* `SharedInv`: while the model shares engines, what an instance holds is what its
  place keeps. `OneEnginePerPlace` is inductive with it: the one step that could
  break it, the creation of a second engine for a place, needs the place empty
  and so finds either no holder or sharing disabled.
* `RuntimesOutliveEngines` is part of `IInv` with the above: a place never changes a
  runtime it has, and loses it only in `FinalizeModel`, when the instances are
  gone or abandoned.

`TensorBindings` and `ConfigCompletion`, for any engine, profiles and
configuration: `BuffersHold`, that whatever a run admits fits in the buffers its
instance was created with. `WorldsAssumption` is what TensorRT and Triton guarantee
of an engine and a configuration before this code sees them (`EngineTyped`,
`ConfigTyped`): the tensors of an engine have different names, a profile has as many
minimal as maximal dimensions, a shape tensor has as many values as elements, dims
are integers, the kinds of batch inputs are the known ones; and where a
configuration is completed, that every input has a first dimension to take for
the batch size. The number of errors that may come is some natural number.

* `Good` is what every step of the initialization keeps (`StepGood`): the
  allocated buffer of an input has room for the largest shape of every
  context, and that of an output for the shape TensorRT infers from the input it
  is `from`, which by then is given. It holds on as further inputs are bound
  because the largest shapes only shrink (`Shrinks`, `ShrinkRoom`): a configuration
  prunes a profile and never enlarges it (`MaximumDimsShrink`). One buffer serves
  all contexts, and `AllocateEffect` is that it is as large as the hungriest needs.
* `DoneGood` goes through the steps by `InductionOnSet`; which steps there are,
  and that they are of the right kind, is `InitializationStepsTyped`.
* `AdmittedFits`: what `SetBindingDimensions` or `ValidateShapeValues` admits is at most
  the largest shape in each dimension, and volumes are monotone
  (`VolumeMonotone`), also when dimensions are rounded up to whole vectors in the two
  ways that the copies and TensorRT do it (`RoundedVolumes`).
* `CompletionTyped`: a completed configuration is one of the right types again.
* `ConfigInv` and `BoundInv`, inductive with `IInv`: the configuration of a model is
  the completed one from the time the model is ready, and an instance that is
  bound has what the bindings make of this configuration and the engine of its
  GPU. It is `PhaseInv` that keeps completion from changing a configuration an
  instance was already bound to.

`ConformingAdmitted`: what conforms to the configuration and to what every profile
allows is within the bounds that pruning leaves: no context refuses its shape in
`SetBindingDimensions` or its shape values in `ValidateShapeValues`. The checks of
sizes are not part of it (see Findings).

* `Served` follows the initialization step by step, with three parts. `Handled`: an
  input whose step is done has its buffer, and a configuration with as many
  dimensions as the profiles; an input that is configured twice is noticed
  (`Again`). `Kept`: a shape that is within a profile, and that every step for its
  input so far admits, is within what is left of the profile's largest shape.
  `Counted`: a context's number of shape values is that of one of its shape
  inputs. What other steps leave alone is `Leaves`: no buffer is given up and no
  largest shape changed but by the steps of its input.
* What the configuration allows is what the pruning admits (`AllowedAdmits`), with the
  configured dimensions behind a batch size or not, and for a ragged or a batch
  input whatever its profile allows.
* It assumes `OneLength`, that the shape inputs of the engine have one number of
  values: with two lengths it is false, since one counter stands for both.

`CompletionIsStable`: what completion makes of a configuration, it makes of itself.

* With batches or without is decided by hints collected along two lists, where
  a later description can be refused for what an earlier one said. Where the
  descriptions agree (`HintsAgree`) the hints are a function of the evidence
  alone, in whatever order it comes (`HintsOfConfig`). The fold over a list is
  read by a function on sets of indices (`Hinting`).
* What completion fills in is evidence for what it decided (`FixAgrees`,
  `RefsHints`) and what it leaves is looked at again in the same places (`FixKeeps`),
  so the second completion decides the same (`BatchesOf`).
* `FixTwice`, `FixAgain`: filling in is idempotent, as each description is filled
  in by the one tensor of its name. That needs names to be distinct.
* `HintsAgree` is needed: a list with an undescribed input, one against batches and
  one for them passes, as a contradiction is seen in one order only, and is
  refused when the first has been described. A reshape without dims would be
  evidence for the first completion of something else than the second sees.
* `ConfigInv` has `Completable` for it: a model that is ready was completed without
  an error.

`CompletedLoads`: a model whose configuration says nothing of its tensors loads
unless a call fails (`CompletedConfigLoads`), for every engine that a configuration
with a batch size can describe (`Describable`), with any number of tensors.

* `CompletionWrites`: completion is not refused, and makes a configuration that has
  each tensor as the engine has it and a batch size that the smallest shapes of the
  first profile do not exceed (`Written`).
* `WrittenValid` and `WrittenLoads`: `ValidateIO`, `InitOptimizationProfiles` and
  `InitIOBindingBuffers` accept it. Each of the initialization functions accepts the
  tensor it is called for (`ShapeInputLoads` and its like), provided that it finds
  the tensor without a buffer where it needs that (`Ready`) and that pruning left
  room for the smallest shape (`Room`). Of the steps as a whole it takes that no
  two of them want the same tensor of a set (`Tidy`, by the distinct names of the
  tensors and the kinds of the steps) and that no tensor is left out (`InitCovers`);
  `Loading` says what the first steps have made.
* `LossInv`, inductive with `IInv` and `ConfigInv`: as long as no error came, no
  instance of such a model failed, and from the time it serves all its instances
  are there. The steps that lose an instance without an error are those that
  the lemmas above exclude.
* The proof found what `Describable` has to say beyond that the inputs agree on the
  sizes of a batch. Of the profile: its bounds are those the dimensions of the
  inputs allow, which TensorRT sees to, and the least first dimension is at most
  the `INT_MAX` where `GetProfileMaxBatchSize` starts. Of the tensors, without which
  a step of the load refuses them: formats are ones `SetFormat` knows, shape
  tensors are 1-dimensional, of a known number of values, on the host, and of type
  INT64 or, if they are inputs, INT32.

Only model-checked are the liveness properties (`ExecuteReturns`,
`OnlyLostThreadBlocks`, `LoadReturns` and the fairness of the refinement), which are
out of the prover's reach. Every
invariant that a run checks and that holds is a theorem.

## Not modelled, and the plan

Left of the plan: the distance of shape values in `ProfileSelection` (`GetRequestShapeValues`,
`ShapeTensor::GetDistance`). It matters only for models that do not batch, see
above.

What lies outside of the code, in Triton's common backend library, CUDA and
TensorRT, is taken to do what `Run` uses it for: the collector waits for the event
it is given before it first writes a buffer; the responder records the event
it is given behind its last copy; the engine's input-consumed event and the
order of a stream are as documented. The build is one with statistics: without
`TRITON_ENABLE_STATS` the wait at `instance_state.cc:1284` is gone.

Left out of the pipeline: the `memset` of input buffers at
`instance_state.cc:1255`, for `buffer_input_binding_pairs_` (`instance_state.h:475`) is
never filled, nor is the variable its comment names read anywhere; and the buffers
of shape outputs in `OutputBufferSafe`, from which copies and executions follow one
another on `stream_`. `Run` meets shape inputs anywhere among the inputs; the
model writes them first, when the collector has not waited yet, which allows
what any other order does.

Left out of what is modelled: zero copy, which changes where buffers lie; tensors
without dimensions in models that do not batch; the errors of calls after an
instance is created and registered (`TRITONBACKEND_ModelInstanceSetState` and the
report of memory usage), which Triton's own data structures would have to fail
for; options of TensorRT and CUDA that `ParseParameters` reads and hands on.

Not to be modelled: the output allocator, a buffer for one output that grows when
the thread executing the instance needs it; logging, file system and
shared-library wrappers, which are pure I/O; TensorRT, CUDA and the Triton core,
which appear as the external actions and errors above.
