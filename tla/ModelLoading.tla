---------------------------- MODULE ModelLoading ----------------------------
(***************************************************************************)
(* How models are loaded and unloaded: ModelState (the configuration and   *)
(* its completion, the runtimes and engines of each device, the global     *)
(* lock their creation takes) and the creation and destruction of its      *)
(* ModelInstanceStates.  Triton (external) calls ModelInitialize for each  *)
(* model it loads, ModelInstanceInitialize for each of its instances, in   *)
(* turn on one thread or at once on several, and the Finalize functions    *)
(* when the model is unloaded or one of its instances failed.              *)
(*                                                                         *)
(* An engine and a runtime are named after the instance that created them. *)
(* Both are shared pointers: an engine lives while the ModelState or an    *)
(* instance holds it, a runtime while the ModelState does.  The engine     *)
(* that completion loads is gone before the step ends and has no name.     *)
(***************************************************************************)
EXTENDS ConfigCompletion

CONSTANTS
  Models,     \* the models Triton may load
  Instances,  \* their instances
  Threads,    \* the threads of Triton that load and unload
  None,       \* no engine, no runtime, nobody, nothing
  ModelOf,    \* the model of an instance
  PlaceOf,    \* its GPU and DLA core, [gpu, dla]
  Worlds,     \* what there is to load: plans, configurations, faults (see Init)
  FirstGPU    \* the GPU completion uses: the first of the first instance group

GPUs == {PlaceOf[i].gpu : i \in Instances}
Places == {PlaceOf[i] : i \in Instances}

ASSUME NamesAssumption == None \notin Instances \cup Models /\ Instances \cap Models = {}
ASSUME ModelOfAssumption == ModelOf \in [Instances -> Models]
ASSUME FirstGPUAssumption == FirstGPU \in [Models -> GPUs]
ASSUME DevicesAssumption == \A w \in Worlds : w.devices \subseteq GPUs
ASSUME WorldsAssumption ==
  \A w \in Worlds :
    /\ DOMAIN w.config = Models /\ w.loaded \subseteq Models /\ w.faults \in Nat
    /\ \A m \in w.loaded :
         /\ ConfigTyped(w.config[m])
         /\ \A gpu \in GPUs : EngineTyped(w.plan[m][gpu])
         /\ w.autoComplete[m] =>
              FirstDimensions(w.plan[m][FirstGPU[m]]) /\ IsFiniteSet(w.config[m].groupProfiles)

\* Completion and the initialization of the bindings depend on the plan and the
\* configuration only.  Tables of what they make of those of the worlds.
Completions ==
  [load \in UNION {{<<w.plan[m][FirstGPU[m]], w.config[m]>> : m \in w.loaded} : w \in Worlds} |->
     AutoCompleteConfigHelper(load[1], load[2])]

LoadedConfig(w, m) ==
  IF w.autoComplete[m] THEN Completions[<<w.plan[m][FirstGPU[m]], w.config[m]>>].config
  ELSE w.config[m]

Initializations ==
  [load \in UNION {{<<w.plan[ModelOf[i]][PlaceOf[i].gpu], LoadedConfig(w, ModelOf[i])>> :
                      i \in {j \in Instances : ModelOf[j] \in w.loaded}} : w \in Worlds} |->
     Bindings(load[1], load[2])]

VARIABLES
  world,           \* the plan of each model for each GPU and what to do with it
  phase,           \* how far the loading of a model is
  config,          \* ModelConfig of a model
  engine_sharing,  \* engine_sharing_ of a model
  deviceRuntime,   \* device_engines_ of a model, by place: the runtime
  deviceEngine,    \* ... and the engine kept for the instances to come
  global_context_mu, \* the holder of CreateEngine's lock, over all models
  at,              \* how far the creation of an instance is
  engine,          \* engine_ of an instance
  engineRuntime,   \* the runtime of the engine an instance created
  io_binding_infos,  \* what InitIOBindingBuffers made of an instance
  completion_thread, \* the completion thread of an instance
  touched,         \* the GPUs where things of an instance were made or freed
  task,            \* what a thread of Triton is busy with
  device,          \* its current CUDA device
  current_device,  \* current_device in AutoCompleteConfig
  faultsLeft       \* errors that calls may still return

modelVars == <<phase, config>>
engineVars == <<engine_sharing, deviceRuntime, deviceEngine, engineRuntime>>
instanceVars == <<at, engine, io_binding_infos, completion_thread, touched>>
threadVars == <<task, device, current_device>>
vars == <<world, modelVars, engineVars, instanceVars, threadVars,
          global_context_mu, faultsLeft>>

Siblings(m) == {i \in Instances : ModelOf[i] = m}
PlanOf(i) == world.plan[ModelOf[i]][PlaceOf[i].gpu]

\* An instance is being created.
Busy == {"streams", "creating", "engine", "bound"}

Init ==
  /\ world \in Worlds
  /\ phase = [m \in Models |-> "absent"]
  /\ config = world.config
  /\ engine_sharing = [m \in Models |-> TRUE]
  /\ deviceRuntime = [m \in Models |-> [p \in Places |-> None]]
  /\ deviceEngine = [m \in Models |-> [p \in Places |-> None]]
  /\ global_context_mu = None
  /\ at = [i \in Instances |-> "absent"]
  /\ engine = [i \in Instances |-> None]
  /\ engineRuntime = [i \in Instances |-> None]
  /\ io_binding_infos = [i \in Instances |-> None]
  /\ completion_thread = [i \in Instances |-> "none"]
  /\ touched = [i \in Instances |-> {}]
  /\ task = [t \in Threads |-> None]
  /\ device \in [Threads -> world.devices]
  /\ current_device = device
  /\ faultsLeft = world.faults

\* A call returns an error.
Fault == faultsLeft > 0 /\ faultsLeft' = faultsLeft - 1

-----------------------------------------------------------------------------
(***************************************************************************)
(* ModelInitialize, on thread t.                                           *)
(***************************************************************************)
\* Without completion the model state is ready at once, unless a call fails.
ModelInitialize(m) ==
  /\ phase[m] = "absent" /\ m \in world.loaded
  /\ \/ /\ ~world.autoComplete[m]
        /\ phase' = [phase EXCEPT ![m] = "creating"]
        /\ UNCHANGED faultsLeft
     \/ /\ Fault
        /\ phase' = [phase EXCEPT ![m] = "gone"]
  /\ UNCHANGED <<world, config, engineVars, instanceVars, threadVars, global_context_mu>>

\* AutoCompleteConfig up to LoadPlan, which it calls without the lock.
AutoCompleteConfig(t, m) ==
  /\ task[t] = None
  /\ phase[m] = "absent" /\ m \in world.loaded
  /\ world.autoComplete[m]
  /\ phase' = [phase EXCEPT ![m] = "completing"]
  /\ task' = [task EXCEPT ![t] = m]
  /\ current_device' = [current_device EXCEPT ![t] = device[t]]
  /\ device' = [device EXCEPT ![t] = FirstGPU[m]]
  /\ UNCHANGED <<world, config, engineVars, instanceVars, global_context_mu, faultsLeft>>

CompletedConfig(m) == Completions[<<world.plan[m][FirstGPU[m]], world.config[m]>>]

ConfigCompleted(t, m) ==
  /\ task[t] = m /\ phase[m] = "completing"
  /\ CompletedConfig(m).ok
  /\ config' = [config EXCEPT ![m] = CompletedConfig(m).config]
  /\ phase' = [phase EXCEPT ![m] = "creating"]
  /\ task' = [task EXCEPT ![t] = None]
  /\ device' = [device EXCEPT ![t] = current_device[t]]
  /\ UNCHANGED <<world, engineVars, instanceVars, current_device, global_context_mu, faultsLeft>>

\* The plan does not load, or the configuration cannot be completed with it:
\* ModelInitialize fails and the thread keeps the device of the model.  It also
\* fails, with the device reverted, if a call after the completion does.
ConfigNotCompleted(t, m) ==
  /\ task[t] = m /\ phase[m] = "completing"
  /\ \/ Fault /\ UNCHANGED device
     \/ ~CompletedConfig(m).ok /\ UNCHANGED <<device, faultsLeft>>
     \/ CompletedConfig(m).ok /\ Fault /\ device' = [device EXCEPT ![t] = current_device[t]]
  /\ phase' = [phase EXCEPT ![m] = "gone"]
  /\ task' = [task EXCEPT ![t] = None]
  /\ UNCHANGED <<world, config, engineVars, instanceVars, current_device, global_context_mu>>

-----------------------------------------------------------------------------
(***************************************************************************)
(* ModelInstanceState::Create, on thread t.                                *)
(***************************************************************************)
\* Mutant of StreamDevice: the streams are made on whatever device the thread has.
StreamDeviceOfThread(t, i) == device[t]

\* Mutant of StreamDevice: the DLA core is taken for the GPU.
StreamDeviceOfCore(t, i) == PlaceOf[i].dla

\* The device InitStreamsAndEvents sets.
StreamDevice(t, i) == PlaceOf[i].gpu

Touch(i, gpu) == touched' = [touched EXCEPT ![i] = @ \cup {gpu}]

\* The constructor and InitStreamsAndEvents.  An error may come before the
\* device is set, as when there is no plan, or after it.
InitStreamsAndEvents(t, i) ==
  /\ task[t] = None
  /\ at[i] = "absent" /\ phase[ModelOf[i]] = "creating"
  /\ \/ /\ at' = [at EXCEPT ![i] = "streams"]
        /\ task' = [task EXCEPT ![t] = i]
        /\ device' = [device EXCEPT ![t] = StreamDevice(t, i)]
        /\ Touch(i, StreamDevice(t, i))
        /\ UNCHANGED faultsLeft
     \/ /\ Fault
        /\ at' = [at EXCEPT ![i] = "failed"]
        /\ UNCHANGED task
        /\ \/ UNCHANGED <<device, touched>>
           \/ /\ device' = [device EXCEPT ![t] = StreamDevice(t, i)]
              /\ Touch(i, StreamDevice(t, i))
  /\ UNCHANGED <<world, modelVars, engineVars, engine, io_binding_infos, completion_thread,
                 current_device, global_context_mu>>

\* Create returns an error, and nothing it made is undone.
CreateFails(t, i) ==
  /\ at' = [at EXCEPT ![i] = "failed"]
  /\ task' = [task EXCEPT ![t] = None]

\* CreateEngine takes the lock.
LockCreation(t, i) ==
  /\ task[t] = i /\ at[i] = "streams"
  /\ global_context_mu = None
  /\ global_context_mu' = i
  /\ at' = [at EXCEPT ![i] = "creating"]
  /\ UNCHANGED <<world, modelVars, engineVars, engine, io_binding_infos, completion_thread,
                 touched, threadVars, faultsLeft>>

\* CreateEngine returns the engine its place has already.
ShareEngine(t, i) ==
  LET kept == deviceEngine[ModelOf[i]][PlaceOf[i]] IN
  /\ task[t] = i /\ at[i] = "creating"
  /\ kept # None
  /\ engine' = [engine EXCEPT ![i] = kept]
  /\ at' = [at EXCEPT ![i] = "engine"]
  /\ global_context_mu' = None
  /\ UNCHANGED <<world, modelVars, engineVars, io_binding_infos, completion_thread, touched,
                 threadVars, faultsLeft>>

IsDynamic(e) == \E k \in DOMAIN e.tensors : ContainsWildcard(e.tensors[k].dims)

StillShared(i) == engine_sharing[ModelOf[i]] /\ ~IsDynamic(PlanOf(i))

\* Mutant of EngineKept: whether to keep the engine is decided before it is
\* known whether it is dynamic.
EngineKeptTooEarly(i) == IF engine_sharing[ModelOf[i]] THEN i ELSE None

\* Mutant of EngineKept: no engine is ever kept.
EngineNotKept(i) == None

\* The engine is kept for other instances as long as the model shares engines.
EngineKept(i) == IF StillShared(i) THEN i ELSE None

\* Mutant of RuntimeUsed: a runtime is made for every engine.
RuntimeOfItsOwn(i) == i

\* LoadPlan makes a runtime when the place has none.
RuntimeUsed(i) ==
  LET runtime == deviceRuntime[ModelOf[i]][PlaceOf[i]]
  IN  IF runtime = None THEN i ELSE runtime

SetRuntime(i, r) ==
  deviceRuntime' = [deviceRuntime EXCEPT ![ModelOf[i]] = [@ EXCEPT ![PlaceOf[i]] = r]]

CreateEngine(t, i) ==
  /\ task[t] = i /\ at[i] = "creating"
  /\ deviceEngine[ModelOf[i]][PlaceOf[i]] = None
  /\ device' = [device EXCEPT ![t] = PlaceOf[i].gpu]
  /\ Touch(i, PlaceOf[i].gpu)
  /\ SetRuntime(i, RuntimeUsed(i))
  /\ engineRuntime' = [engineRuntime EXCEPT ![i] = RuntimeUsed(i)]
  /\ engine' = [engine EXCEPT ![i] = i]
  /\ engine_sharing' = [engine_sharing EXCEPT ![ModelOf[i]] = StillShared(i)]
  /\ deviceEngine' =
       [deviceEngine EXCEPT ![ModelOf[i]] = [@ EXCEPT ![PlaceOf[i]] = EngineKept(i)]]
  /\ at' = [at EXCEPT ![i] = "engine"]
  /\ global_context_mu' = None
  /\ UNCHANGED <<world, modelVars, io_binding_infos, completion_thread, task,
                 current_device, faultsLeft>>

\* Mutant of LockAfterError: an error leaves the lock held.
LockForgotten == global_context_mu

\* The guard gives the lock back however CreateEngine returns.
LockAfterError == None

\* LoadPlan fails, with a runtime or without; the engine of the place stays empty.
CreateEngineFails(t, i) ==
  /\ task[t] = i /\ at[i] = "creating"
  /\ deviceEngine[ModelOf[i]][PlaceOf[i]] = None
  /\ Fault
  /\ device' = [device EXCEPT ![t] = PlaceOf[i].gpu]
  /\ SetRuntime(i, RuntimeUsed(i)) \/ UNCHANGED deviceRuntime
  /\ CreateFails(t, i)
  /\ global_context_mu' = LockAfterError
  /\ UNCHANGED <<world, modelVars, engine_sharing, deviceEngine, engineRuntime, engine,
                 io_binding_infos, completion_thread, touched, current_device>>

Bound(i) == Initializations[<<PlanOf(i), config[ModelOf[i]]>>]

\* InitOptimizationProfiles, ValidateIO and InitIOBindingBuffers accept the
\* configuration: the contexts and buffers are made, and the completion thread
\* is started.
InitBindings(t, i) ==
  /\ task[t] = i /\ at[i] = "engine"
  /\ Bound(i).ok
  /\ io_binding_infos' = [io_binding_infos EXCEPT ![i] = Bound(i)]
  /\ completion_thread' = [completion_thread EXCEPT ![i] = "running"]
  /\ Touch(i, device[t])
  /\ at' = [at EXCEPT ![i] = "bound"]
  /\ UNCHANGED <<world, modelVars, engineVars, engine, threadVars, global_context_mu, faultsLeft>>

InitBindingsFails(t, i) ==
  /\ task[t] = i /\ at[i] = "engine"
  /\ Fault \/ (~Bound(i).ok /\ UNCHANGED faultsLeft)
  /\ Touch(i, device[t])
  /\ CreateFails(t, i)
  /\ UNCHANGED <<world, modelVars, engineVars, engine, io_binding_infos, completion_thread,
                 device, current_device, global_context_mu>>

\* The graphs are captured where the model wants them, and the instance is
\* registered with the arbitrator.
RegisterInstance(t, i) ==
  /\ task[t] = i /\ at[i] = "bound"
  /\ at' = [at EXCEPT ![i] = "registered"]
  /\ task' = [task EXCEPT ![t] = None]
  /\ UNCHANGED <<world, modelVars, engineVars, engine, io_binding_infos, completion_thread,
                 touched, device, current_device, global_context_mu, faultsLeft>>

\* A graph specification is refused; the completion thread runs on.
InitializeCudaGraphFails(t, i) ==
  /\ task[t] = i /\ at[i] = "bound"
  /\ world.graphs[ModelOf[i]]
  /\ Fault
  /\ CreateFails(t, i)
  /\ UNCHANGED <<world, modelVars, engineVars, engine, io_binding_infos, completion_thread,
                 touched, device, current_device, global_context_mu>>

-----------------------------------------------------------------------------
(***************************************************************************)
(* Triton.  A model serves when all its instances are created; it is       *)
(* unloaded when one of them failed and none is being created any more, or *)
(* when the user wants it.                                                 *)
(***************************************************************************)
Serve(m) ==
  /\ phase[m] = "creating"
  /\ \A i \in Siblings(m) : at[i] = "registered"
  /\ phase' = [phase EXCEPT ![m] = "serving"]
  /\ UNCHANGED <<world, config, engineVars, instanceVars, threadVars, global_context_mu,
                 faultsLeft>>

GiveUp(m) ==
  /\ phase[m] = "creating"
  /\ \E i \in Siblings(m) : at[i] = "failed"
  /\ \A i \in Siblings(m) : at[i] \notin Busy
  /\ phase' = [phase EXCEPT ![m] = "unloading"]
  /\ UNCHANGED <<world, config, engineVars, instanceVars, threadVars, global_context_mu,
                 faultsLeft>>

Unload(m) ==
  /\ phase[m] = "serving"
  /\ phase' = [phase EXCEPT ![m] = "unloading"]
  /\ UNCHANGED <<world, config, engineVars, instanceVars, threadVars, global_context_mu,
                 faultsLeft>>

\* Mutant of ThreadAfter: nobody tells the completion thread to end.
ThreadLeft(i) == completion_thread[i]

\* A completion thread that was started is told to end and waited for.
ThreadAfter(i) == IF completion_thread[i] = "running" THEN "joined" ELSE completion_thread[i]

\* ModelInstanceFinalize: the destructor frees the buffers and streams, ends the
\* completion thread and gives up the engine.
FinalizeInstance(t, i) ==
  /\ task[t] = None
  /\ phase[ModelOf[i]] = "unloading" /\ at[i] = "registered"
  /\ at' = [at EXCEPT ![i] = "finalized"]
  /\ device' = [device EXCEPT ![t] = PlaceOf[i].gpu]
  /\ Touch(i, PlaceOf[i].gpu)
  /\ engine' = [engine EXCEPT ![i] = None]
  /\ io_binding_infos' = [io_binding_infos EXCEPT ![i] = None]
  /\ completion_thread' = [completion_thread EXCEPT ![i] = ThreadAfter(i)]
  /\ UNCHANGED <<world, modelVars, engineVars, task, current_device, global_context_mu,
                 faultsLeft>>

\* ModelInstanceFinalize of an instance that Create did not finish: its state
\* was never set, so that nothing is deleted.
AbandonInstance(i) ==
  /\ phase[ModelOf[i]] = "unloading" /\ at[i] = "failed"
  /\ at' = [at EXCEPT ![i] = "abandoned"]
  /\ UNCHANGED <<world, modelVars, engineVars, engine, io_binding_infos, completion_thread,
                 touched, threadVars, global_context_mu, faultsLeft>>

\* ModelFinalize: the engines are given up before the runtimes, which end.
FinalizeModel(t, m) ==
  /\ task[t] = None
  /\ phase[m] = "unloading"
  /\ \A i \in Siblings(m) : at[i] \in {"absent", "finalized", "abandoned"}
  /\ phase' = [phase EXCEPT ![m] = "gone"]
  /\ deviceEngine' = [deviceEngine EXCEPT ![m] = [p \in Places |-> None]]
  /\ deviceRuntime' = [deviceRuntime EXCEPT ![m] = [p \in Places |-> None]]
  /\ \/ UNCHANGED device
     \/ \E i \in Siblings(m) : device' = [device EXCEPT ![t] = PlaceOf[i].gpu]
  /\ UNCHANGED <<world, config, engine_sharing, engineRuntime, instanceVars, task,
                 current_device, global_context_mu, faultsLeft>>

-----------------------------------------------------------------------------
\* What thread t does next with the call it is in.
Continue(t) ==
  \/ \E m \in Models : ConfigCompleted(t, m) \/ ConfigNotCompleted(t, m)
  \/ \E i \in Instances :
       \/ LockCreation(t, i)
       \/ ShareEngine(t, i) \/ CreateEngine(t, i) \/ CreateEngineFails(t, i)
       \/ InitBindings(t, i) \/ InitBindingsFails(t, i)
       \/ RegisterInstance(t, i) \/ InitializeCudaGraphFails(t, i)

\* The calls Triton makes until a model serves or is gone.
Call(t) ==
  \/ \E i \in Instances : InitStreamsAndEvents(t, i) \/ FinalizeInstance(t, i)
  \/ \E m \in Models : FinalizeModel(t, m)

Conclude ==
  \/ \E m \in Models : Serve(m) \/ GiveUp(m)
  \/ \E i \in Instances : AbandonInstance(i)

Request ==
  \/ \E m \in Models : ModelInitialize(m) \/ Unload(m)
  \/ \E t \in Threads, m \in Models : AutoCompleteConfig(t, m)

Next ==
  \/ \E t \in Threads : Continue(t) \/ Call(t)
  \/ Conclude
  \/ Request

Spec == Init /\ [][Next]_vars

\* A call goes on until it returns, and Triton goes on with a load or an unload
\* it has begun; nobody has to begin one.
FairSpec ==
  /\ Spec
  /\ \A t \in Threads : WF_vars(Continue(t)) /\ WF_vars(Call(t))
  /\ WF_vars(Conclude)

-----------------------------------------------------------------------------
Phases == {"absent", "completing", "creating", "serving", "unloading", "gone"}
Created == Instances \cup {None}

\* The control state of the models, the instances and the threads.
TypeOK ==
  /\ phase \in [Models -> Phases]
  /\ engine_sharing \in [Models -> BOOLEAN]
  /\ deviceRuntime \in [Models -> [Places -> Created]]
  /\ deviceEngine \in [Models -> [Places -> Created]]
  /\ global_context_mu \in Created
  /\ at \in [Instances -> Busy \cup {"absent", "registered", "failed", "finalized", "abandoned"}]
  /\ engine \in [Instances -> Created]
  /\ engineRuntime \in [Instances -> Created]
  /\ completion_thread \in [Instances -> {"none", "running", "joined"}]
  /\ touched \in [Instances -> SUBSET GPUs]
  /\ task \in [Threads -> Created \cup Models]
  /\ device \in [Threads -> GPUs]
  /\ current_device \in [Threads -> GPUs]

\* CreateEngine's "Model with dynamic shapes can't share engine": no two
\* instances hold the same engine if one of its tensors has a dynamic shape,
\* even where an instance on another GPU has a static engine of the same model.
DynamicEngineExclusive ==
  \A i, j \in Instances :
    i # j /\ engine[i] # None /\ engine[i] = engine[j] => ~IsDynamic(PlanOf(i))

\* CreateEngine's "We share the engine ... across instances that have access to
\* the same GPU/NVDLA": as long as no engine of the model was found dynamic, the
\* instances of one place hold one engine, in whatever order they are created
\* and whichever of them fail.
SharedWhileEnabled ==
  \A i, j \in Instances :
    /\ ModelOf[i] = ModelOf[j] /\ PlaceOf[i] = PlaceOf[j]
    /\ engine_sharing[ModelOf[i]]
    /\ engine[i] # None /\ engine[j] # None
    => engine[i] = engine[j]

\* ~ModelState's "ensure proper destruction order": the runtime of an engine is
\* the one its ModelState holds, so that it ends after the engine, unless the
\* engine is held by an instance whose creation failed.
RuntimeOutlivesEngine ==
  \A i \in Instances :
    engine[i] # None /\ at[i] # "abandoned"
      => /\ deviceRuntime[ModelOf[i]][PlaceOf[i]] # None
         /\ deviceRuntime[ModelOf[i]][PlaceOf[i]] = engineRuntime[engine[i]]

\* ModelInstanceFinalize and ModelFinalize leave nothing behind but what belongs
\* to instances whose creation failed: no engine is held and no completion
\* thread runs for a model that is gone.
HeldOnlyByAbandoned ==
  \A i \in Instances :
    /\ phase[ModelOf[i]] = "gone"
    /\ engine[i] # None \/ completion_thread[i] = "running"
    => at[i] = "abandoned"

\* Everything of an instance is made and freed on its own GPU, whichever thread
\* creates it and whatever device a failed completion left that thread with.
OwnGPUOnly == \A i \in Instances : touched[i] \subseteq {PlaceOf[i].gpu}

-----------------------------------------------------------------------------
\* The shapes within bounds.
ShapesIn(min, max) ==
  {shape \in [DOMAIN max -> 0 .. Max({max[d] : d \in DOMAIN max})] :
     \A d \in DOMAIN max : shape[d] \in min[d] .. max[d]}

\* The elements of output o when the tensor its shape comes from has this shape
\* or these values.
OutputElements(e, o, shape) == Volume(InVectors(Tensor(e, o).format, shape))

\* The outputs of a shape that the model instance has made room for.
RoomMade(e, infos, n) ==
  {o \in Names(e) \ InputNames(e) :
     Tensor(e, o).from = n /\ ~IsShape(e, o) /\ ~infos[o].dynamic}

\* "Allocate memory for the maximum possible batch size": whatever shapes and
\* values Run admits for whichever context, the inputs it copies and the outputs
\* TensorRT writes fit in the buffers of either set.
BuffersHoldAdmitted ==
  \A i \in Instances : at[i] = "registered" =>
    LET e  == PlanOf(i)
        st == io_binding_infos[i]
    IN  \A c \in DOMAIN st.max, n \in InputNames(e) :
          LET admitted ==
                IF IsShape(e, n)
                THEN {v \in ShapesIn(e.profiles[c][n].low, e.profiles[c][n].high) :
                        ValidateShapeValues(e, st, c, n, v)}
                ELSE {v \in ShapesIn(e.profiles[c][n].min, e.profiles[c][n].max) :
                        SetBindingDimensions(e, st, c, n, v)}
              copied(v) == IF IsShape(e, n) THEN Len(v) ELSE CopiedElements(e, n, v)
          IN  \A v \in admitted, s \in DOMAIN st.info :
                /\ copied(v) <= st.info[s][n].size
                /\ \A o \in RoomMade(e, st.info[s], n) :
                     OutputElements(e, o, v) <= st.info[s][o].size

\* A shape as these dims describe it, in a model that batches without the batch.
Conforms(cfg, dims, shape) ==
  LET own == IF Batching(cfg) THEN Tail(shape) ELSE shape
  IN  \A d \in DOMAIN own : dims[d] \in {WILDCARD_DIM, own[d]}

\* A shape as the configuration describes it: a batch of allowed size, with the
\* dimensions that are configured.
ConformsToInput(cfg, io, shape) ==
  /\ Batching(cfg) => shape[1] \in 1 .. cfg.maxBatch
  /\ Conforms(cfg, ConfigDims(io), shape)

\* The shape inputs have equally many values: there is one nb_shape_values_ of a
\* context for all of them.
OneLength(e, c) ==
  \A n, o \in {k \in InputNames(e) : IsShape(e, k)} :
    Len(e.profiles[c][n].high) = Len(e.profiles[c][o].high)

\* "Only prune maximum dims": pruning the profile by the configuration leaves a
\* context bounds that refuse no input that conforms to the configuration and that
\* the profile allows.  What a batch input or a ragged input adds up to is not
\* limited by the configuration.  The checks of sizes are not of bounds.
ConfiguredShapesAdmitted ==
  \A i \in Instances : at[i] = "registered" =>
    LET e   == PlanOf(i)
        cfg == config[ModelOf[i]]
        st  == io_binding_infos[i]
    IN  \A c \in DOMAIN st.max :
          /\ \A k \in DOMAIN cfg.inputs :
               LET io == cfg.inputs[k] IN
               IF io.shape
               THEN OneLength(e, c) =>
                      \A v \in ShapesIn(e.profiles[c][io.name].low, e.profiles[c][io.name].high) :
                        ValidateShapeValues(e, st, c, io.name, v)
               ELSE \A v \in ShapesIn(e.profiles[c][io.name].min, e.profiles[c][io.name].max) :
                      io.ragged \/ ConformsToInput(cfg, io, v)
                        => SetBindingDimensions(e, st, c, io.name, v)
          /\ \A k \in DOMAIN cfg.batchInputs :
               LET input == cfg.batchInputs[k] IN
               input.name \in InputNames(e) =>
                 \A v \in ShapesIn(e.profiles[c][input.name].min, e.profiles[c][input.name].max) :
                   Conforms(cfg, BatchInputDims(cfg, input), v)
                     => SetBindingDimensions(e, st, c, input.name, v)

\* The sizes of the first dimension of an input, or those of the first value.
FirstSizes(e, c, n) ==
  LET bounds == e.profiles[c][n]
  IN  IF IsShape(e, n) THEN <<bounds.low[1], bounds.high[1]>> ELSE <<bounds.min[1], bounds.max[1]>>

\* The bounds of the first profile are those that the dimensions of the inputs
\* allow.
BoundsOfDims(e) ==
  /\ 1 \in DOMAIN e.profiles
  /\ \A n \in InputNames(e) :
       LET dims   == Tensor(e, n).dims
           bounds == e.profiles[1][n]
       IN  /\ Len(bounds.max) = Len(dims)
           /\ \A d \in DOMAIN dims :
                IF dims[d] = WILDCARD_DIM THEN bounds.min[d] <= bounds.max[d]
                ELSE bounds.min[d] = dims[d] /\ bounds.max[d] = dims[d]

\* Engines that a configuration can describe with a batch size: the inputs agree
\* on the sizes of the first dimension, outputs have one, shape tensors are on
\* the host and have one dimension that is known.
Describable(e) ==
  /\ BoundsOfDims(e)
  /\ \A k \in DOMAIN e.tensors :
       LET tensor == e.tensors[k] IN
       /\ tensor.dims # << >> /\ tensor.type \in TrtTypes /\ SetFormat(tensor)
       /\ tensor.shape =>
            /\ tensor.host
            /\ tensor.type = "INT64" \/ (tensor.input /\ tensor.type = "INT32")
            /\ Len(tensor.dims) = 1 /\ tensor.dims[1] > 0
  /\ \A n, o \in InputNames(e) :
       /\ FirstSizes(e, 1, n) = FirstSizes(e, 1, o)
       /\ FirstSizes(e, 1, n)[1] <= INT_MAX

\* The configuration of the model says nothing of its tensors: all inputs and
\* outputs are left to AutoCompleteConfig.
LeftToCompletion(m) ==
  LET cfg == world.config[m] IN
  /\ world.autoComplete[m] /\ cfg.maxBatch = 0
  /\ cfg.inputs = << >> /\ cfg.outputs = << >> /\ cfg.controls = << >> /\ cfg.states = << >>
  /\ cfg.batchInputs = << >> /\ cfg.batchOutputs = << >>
  /\ cfg.profiles = << >> /\ cfg.groupProfiles = {}

\* "Assuming the first dimension to be batch dimension": of an engine for which
\* this is so completion writes what ValidateIO and InitIOBindingBuffers accept,
\* and a model whose configuration says nothing of its tensors, with this engine
\* on every GPU, loads unless a call fails.
CompletedConfigLoads ==
  \A m \in world.loaded :
    /\ LeftToCompletion(m)
    /\ Describable(world.plan[m][FirstGPU[m]])
    /\ \A i \in Siblings(m) : PlanOf(i) = world.plan[m][FirstGPU[m]]
    /\ \E i \in Siblings(m) : at[i] = "failed" \/ (phase[m] = "gone" /\ at[i] = "absent")
    => faultsLeft < world.faults

\* Descriptions are looked at for hints up to the first ragged one, if any.
HasRagged(ios) == \E k \in DOMAIN ios : ios[k].ragged
Inspected(ios) == {k \in DOMAIN ios : \A l \in 1 .. k : ~ios[l].ragged}

\* The descriptions looked at say the same of batches, unless they say nothing,
\* and none of them gives the dims of a reshape and not those it is of.
Agreeing(e, ios, batch) ==
  \A k \in Inspected(ios) :
    LET io == ios[k] IN
    /\ io.dims = << >> => io.reshape = << >>
    /\ ConfigDims(io) # << >> => ShouldBatch(Tensor(e, io.name), ConfigDims(io)) = batch

HintsAgree(e, cfg) ==
  \E batch \in BOOLEAN :
    /\ HasRagged(cfg.inputs) \/ HasRagged(cfg.outputs) => batch
    /\ Agreeing(e, cfg.inputs, batch)
    /\ HasRagged(cfg.inputs) \/ Agreeing(e, cfg.outputs, batch)

\* Completing a completed configuration again, as when a model is reloaded with
\* the configuration Triton reports, changes nothing and is not refused.
CompletionStable ==
  \A m \in Models :
    /\ world.autoComplete[m] /\ phase[m] \in {"creating", "serving"}
    /\ HintsAgree(world.plan[m][FirstGPU[m]], world.config[m])
    => AutoCompleteConfigHelper(world.plan[m][FirstGPU[m]], config[m]) = Completed(config[m])

\* Every load comes to an end, whatever fails: ModelInitialize and all calls of
\* ModelInstanceInitialize return, also those that wait for the global lock.
LoadReturns ==
  \A m \in Models :
    phase[m] \in {"completing", "creating", "unloading"} ~> phase[m] \in {"serving", "gone"}
=============================================================================
