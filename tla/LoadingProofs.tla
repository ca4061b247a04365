---------------------------- MODULE LoadingProofs ----------------------------
(***************************************************************************)
(* Proofs that the invariants of ModelLoading about the lock, the engines  *)
(* and the runtimes hold for any number of models, instances, GPUs and     *)
(* threads, whatever the plans, the configurations and the errors are.     *)
(*                                                                         *)
(* The inductive invariant IInv says of every instance which steps of its  *)
(* creation its thread and its model can be in, and of every engine who    *)
(* made it, and for which place.                                           *)
(***************************************************************************)
EXTENDS ModelLoading, TLAPS

Dynamic(k) == IsDynamic(PlanOf(k))

\* CreateEngine's lock is held by the instance whose engine is being created.
LockInv == \A i \in Instances : at[i] = "creating" <=> global_context_mu = i

\* A thread that creates an instance is alone with it, and on its GPU.
TaskInv ==
  \A t \in Threads : task[t] \in Instances =>
    /\ at[task[t]] \in Busy
    /\ device[t] = PlaceOf[task[t]].gpu
    /\ \A u \in Threads : task[u] = task[t] => u = t

\* The instances a model has in each of its phases.
PhaseInv ==
  \A i \in Instances :
    /\ at[i] \in Busy => phase[ModelOf[i]] = "creating"
    /\ at[i] = "registered" => phase[ModelOf[i]] \in {"creating", "serving", "unloading"}
    /\ at[i] = "failed" => phase[ModelOf[i]] \in {"creating", "unloading"}

\* An instance has no engine and no thread before they are made and after it is
\* finalized.
IdleInv ==
  \A i \in Instances : at[i] \in {"absent", "streams", "creating", "finalized"} =>
    engine[i] = None /\ completion_thread[i] # "running"

\* The engine that is kept for a place was made there, with the runtime of the
\* place, and is not dynamic.
CachedInv ==
  \A m \in Models, p \in Places : \A k \in Instances : deviceEngine[m][p] = k =>
    /\ ModelOf[k] = m /\ PlaceOf[k] = p
    /\ ~Dynamic(k)
    /\ at[k] \notin {"absent", "streams", "creating"}
    /\ deviceRuntime[m][p] # None /\ deviceRuntime[m][p] = engineRuntime[k]

\* The engine that an instance holds was made for its place, by itself unless it
\* is not dynamic.
HeldInv ==
  \A i \in Instances : \A k \in Instances : engine[i] = k =>
    /\ ModelOf[k] = ModelOf[i] /\ PlaceOf[k] = PlaceOf[i]
    /\ k = i \/ ~Dynamic(k)
    /\ at[k] \notin {"absent", "streams", "creating"}

\* As long as the engines of a model are shared, that of the place is kept.
SharedInv ==
  \A i \in Instances :
    engine_sharing[ModelOf[i]] /\ phase[ModelOf[i]] # "gone" /\ engine[i] # None
      => deviceEngine[ModelOf[i]][PlaceOf[i]] = engine[i]

IInv ==
  /\ TypeOK /\ LockInv /\ TaskInv /\ PhaseInv /\ IdleInv /\ CachedInv /\ HeldInv
  /\ SharedInv /\ SharedWhileEnabled /\ RuntimeOutlivesEngine /\ OwnGPUOnly

-----------------------------------------------------------------------------
(***************************************************************************)
(* The steps, by what they are about: the phase of a model, its            *)
(* configuration, or an instance.                                          *)
(***************************************************************************)
PhaseStep(m) == ModelInitialize(m) \/ Serve(m) \/ GiveUp(m) \/ Unload(m)

CompletionStep(t, m) == AutoCompleteConfig(t, m) \/ ConfigCompleted(t, m) \/ ConfigNotCompleted(t, m)

\* The steps of Create but for those of CreateEngine, and the end of an instance.
InstanceStep(t, i) ==
  \/ InitStreamsAndEvents(t, i)
  \/ InitBindings(t, i) \/ InitBindingsFails(t, i)
  \/ RegisterInstance(t, i) \/ InitializeCudaGraphFails(t, i)
  \/ FinalizeInstance(t, i)

EngineStep(t, i) ==
  LockCreation(t, i) \/ ShareEngine(t, i) \/ CreateEngine(t, i) \/ CreateEngineFails(t, i)

LEMMA StepCases ==
  ASSUME [Next]_vars
  PROVE  \/ UNCHANGED vars
         \/ \E m \in Models : PhaseStep(m)
         \/ \E i \in Instances : AbandonInstance(i)
         \/ \E t \in Threads, m \in Models : CompletionStep(t, m) \/ FinalizeModel(t, m)
         \/ \E t \in Threads, i \in Instances : InstanceStep(t, i) \/ EngineStep(t, i)
BY DEF Next, Continue, Call, Conclude, Request, PhaseStep, CompletionStep, InstanceStep, EngineStep

\* Nothing changes what there is to load.
LEMMA WorldKept == [Next]_vars => UNCHANGED world
<1>1. ASSUME NEW m \in Models, PhaseStep(m) PROVE UNCHANGED world
  BY <1>1 DEF PhaseStep, ModelInitialize, Serve, GiveUp, Unload
<1>2. ASSUME NEW t \in Threads, NEW m \in Models, CompletionStep(t, m) \/ FinalizeModel(t, m)
      PROVE  UNCHANGED world
  BY <1>2 DEF CompletionStep, AutoCompleteConfig, ConfigCompleted, ConfigNotCompleted, FinalizeModel
<1>3. ASSUME NEW t \in Threads, NEW i \in Instances, InstanceStep(t, i) \/ EngineStep(t, i)
      PROVE  UNCHANGED world
  BY <1>3 DEF InstanceStep, EngineStep, InitStreamsAndEvents, InitBindings, InitBindingsFails,
              RegisterInstance, InitializeCudaGraphFails, FinalizeInstance, LockCreation,
              ShareEngine, CreateEngine, CreateEngineFails
<1>4. ASSUME NEW i \in Instances, AbandonInstance(i) PROVE UNCHANGED world
  BY <1>4 DEF AbandonInstance
<1> QED
  BY <1>1, <1>2, <1>3, <1>4, StepCases DEF vars

LEMMA PlaceTyped ==
  /\ None \notin Instances /\ None \notin Models /\ Instances \cap Models = {}
  /\ \A i \in Instances : ModelOf[i] \in Models /\ PlaceOf[i] \in Places /\ PlaceOf[i].gpu \in GPUs
  /\ \A m \in Models : FirstGPU[m] \in GPUs
BY NamesAssumption, ModelOfAssumption, FirstGPUAssumption DEF GPUs, Places

\* A function changed at one point keeps its type if the new value has it.
LEMMA UpdateTyped ==
  ASSUME NEW D, NEW R, NEW f \in [D -> R], NEW k, NEW v, k \in D => v \in R
  PROVE  [f EXCEPT ![k] = v] \in [D -> R]
OBVIOUS

\* A table of each model, changed at one place of one model.
LEMMA TableTyped ==
  ASSUME NEW M, NEW P, NEW R, NEW f \in [M -> [P -> R]], NEW m \in M, NEW p, NEW v \in R
  PROVE  [f EXCEPT ![m] = [@ EXCEPT ![p] = v]] \in [M -> [P -> R]]
OBVIOUS

-----------------------------------------------------------------------------
(***************************************************************************)
(* Types.                                                                  *)
(***************************************************************************)
Stages == Busy \cup {"absent", "registered", "failed", "finalized", "abandoned"}

LEMMA InitTypeOK == Init => TypeOK
<1> SUFFICES ASSUME Init PROVE TypeOK
  OBVIOUS
<1>1. device \in [Threads -> GPUs] /\ current_device \in [Threads -> GPUs]
  BY DevicesAssumption DEF Init
<1> QED
  BY <1>1 DEF Init, TypeOK, Created, Phases

LEMMA RuntimeTyped ==
  ASSUME TypeOK, NEW i \in Instances
  PROVE  RuntimeUsed(i) \in Created /\ EngineKept(i) \in Created /\ StillShared(i) \in BOOLEAN
BY PlaceTyped DEF TypeOK, RuntimeUsed, EngineKept, StillShared, Created

LEMMA SetRuntimeTyped ==
  ASSUME TypeOK, NEW i \in Instances, SetRuntime(i, RuntimeUsed(i))
  PROVE  deviceRuntime' \in [Models -> [Places -> Created]]
<1>1. /\ ModelOf[i] \in Models /\ PlaceOf[i] \in Places /\ RuntimeUsed(i) \in Created
      /\ deviceRuntime \in [Models -> [Places -> Created]]
  BY RuntimeTyped, PlaceTyped DEF TypeOK
<1>2. deviceRuntime' = [deviceRuntime EXCEPT ![ModelOf[i]] = [@ EXCEPT ![PlaceOf[i]] = RuntimeUsed(i)]]
  BY DEF SetRuntime
<1> QED
  BY <1>1, <1>2, TableTyped

LEMMA TouchTyped ==
  ASSUME TypeOK, NEW i \in Instances, NEW gpu \in GPUs, Touch(i, gpu)
  PROVE  touched' \in [Instances -> SUBSET GPUs]
BY DEF TypeOK, Touch

\* What an instance is at, and its thread, after an error.
LEMMA FailureTyped ==
  ASSUME TypeOK, NEW t \in Threads, NEW i \in Instances, CreateFails(t, i)
  PROVE  at' \in [Instances -> Stages] /\ task' \in [Threads -> Created \cup Models]
BY UpdateTyped DEF TypeOK, CreateFails, Created, Stages

LEMMA TypeStep ==
  ASSUME TypeOK, [Next]_vars
  PROVE  TypeOK'
<1>1. ASSUME NEW m \in Models, PhaseStep(m) PROVE TypeOK'
  BY <1>1, UpdateTyped
  DEF TypeOK, PhaseStep, ModelInitialize, Serve, GiveUp, Unload, Phases, Created,
      engineVars, instanceVars, threadVars
<1>2. ASSUME NEW t \in Threads, NEW m \in Models, CompletionStep(t, m) PROVE TypeOK'
  <2>1. phase' \in [Models -> Phases]
    <3>1. \E v \in Phases : phase' = [phase EXCEPT ![m] = v]
      BY <1>2 DEF CompletionStep, AutoCompleteConfig, ConfigCompleted, ConfigNotCompleted, Phases
    <3> QED
      BY <3>1, UpdateTyped DEF TypeOK
  <2>2. task' \in [Threads -> Created \cup Models]
    BY <1>2 DEF TypeOK, CompletionStep, AutoCompleteConfig, ConfigCompleted, ConfigNotCompleted, Created
  <2>3. device' \in [Threads -> GPUs] /\ current_device' \in [Threads -> GPUs]
    <3>1. /\ \E v \in GPUs : device' = [device EXCEPT ![t] = v] \/ device' = device
          /\ \E v \in GPUs : current_device' = [current_device EXCEPT ![t] = v]
                             \/ current_device' = current_device
      BY <1>2, PlaceTyped
      DEF TypeOK, CompletionStep, AutoCompleteConfig, ConfigCompleted, ConfigNotCompleted
    <3>2. device \in [Threads -> GPUs] /\ current_device \in [Threads -> GPUs]
      BY DEF TypeOK
    <3> QED
      BY <3>1, <3>2
  <2>4. UNCHANGED <<engineVars, instanceVars, global_context_mu>>
    BY <1>2 DEF CompletionStep, AutoCompleteConfig, ConfigCompleted, ConfigNotCompleted
  <2> QED
    BY <2>1, <2>2, <2>3, <2>4 DEF TypeOK, engineVars, instanceVars, Created, Phases
<1>3. ASSUME NEW t \in Threads, NEW m \in Models, FinalizeModel(t, m) PROVE TypeOK'
  <2>1. phase' \in [Models -> Phases]
    BY <1>3 DEF TypeOK, FinalizeModel, Phases
  <2>2. /\ deviceEngine' \in [Models -> [Places -> Created]]
        /\ deviceRuntime' \in [Models -> [Places -> Created]]
    BY <1>3 DEF TypeOK, FinalizeModel, Created
  <2>3. device' \in [Threads -> GPUs]
    BY <1>3, PlaceTyped DEF TypeOK, FinalizeModel, Siblings
  <2> QED
    BY <1>3, <2>1, <2>2, <2>3 DEF TypeOK, FinalizeModel, instanceVars, Created, Phases
<1>4. ASSUME NEW i \in Instances, AbandonInstance(i) PROVE TypeOK'
  BY <1>4, UpdateTyped DEF TypeOK, AbandonInstance, modelVars, engineVars, threadVars, Created, Phases
<1>5. ASSUME NEW t \in Threads, NEW i \in Instances, InitStreamsAndEvents(t, i) PROVE TypeOK'
  <2>1. StreamDevice(t, i) \in GPUs
    BY PlaceTyped DEF StreamDevice
  <2>2. touched' \in [Instances -> SUBSET GPUs] /\ device' \in [Threads -> GPUs]
    BY <1>5, <2>1, TouchTyped DEF TypeOK, InitStreamsAndEvents
  <2>3. at' \in [Instances -> Stages] /\ task' \in [Threads -> Created \cup Models]
    <3>1. /\ \E v \in Stages : at' = [at EXCEPT ![i] = v]
          /\ task' = [task EXCEPT ![t] = i] \/ task' = task
      BY <1>5 DEF InitStreamsAndEvents, Stages, Busy
    <3> QED
      BY <3>1, UpdateTyped DEF TypeOK, Stages, Created
  <2> QED
    BY <1>5, <2>2, <2>3 DEF TypeOK, InitStreamsAndEvents, Stages, modelVars, engineVars, Created, Phases
<1>6. ASSUME NEW t \in Threads, NEW i \in Instances, LockCreation(t, i) PROVE TypeOK'
  <2>1. at' \in [Instances -> Stages] /\ global_context_mu' \in Created
    BY <1>6, UpdateTyped DEF TypeOK, LockCreation, Stages, Busy, Created
  <2> QED
    BY <1>6, <2>1 DEF TypeOK, LockCreation, Stages, modelVars, engineVars, threadVars
<1>7. ASSUME NEW t \in Threads, NEW i \in Instances, ShareEngine(t, i) PROVE TypeOK'
  <2>1. at' \in [Instances -> Stages] /\ global_context_mu' \in Created
    BY <1>7, UpdateTyped DEF TypeOK, ShareEngine, Stages, Busy, Created
  <2>2. engine' \in [Instances -> Created]
    BY <1>7, PlaceTyped, UpdateTyped DEF TypeOK, ShareEngine
  <2> QED
    BY <1>7, <2>1, <2>2 DEF TypeOK, ShareEngine, Stages, modelVars, engineVars, threadVars
<1>8. ASSUME NEW t \in Threads, NEW i \in Instances, CreateEngine(t, i) PROVE TypeOK'
  <2>1. at' \in [Instances -> Stages] /\ global_context_mu' \in Created
    BY <1>8, UpdateTyped DEF TypeOK, CreateEngine, Stages, Busy, Created
  <2>2. engine' \in [Instances -> Created] /\ engineRuntime' \in [Instances -> Created]
    BY <1>8, RuntimeTyped, UpdateTyped DEF TypeOK, CreateEngine, Created
  <2>3. /\ deviceEngine' \in [Models -> [Places -> Created]]
        /\ deviceRuntime' \in [Models -> [Places -> Created]]
    BY <1>8, RuntimeTyped, SetRuntimeTyped, PlaceTyped, TableTyped DEF TypeOK, CreateEngine
  <2>4. touched' \in [Instances -> SUBSET GPUs] /\ device' \in [Threads -> GPUs]
    BY <1>8, PlaceTyped, TouchTyped DEF TypeOK, CreateEngine
  <2>5. engine_sharing' \in [Models -> BOOLEAN]
    BY <1>8, RuntimeTyped, PlaceTyped, UpdateTyped DEF TypeOK, CreateEngine
  <2> QED
    BY <1>8, <2>1, <2>2, <2>3, <2>4, <2>5 DEF TypeOK, CreateEngine, Stages, modelVars
<1>9. ASSUME NEW t \in Threads, NEW i \in Instances, CreateEngineFails(t, i) PROVE TypeOK'
  <2>1. at' \in [Instances -> Stages] /\ task' \in [Threads -> Created \cup Models]
    BY <1>9, FailureTyped DEF CreateEngineFails
  <2>2. deviceRuntime' \in [Models -> [Places -> Created]]
    BY <1>9, SetRuntimeTyped DEF TypeOK, CreateEngineFails
  <2>3. device' \in [Threads -> GPUs] /\ global_context_mu' \in Created
    BY <1>9, PlaceTyped DEF TypeOK, CreateEngineFails, LockAfterError, Created
  <2> QED
    BY <1>9, <2>1, <2>2, <2>3 DEF TypeOK, CreateEngineFails, Stages, modelVars
<1>10. ASSUME NEW t \in Threads, NEW i \in Instances, InitBindings(t, i) PROVE TypeOK'
  <2>1. at' \in [Instances -> Stages] /\ completion_thread' \in [Instances -> {"none", "running", "joined"}]
    BY <1>10, UpdateTyped DEF TypeOK, InitBindings, Stages, Busy
  <2>2. touched' \in [Instances -> SUBSET GPUs]
    BY <1>10, TouchTyped DEF TypeOK, InitBindings
  <2> QED
    BY <1>10, <2>1, <2>2 DEF TypeOK, InitBindings, Stages, modelVars, engineVars, threadVars
<1>11. ASSUME NEW t \in Threads, NEW i \in Instances, InitBindingsFails(t, i) PROVE TypeOK'
  <2>1. at' \in [Instances -> Stages] /\ task' \in [Threads -> Created \cup Models]
    BY <1>11, FailureTyped DEF InitBindingsFails
  <2>2. touched' \in [Instances -> SUBSET GPUs]
    BY <1>11, TouchTyped DEF TypeOK, InitBindingsFails
  <2> QED
    BY <1>11, <2>1, <2>2 DEF TypeOK, InitBindingsFails, Stages, modelVars, engineVars
<1>12. ASSUME NEW t \in Threads, NEW i \in Instances, RegisterInstance(t, i) PROVE TypeOK'
  <2>1. at' \in [Instances -> Stages] /\ task' \in [Threads -> Created \cup Models]
    BY <1>12, UpdateTyped DEF TypeOK, RegisterInstance, Stages, Created
  <2> QED
    BY <1>12, <2>1 DEF TypeOK, RegisterInstance, Stages, modelVars, engineVars
<1>13. ASSUME NEW t \in Threads, NEW i \in Instances, InitializeCudaGraphFails(t, i) PROVE TypeOK'
  <2>1. at' \in [Instances -> Stages] /\ task' \in [Threads -> Created \cup Models]
    BY <1>13, FailureTyped DEF InitializeCudaGraphFails
  <2> QED
    BY <1>13, <2>1 DEF TypeOK, InitializeCudaGraphFails, Stages, modelVars, engineVars
<1>14. ASSUME NEW t \in Threads, NEW i \in Instances, FinalizeInstance(t, i) PROVE TypeOK'
  <2>1. at' \in [Instances -> Stages] /\ engine' \in [Instances -> Created]
    BY <1>14, UpdateTyped DEF TypeOK, FinalizeInstance, Stages, Created
  <2>2. completion_thread' \in [Instances -> {"none", "running", "joined"}]
    BY <1>14 DEF TypeOK, FinalizeInstance, ThreadAfter
  <2>3. touched' \in [Instances -> SUBSET GPUs] /\ device' \in [Threads -> GPUs]
    BY <1>14, PlaceTyped, TouchTyped DEF TypeOK, FinalizeInstance
  <2> QED
    BY <1>14, <2>1, <2>2, <2>3 DEF TypeOK, FinalizeInstance, Stages, modelVars, engineVars
<1>15. CASE UNCHANGED vars
  BY <1>15 DEF TypeOK, vars, modelVars, engineVars, instanceVars, threadVars, Created, Phases
<1> QED
  BY <1>1, <1>2, <1>3, <1>4, <1>5, <1>6, <1>7, <1>8, <1>9, <1>10, <1>11, <1>12, <1>13, <1>14,
     <1>15, StepCases DEF InstanceStep, EngineStep

-----------------------------------------------------------------------------
(***************************************************************************)
(* What the steps do to at, task and the lock.                             *)
(***************************************************************************)
\* Only its own steps move an instance, and each of them moves it on.
LEMMA InstanceMoves ==
  ASSUME NEW t \in Threads, NEW i \in Instances, InstanceStep(t, i)
  PROVE  /\ UNCHANGED global_context_mu
         /\ at[i] \in {"absent", "engine", "bound", "registered"}
         /\ \E v \in Stages \ {"absent", "creating", "engine", "abandoned"} :
              at' = [at EXCEPT ![i] = v] /\ (v = "streams" => at[i] = "absent")
<1>1. CASE InitStreamsAndEvents(t, i)
  BY <1>1 DEF InitStreamsAndEvents, Stages, Busy
<1>2. CASE InitBindings(t, i) \/ RegisterInstance(t, i)
  BY <1>2 DEF InitBindings, RegisterInstance, Stages, Busy
<1>3. CASE InitBindingsFails(t, i) \/ InitializeCudaGraphFails(t, i)
  BY <1>3 DEF InitBindingsFails, InitializeCudaGraphFails, CreateFails, Stages
<1>4. CASE FinalizeInstance(t, i)
  <2>1. /\ UNCHANGED global_context_mu
        /\ at[i] = "registered" /\ at' = [at EXCEPT ![i] = "finalized"]
    BY <1>4 DEF FinalizeInstance
  <2>2. "finalized" \in Stages \ {"absent", "creating", "engine", "abandoned"} /\ "finalized" # "streams"
    BY DEF Stages
  <2> QED
    BY <2>1, <2>2
<1> QED
  BY <1>1, <1>2, <1>3, <1>4 DEF InstanceStep

LEMMA EngineMoves ==
  ASSUME NEW t \in Threads, NEW i \in Instances, EngineStep(t, i)
  PROVE  /\ task[t] = i
         /\ \/ /\ LockCreation(t, i)
               /\ at[i] = "streams" /\ at' = [at EXCEPT ![i] = "creating"] /\ task' = task
               /\ global_context_mu = None /\ global_context_mu' = i
            \/ /\ ShareEngine(t, i) \/ CreateEngine(t, i)
               /\ at[i] = "creating" /\ at' = [at EXCEPT ![i] = "engine"] /\ task' = task
               /\ global_context_mu' = None
            \/ /\ CreateEngineFails(t, i)
               /\ at[i] = "creating" /\ at' = [at EXCEPT ![i] = "failed"]
               /\ task' = [task EXCEPT ![t] = None]
               /\ global_context_mu' = None
BY DEF EngineStep, LockCreation, ShareEngine, CreateEngine, CreateEngineFails, CreateFails,
       LockAfterError, threadVars

\* Stages about models leave the instances and the lock alone.
LEMMA ModelMoves ==
  ASSUME \/ \E m \in Models : PhaseStep(m)
         \/ \E t \in Threads, m \in Models : CompletionStep(t, m) \/ FinalizeModel(t, m)
  PROVE  UNCHANGED <<instanceVars, global_context_mu>>
BY DEF PhaseStep, ModelInitialize, Serve, GiveUp, Unload, CompletionStep, AutoCompleteConfig,
       ConfigCompleted, ConfigNotCompleted, FinalizeModel

-----------------------------------------------------------------------------
(***************************************************************************)
(* The lock.                                                               *)
(***************************************************************************)
LEMMA LockStep ==
  ASSUME TypeOK, LockInv, [Next]_vars
  PROVE  LockInv'
<1>1. CASE UNCHANGED <<at, global_context_mu>>
  BY <1>1 DEF LockInv
<1>2. ASSUME NEW t \in Threads, NEW i \in Instances, InstanceStep(t, i) PROVE LockInv'
  BY <1>2, InstanceMoves DEF TypeOK, LockInv
<1>3. ASSUME NEW t \in Threads, NEW i \in Instances, EngineStep(t, i) PROVE LockInv'
  BY <1>3, EngineMoves, PlaceTyped DEF TypeOK, LockInv
<1>4. ASSUME NEW i \in Instances, AbandonInstance(i) PROVE LockInv'
  BY <1>4 DEF TypeOK, LockInv, AbandonInstance
<1>5. UNCHANGED vars => UNCHANGED <<at, global_context_mu>>
  BY DEF vars, instanceVars
<1> QED
  BY <1>1, <1>2, <1>3, <1>4, <1>5, ModelMoves, StepCases DEF instanceVars

-----------------------------------------------------------------------------
(***************************************************************************)
(* Threads and the instances they create.                                  *)
(***************************************************************************)
\* A thread that ends its call leaves the others as they are.
LEMMA ReturnTask ==
  ASSUME TypeOK, TaskInv, NEW t \in Threads, NEW i \in Instances, task[t] = i,
         task' = [task EXCEPT ![t] = None], NEW v, at' = [at EXCEPT ![i] = v],
         NEW g \in GPUs, device' = [device EXCEPT ![t] = g]
  PROVE  TaskInv'
<1> SUFFICES ASSUME NEW u \in Threads, task'[u] \in Instances
             PROVE  /\ at'[task'[u]] \in Busy
                    /\ device'[u] = PlaceOf[task'[u]].gpu
                    /\ \A w \in Threads : task'[w] = task'[u] => w = u
  BY DEF TaskInv
<1>1. u # t /\ task'[u] = task[u]
  BY PlaceTyped DEF TypeOK
<1>2. task[u] # i
  BY <1>1 DEF TaskInv
<1>3. at'[task[u]] = at[task[u]] /\ device'[u] = device[u]
  BY <1>1, <1>2 DEF TypeOK
<1>4. \A w \in Threads : task'[w] = task[w] \/ task'[w] = None
  BY DEF TypeOK
<1> QED
  BY <1>1, <1>3, <1>4, PlaceTyped DEF TaskInv

\* A call goes on with its instance.
LEMMA KeepTask ==
  ASSUME TypeOK, TaskInv, NEW t \in Threads, NEW i \in Instances, task[t] = i, task' = task,
         NEW v \in Busy, at' = [at EXCEPT ![i] = v],
         device' = device \/ device' = [device EXCEPT ![t] = PlaceOf[i].gpu]
  PROVE  TaskInv'
<1>1. \A k \in Instances : at[k] \in Busy => at'[k] \in Busy
  BY DEF TypeOK
<1>2. \A u \in Threads : task[u] \in Instances => device'[u] = PlaceOf[task[u]].gpu
  BY DEF TypeOK, TaskInv
<1> QED
  BY <1>1, <1>2 DEF TaskInv

LEMMA TaskStep ==
  ASSUME TypeOK, TaskInv, [Next]_vars
  PROVE  TaskInv'
<1>0. device \in [Threads -> GPUs] /\ task \in [Threads -> Created \cup Models]
  BY DEF TypeOK
<1>1. CASE UNCHANGED <<at, task, device>>
  BY <1>1 DEF TaskInv
<1>2. ASSUME NEW t \in Threads, NEW m \in Models, CompletionStep(t, m) PROVE TaskInv'
  <2>1. /\ at' = at
        /\ task[t] \notin Instances
        /\ \E v \in Models \cup {None} : task' = [task EXCEPT ![t] = v]
        /\ device' = device \/ \E g \in GPUs : device' = [device EXCEPT ![t] = g]
    BY <1>0, <1>2, PlaceTyped
    DEF CompletionStep, AutoCompleteConfig, ConfigCompleted, ConfigNotCompleted, instanceVars, TypeOK
  <2>2. \A u \in Threads : task'[u] \in Instances => u # t /\ task'[u] = task[u] /\ device'[u] = device[u]
    BY <1>0, <2>1, PlaceTyped
  <2>3. \A u \in Threads : task[u] \in Instances => u # t
    BY <2>1
  <2> QED
    BY <2>1, <2>2, <2>3 DEF TaskInv
<1>3. ASSUME NEW t \in Threads, NEW m \in Models, FinalizeModel(t, m) PROVE TaskInv'
  <2>1. /\ task[t] = None /\ task' = task /\ at' = at
        /\ device' = device \/ \E g \in GPUs : device' = [device EXCEPT ![t] = g]
    BY <1>3, PlaceTyped DEF FinalizeModel, instanceVars, Siblings
  <2>2. \A u \in Threads : task[u] \in Instances => device'[u] = device[u]
    BY <1>0, <2>1, PlaceTyped
  <2> QED
    BY <2>1, <2>2 DEF TaskInv
<1>4. ASSUME NEW i \in Instances, AbandonInstance(i) PROVE TaskInv'
  BY <1>4 DEF TypeOK, TaskInv, AbandonInstance, threadVars, Busy
<1>5. ASSUME NEW t \in Threads, NEW i \in Instances, InitStreamsAndEvents(t, i) PROVE TaskInv'
  <2>1. /\ task[t] = None /\ at[i] = "absent"
        /\ \/ /\ at' = [at EXCEPT ![i] = "streams"] /\ task' = [task EXCEPT ![t] = i]
              /\ device' = [device EXCEPT ![t] = PlaceOf[i].gpu]
           \/ /\ at' = [at EXCEPT ![i] = "failed"] /\ task' = task
              /\ device' = device \/ device' = [device EXCEPT ![t] = PlaceOf[i].gpu]
    BY <1>5 DEF InitStreamsAndEvents, StreamDevice
  <2>2. \A u \in Threads : task[u] # i
    BY <2>1 DEF TaskInv, Busy
  <2>3. \A u \in Threads : u # t =>
          /\ task'[u] = task[u] /\ device'[u] = device[u]
          /\ task[u] \in Instances => at'[task[u]] = at[task[u]]
    BY <1>0, <2>1, <2>2 DEF TypeOK
  <2>4. \/ task'[t] = None
        \/ task'[t] = i /\ at'[i] = "streams" /\ device'[t] = PlaceOf[i].gpu
    BY <1>0, <2>1 DEF TypeOK
  <2> QED
    BY <2>2, <2>3, <2>4, PlaceTyped DEF TaskInv, Busy
<1>6. ASSUME NEW t \in Threads, NEW i \in Instances,
             LockCreation(t, i) \/ ShareEngine(t, i) \/ CreateEngine(t, i) \/ InitBindings(t, i)
      PROVE  TaskInv'
  <2>1. /\ task[t] = i /\ task' = task
        /\ \E v \in Busy : at' = [at EXCEPT ![i] = v]
        /\ device' = device \/ device' = [device EXCEPT ![t] = PlaceOf[i].gpu]
    BY <1>6 DEF LockCreation, ShareEngine, CreateEngine, InitBindings, threadVars, Busy
  <2>2. PICK v \in Busy : at' = [at EXCEPT ![i] = v]
    BY <2>1
  <2> QED
    BY <2>1, <2>2, KeepTask, Zenon
<1>7. ASSUME NEW t \in Threads, NEW i \in Instances,
             \/ CreateEngineFails(t, i) \/ InitBindingsFails(t, i)
             \/ RegisterInstance(t, i) \/ InitializeCudaGraphFails(t, i)
      PROVE  TaskInv'
  <2>1. /\ task[t] = i /\ task' = [task EXCEPT ![t] = None]
        /\ \E v \in Stages : at' = [at EXCEPT ![i] = v]
        /\ device' = device \/ device' = [device EXCEPT ![t] = PlaceOf[i].gpu]
    BY <1>7 DEF CreateEngineFails, InitBindingsFails, RegisterInstance, InitializeCudaGraphFails,
                CreateFails, Stages
  <2>2. PICK g \in GPUs : device' = [device EXCEPT ![t] = g]
    BY <1>0, <2>1, PlaceTyped
  <2>3. PICK v \in Stages : at' = [at EXCEPT ![i] = v]
    BY <2>1
  <2> QED
    BY <2>1, <2>2, <2>3, ReturnTask, Zenon
<1>8. ASSUME NEW t \in Threads, NEW i \in Instances, FinalizeInstance(t, i) PROVE TaskInv'
  <2>1. /\ task[t] = None /\ task' = task
        /\ at[i] = "registered" /\ at' = [at EXCEPT ![i] = "finalized"]
        /\ device' = [device EXCEPT ![t] = PlaceOf[i].gpu]
    BY <1>8 DEF FinalizeInstance
  <2>2. \A u \in Threads : task[u] \in Instances =>
          task[u] # i /\ device'[u] = device[u] /\ at'[task[u]] = at[task[u]]
    BY <1>0, <2>1, PlaceTyped DEF TaskInv, TypeOK, Busy
  <2> QED
    BY <2>1, <2>2 DEF TaskInv
<1>9. ASSUME NEW m \in Models, PhaseStep(m) PROVE TaskInv'
  BY <1>1, <1>9
  DEF PhaseStep, ModelInitialize, Serve, GiveUp, Unload, instanceVars, threadVars
<1>10. UNCHANGED vars => UNCHANGED <<at, task, device>>
  BY DEF vars, instanceVars, threadVars
<1> QED
  BY <1>1, <1>2, <1>3, <1>4, <1>5, <1>6, <1>7, <1>8, <1>9, <1>10, StepCases DEF InstanceStep, EngineStep

-----------------------------------------------------------------------------
(***************************************************************************)
(* Phases and instances.                                                   *)
(***************************************************************************)
LEMMA InstancePhase ==
  ASSUME NEW t \in Threads, NEW i \in Instances, InstanceStep(t, i) \/ EngineStep(t, i)
  PROVE  phase' = phase
BY DEF InstanceStep, EngineStep, InitStreamsAndEvents, InitBindings, InitBindingsFails, RegisterInstance,
       InitializeCudaGraphFails, FinalizeInstance, LockCreation, ShareEngine, CreateEngine,
       CreateEngineFails, modelVars

LEMMA PhaseStepInv ==
  ASSUME TypeOK, PhaseInv, [Next]_vars
  PROVE  PhaseInv'
<1>0. /\ phase \in [Models -> Phases] /\ at \in [Instances -> Stages]
      /\ \A i \in Instances : ModelOf[i] \in Models
  BY PlaceTyped DEF TypeOK, Stages
<1>1. ASSUME NEW m \in Models, PhaseStep(m) PROVE PhaseInv'
  <2>1. at' = at
    BY <1>1 DEF PhaseStep, ModelInitialize, Serve, GiveUp, Unload, instanceVars
  <2>2. CASE ModelInitialize(m) \/ Unload(m)
    BY <1>0, <2>1, <2>2 DEF PhaseInv, ModelInitialize, Unload
  <2>3. CASE Serve(m)
    <3>1. \A i \in Instances : ModelOf[i] = m => at[i] \notin Busy \cup {"failed"}
      BY <2>3 DEF Serve, Siblings, Busy
    <3> QED
      BY <1>0, <2>1, <2>3, <3>1 DEF PhaseInv, Serve
  <2>4. CASE GiveUp(m)
    BY <1>0, <2>1, <2>4 DEF PhaseInv, GiveUp, Siblings
  <2> QED
    BY <1>1, <2>2, <2>3, <2>4 DEF PhaseStep
<1>2. ASSUME NEW t \in Threads, NEW m \in Models, CompletionStep(t, m) PROVE PhaseInv'
  <2>1. /\ at' = at
        /\ phase[m] \in {"absent", "completing"}
        /\ \E v \in Phases : phase' = [phase EXCEPT ![m] = v]
    BY <1>2 DEF CompletionStep, AutoCompleteConfig, ConfigCompleted, ConfigNotCompleted, instanceVars, Phases
  <2>2. \A i \in Instances : ModelOf[i] = m => at[i] \notin Busy \cup {"registered", "failed"}
    BY <2>1 DEF PhaseInv
  <2> QED
    BY <1>0, <2>1, <2>2 DEF PhaseInv
<1>3. ASSUME NEW t \in Threads, NEW m \in Models, FinalizeModel(t, m) PROVE PhaseInv'
  <2>1. at' = at /\ phase' = [phase EXCEPT ![m] = "gone"]
    BY <1>3 DEF FinalizeModel, instanceVars
  <2>2. \A i \in Instances : ModelOf[i] = m => at[i] \notin Busy \cup {"registered", "failed"}
    BY <1>3 DEF FinalizeModel, Siblings, Busy
  <2> QED
    BY <1>0, <2>1, <2>2 DEF PhaseInv
<1>4. ASSUME NEW i \in Instances, AbandonInstance(i) PROVE PhaseInv'
  BY <1>0, <1>4 DEF PhaseInv, AbandonInstance, modelVars, Busy
<1>5. ASSUME NEW t \in Threads, NEW i \in Instances, InitStreamsAndEvents(t, i) PROVE PhaseInv'
  BY <1>0, <1>5 DEF PhaseInv, InitStreamsAndEvents, modelVars
<1>6. ASSUME NEW t \in Threads, NEW i \in Instances,
             \/ InitBindings(t, i) \/ InitBindingsFails(t, i)
             \/ RegisterInstance(t, i) \/ InitializeCudaGraphFails(t, i)
             \/ EngineStep(t, i)
      PROVE  PhaseInv'
  <2>1. /\ phase' = phase
        /\ at[i] \in Busy
        /\ \E v \in Busy \cup {"registered", "failed"} : at' = [at EXCEPT ![i] = v]
    <3>1. CASE EngineStep(t, i)
      BY <3>1, EngineMoves, InstancePhase DEF Busy
    <3>2. CASE InitBindings(t, i) \/ RegisterInstance(t, i)
      BY <3>2, InstancePhase DEF InstanceStep, InitBindings, RegisterInstance, Busy
    <3>3. CASE InitBindingsFails(t, i) \/ InitializeCudaGraphFails(t, i)
      BY <3>3, InstancePhase DEF InstanceStep, InitBindingsFails, InitializeCudaGraphFails, CreateFails, Busy
    <3> QED
      BY <1>6, <3>1, <3>2, <3>3
  <2>2. phase[ModelOf[i]] = "creating"
    BY <2>1 DEF PhaseInv
  <2> QED
    BY <1>0, <2>1, <2>2 DEF PhaseInv
<1>7. ASSUME NEW t \in Threads, NEW i \in Instances, FinalizeInstance(t, i) PROVE PhaseInv'
  BY <1>0, <1>7 DEF PhaseInv, FinalizeInstance, modelVars, Busy
<1>8. CASE UNCHANGED vars
  BY <1>8 DEF PhaseInv, vars, modelVars, instanceVars
<1> QED
  BY <1>1, <1>2, <1>3, <1>4, <1>5, <1>6, <1>7, <1>8, StepCases DEF InstanceStep

LEMMA IdleStep ==
  ASSUME TypeOK, IdleInv, [Next]_vars
  PROVE  IdleInv'
<1>0. /\ at \in [Instances -> Stages] /\ engine \in [Instances -> Created]
      /\ completion_thread \in [Instances -> {"none", "running", "joined"}]
  BY DEF TypeOK, Stages
<1>1. CASE UNCHANGED instanceVars
  BY <1>1 DEF IdleInv, instanceVars
<1>2. ASSUME NEW i \in Instances, AbandonInstance(i) PROVE IdleInv'
  BY <1>0, <1>2 DEF IdleInv, AbandonInstance
<1>3. ASSUME NEW t \in Threads, NEW i \in Instances, InitStreamsAndEvents(t, i) PROVE IdleInv'
  BY <1>0, <1>3 DEF IdleInv, InitStreamsAndEvents
<1>4. ASSUME NEW t \in Threads, NEW i \in Instances, InitBindings(t, i) PROVE IdleInv'
  BY <1>0, <1>4 DEF IdleInv, InitBindings
<1>5. ASSUME NEW t \in Threads, NEW i \in Instances,
             InitBindingsFails(t, i) \/ RegisterInstance(t, i) \/ InitializeCudaGraphFails(t, i)
      PROVE  IdleInv'
  BY <1>0, <1>5 DEF IdleInv, InitBindingsFails, RegisterInstance, InitializeCudaGraphFails, CreateFails
<1>6. ASSUME NEW t \in Threads, NEW i \in Instances, FinalizeInstance(t, i) PROVE IdleInv'
  <2>1. /\ engine'[i] = None /\ completion_thread'[i] # "running"
        /\ \A j \in Instances : j # i =>
             at'[j] = at[j] /\ engine'[j] = engine[j] /\ completion_thread'[j] = completion_thread[j]
    BY <1>0, <1>6 DEF FinalizeInstance, ThreadAfter
  <2> QED
    BY <2>1 DEF IdleInv
<1>7. ASSUME NEW t \in Threads, NEW i \in Instances, LockCreation(t, i) PROVE IdleInv'
  BY <1>0, <1>7 DEF IdleInv, LockCreation
<1>8. ASSUME NEW t \in Threads, NEW i \in Instances,
             ShareEngine(t, i) \/ CreateEngine(t, i) \/ CreateEngineFails(t, i)
      PROVE  IdleInv'
  <2>1. /\ completion_thread' = completion_thread
        /\ at'[i] \in {"engine", "failed"}
        /\ \A j \in Instances : j # i => at'[j] = at[j] /\ engine'[j] = engine[j]
    BY <1>0, <1>8 DEF ShareEngine, CreateEngine, CreateEngineFails, CreateFails
  <2> QED
    BY <2>1 DEF IdleInv
<1>9. UNCHANGED vars => UNCHANGED instanceVars
  BY DEF vars
<1> QED
  BY <1>1, <1>2, <1>3, <1>4, <1>5, <1>6, <1>7, <1>8, <1>9, ModelMoves, StepCases DEF InstanceStep, EngineStep

-----------------------------------------------------------------------------
(***************************************************************************)
(* The GPUs.                                                               *)
(***************************************************************************)
LEMMA TouchOwn ==
  ASSUME TypeOK, OwnGPUOnly, NEW i \in Instances, Touch(i, PlaceOf[i].gpu)
  PROVE  OwnGPUOnly'
BY DEF TypeOK, OwnGPUOnly, Touch

LEMMA GPUStep ==
  ASSUME TypeOK, TaskInv, OwnGPUOnly, [Next]_vars
  PROVE  OwnGPUOnly'
<1>1. CASE UNCHANGED touched
  BY <1>1 DEF OwnGPUOnly
<1>2. ASSUME NEW t \in Threads, NEW i \in Instances,
             InitStreamsAndEvents(t, i) \/ CreateEngine(t, i) \/ FinalizeInstance(t, i)
      PROVE  OwnGPUOnly'
  <2>1. UNCHANGED touched \/ Touch(i, PlaceOf[i].gpu)
    BY <1>2 DEF InitStreamsAndEvents, CreateEngine, FinalizeInstance, StreamDevice
  <2> QED
    BY <1>1, <2>1, TouchOwn
<1>3. ASSUME NEW t \in Threads, NEW i \in Instances, InitBindings(t, i) \/ InitBindingsFails(t, i)
      PROVE  OwnGPUOnly'
  <2>1. task[t] = i /\ Touch(i, device[t])
    BY <1>3 DEF InitBindings, InitBindingsFails
  <2>2. device[t] = PlaceOf[i].gpu
    BY <2>1 DEF TaskInv
  <2> QED
    BY <2>1, <2>2, TouchOwn
<1>4. ASSUME NEW t \in Threads, NEW i \in Instances,
             \/ RegisterInstance(t, i) \/ InitializeCudaGraphFails(t, i)
             \/ LockCreation(t, i) \/ ShareEngine(t, i) \/ CreateEngineFails(t, i)
      PROVE  OwnGPUOnly'
  BY <1>1, <1>4 DEF RegisterInstance, InitializeCudaGraphFails, LockCreation, ShareEngine,
                    CreateEngineFails
<1>5. ASSUME NEW i \in Instances, AbandonInstance(i) PROVE OwnGPUOnly'
  BY <1>1, <1>5 DEF AbandonInstance
<1>6. UNCHANGED vars => UNCHANGED touched
  BY DEF vars, instanceVars
<1> QED
  BY <1>1, <1>2, <1>3, <1>4, <1>5, <1>6, ModelMoves, StepCases DEF InstanceStep, EngineStep, instanceVars

-----------------------------------------------------------------------------
(***************************************************************************)
(* Engines and runtimes.                                                   *)
(***************************************************************************)
LEMMA DynamicKept == [Next]_vars => \A k \in Instances : Dynamic(k)' <=> Dynamic(k)
BY WorldKept DEF Dynamic, PlanOf

\* The engine of an instance stays made, and an abandoned one stays abandoned.
Unmade == {"absent", "streams", "creating"}

LEMMA MadeKept ==
  ASSUME TypeOK, [Next]_vars, NEW k \in Instances
  PROVE  /\ at[k] \notin Unmade => at'[k] \notin Unmade
         /\ at[k] = "abandoned" => at'[k] = "abandoned"
<1>0. at \in [Instances -> Stages]
  BY DEF TypeOK, Stages
<1>1. ASSUME NEW t \in Threads, NEW i \in Instances, InstanceStep(t, i)
      PROVE  /\ at[i] # "abandoned"
             /\ at'[i] \notin Unmade \/ at[i] = "absent"
             /\ \A j \in Instances : j # i => at'[j] = at[j]
  BY <1>0, <1>1, InstanceMoves DEF Unmade
<1>2. ASSUME NEW t \in Threads, NEW i \in Instances, EngineStep(t, i)
      PROVE  /\ at[i] \in Unmade
             /\ \A j \in Instances : j # i => at'[j] = at[j]
  BY <1>0, <1>2, EngineMoves DEF Unmade
<1>3. ASSUME NEW i \in Instances, AbandonInstance(i)
      PROVE  at'[i] = "abandoned" /\ \A j \in Instances : j # i => at'[j] = at[j]
  BY <1>0, <1>3 DEF AbandonInstance
<1>4. UNCHANGED vars => UNCHANGED at
  BY DEF vars, instanceVars
<1> QED
  BY <1>1, <1>2, <1>3, <1>4, ModelMoves, StepCases DEF Unmade, instanceVars

\* The steps that change who holds which engine, and all others.
EngineChange(t, i) ==
  ShareEngine(t, i) \/ CreateEngine(t, i) \/ CreateEngineFails(t, i) \/ FinalizeInstance(t, i)

LEMMA EngineCases ==
  ASSUME [Next]_vars
  PROVE  \/ \E t \in Threads, i \in Instances : EngineChange(t, i)
         \/ \E t \in Threads, m \in Models : FinalizeModel(t, m)
         \/ UNCHANGED <<engineVars, engine>>
<1>1. ASSUME NEW m \in Models, PhaseStep(m) PROVE UNCHANGED <<engineVars, engine>>
  BY <1>1 DEF PhaseStep, ModelInitialize, Serve, GiveUp, Unload, instanceVars
<1>2. ASSUME NEW t \in Threads, NEW m \in Models, CompletionStep(t, m)
      PROVE  UNCHANGED <<engineVars, engine>>
  BY <1>2 DEF CompletionStep, AutoCompleteConfig, ConfigCompleted, ConfigNotCompleted, instanceVars
<1>3. ASSUME NEW i \in Instances, AbandonInstance(i) PROVE UNCHANGED <<engineVars, engine>>
  BY <1>3 DEF AbandonInstance
<1>4. ASSUME NEW t \in Threads, NEW i \in Instances, InstanceStep(t, i) \/ EngineStep(t, i)
      PROVE  EngineChange(t, i) \/ UNCHANGED <<engineVars, engine>>
  BY <1>4 DEF InstanceStep, EngineStep, EngineChange, InitStreamsAndEvents, InitBindings,
              InitBindingsFails, RegisterInstance, InitializeCudaGraphFails, LockCreation
<1> QED
  BY <1>1, <1>2, <1>3, <1>4, StepCases DEF vars, instanceVars

LEMMA TableAt ==
  ASSUME NEW M, NEW P, NEW R, NEW f \in [M -> [P -> R]], NEW m \in M, NEW p \in P, NEW v,
         NEW g, g = [f EXCEPT ![m] = [@ EXCEPT ![p] = v]]
  PROVE  /\ g[m][p] = v
         /\ \A n \in M, q \in P : n # m \/ q # p => g[n][q] = f[n][q]
OBVIOUS

\* CreateEngine, by what it changes at its own place and elsewhere.
LEMMA CreateEngineAt ==
  ASSUME TypeOK, NEW t \in Threads, NEW i \in Instances, CreateEngine(t, i)
  PROVE  /\ engine'[i] = i /\ \A j \in Instances : j # i => engine'[j] = engine[j]
         /\ engineRuntime'[i] = RuntimeUsed(i)
         /\ \A j \in Instances : j # i => engineRuntime'[j] = engineRuntime[j]
         /\ deviceRuntime'[ModelOf[i]][PlaceOf[i]] = RuntimeUsed(i)
         /\ deviceEngine'[ModelOf[i]][PlaceOf[i]] = EngineKept(i)
         /\ \A m \in Models, p \in Places : m # ModelOf[i] \/ p # PlaceOf[i] =>
              /\ deviceRuntime'[m][p] = deviceRuntime[m][p]
              /\ deviceEngine'[m][p] = deviceEngine[m][p]
<1>1. /\ ModelOf[i] \in Models /\ PlaceOf[i] \in Places
      /\ deviceRuntime \in [Models -> [Places -> Created]]
      /\ deviceEngine \in [Models -> [Places -> Created]]
  BY PlaceTyped DEF TypeOK
<1>2. /\ deviceRuntime' = [deviceRuntime EXCEPT ![ModelOf[i]] = [@ EXCEPT ![PlaceOf[i]] = RuntimeUsed(i)]]
      /\ deviceEngine' = [deviceEngine EXCEPT ![ModelOf[i]] = [@ EXCEPT ![PlaceOf[i]] = EngineKept(i)]]
  BY DEF CreateEngine, SetRuntime
<1>3. /\ engine'[i] = i /\ \A j \in Instances : j # i => engine'[j] = engine[j]
      /\ engineRuntime'[i] = RuntimeUsed(i)
      /\ \A j \in Instances : j # i => engineRuntime'[j] = engineRuntime[j]
  BY DEF TypeOK, CreateEngine
<1>4. /\ deviceRuntime'[ModelOf[i]][PlaceOf[i]] = RuntimeUsed(i)
      /\ \A m \in Models, p \in Places : m # ModelOf[i] \/ p # PlaceOf[i] =>
           deviceRuntime'[m][p] = deviceRuntime[m][p]
  BY <1>1, <1>2, TableAt
<1>5. /\ deviceEngine'[ModelOf[i]][PlaceOf[i]] = EngineKept(i)
      /\ \A m \in Models, p \in Places : m # ModelOf[i] \/ p # PlaceOf[i] =>
           deviceEngine'[m][p] = deviceEngine[m][p]
  BY <1>1, <1>2, TableAt
<1> QED
  BY <1>3, <1>4, <1>5

\* What is kept and used.
LEMMA KeptEngine ==
  ASSUME NEW i \in Instances
  PROVE  /\ RuntimeUsed(i) # None
         /\ deviceRuntime[ModelOf[i]][PlaceOf[i]] # None =>
              RuntimeUsed(i) = deviceRuntime[ModelOf[i]][PlaceOf[i]]
         /\ StillShared(i) => EngineKept(i) = i /\ ~Dynamic(i) /\ engine_sharing[ModelOf[i]]
         /\ ~StillShared(i) => EngineKept(i) = None
BY PlaceTyped DEF RuntimeUsed, EngineKept, StillShared, Dynamic

\* After an error only the runtime of the place may be new, where there was none.
LEMMA CreateEngineFailsAt ==
  ASSUME TypeOK, NEW t \in Threads, NEW i \in Instances, CreateEngineFails(t, i)
  PROVE  /\ UNCHANGED <<engine, engineRuntime, deviceEngine, engine_sharing>>
         /\ deviceEngine[ModelOf[i]][PlaceOf[i]] = None
         /\ \A m \in Models, p \in Places :
              deviceRuntime[m][p] # None => deviceRuntime'[m][p] = deviceRuntime[m][p]
<1>1. /\ ModelOf[i] \in Models /\ PlaceOf[i] \in Places
      /\ deviceRuntime \in [Models -> [Places -> Created]]
  BY PlaceTyped DEF TypeOK
<1>2. CASE SetRuntime(i, RuntimeUsed(i))
  <2>1. deviceRuntime' = [deviceRuntime EXCEPT ![ModelOf[i]] = [@ EXCEPT ![PlaceOf[i]] = RuntimeUsed(i)]]
    BY <1>2 DEF SetRuntime
  <2>2. /\ deviceRuntime'[ModelOf[i]][PlaceOf[i]] = RuntimeUsed(i)
        /\ \A m \in Models, p \in Places : m # ModelOf[i] \/ p # PlaceOf[i] =>
             deviceRuntime'[m][p] = deviceRuntime[m][p]
    BY <1>1, <2>1, TableAt
  <2> QED
    BY <2>2, KeptEngine DEF CreateEngineFails
<1>3. CASE UNCHANGED deviceRuntime
  BY <1>3 DEF CreateEngineFails
<1> QED
  BY <1>2, <1>3 DEF CreateEngineFails

LEMMA FinalizeModelAt ==
  ASSUME TypeOK, NEW t \in Threads, NEW m \in Models, FinalizeModel(t, m)
  PROVE  /\ UNCHANGED <<engine, engineRuntime, engine_sharing, at>>
         /\ \A p \in Places : deviceEngine'[m][p] = None
         /\ \A n \in Models : n # m => /\ deviceEngine'[n] = deviceEngine[n]
                                       /\ deviceRuntime'[n] = deviceRuntime[n]
BY DEF TypeOK, FinalizeModel, instanceVars

-----------------------------------------------------------------------------
(***************************************************************************)
(* The engine a place keeps, and the engines instances hold.               *)
(***************************************************************************)
LEMMA CachedStep ==
  ASSUME TypeOK, CachedInv, [Next]_vars
  PROVE  CachedInv'
<1> SUFFICES ASSUME NEW m \in Models, NEW p \in Places, NEW k \in Instances, deviceEngine'[m][p] = k
             PROVE  /\ ModelOf[k] = m /\ PlaceOf[k] = p
                    /\ ~Dynamic(k)
                    /\ at'[k] \notin Unmade
                    /\ deviceRuntime'[m][p] # None /\ deviceRuntime'[m][p] = engineRuntime'[k]
  BY DynamicKept DEF CachedInv, Unmade
<1>1. ASSUME deviceEngine[m][p] = k, engineRuntime'[k] = engineRuntime[k],
             deviceRuntime[m][p] # None => deviceRuntime'[m][p] = deviceRuntime[m][p]
      PROVE  /\ ModelOf[k] = m /\ PlaceOf[k] = p /\ ~Dynamic(k) /\ at'[k] \notin Unmade
             /\ deviceRuntime'[m][p] # None /\ deviceRuntime'[m][p] = engineRuntime'[k]
  BY <1>1, MadeKept DEF CachedInv, Unmade
<1>2. CASE UNCHANGED <<engineVars, engine>>
  BY <1>1, <1>2 DEF engineVars
<1>3. ASSUME NEW t \in Threads, NEW n \in Models, FinalizeModel(t, n)
      PROVE  deviceEngine[m][p] = k /\ engineRuntime'[k] = engineRuntime[k]
             /\ deviceRuntime'[m][p] = deviceRuntime[m][p]
  BY <1>3, FinalizeModelAt, PlaceTyped
<1>4. ASSUME NEW t \in Threads, NEW i \in Instances, CreateEngineFails(t, i)
      PROVE  /\ deviceEngine[m][p] = k /\ engineRuntime'[k] = engineRuntime[k]
             /\ deviceRuntime[m][p] # None => deviceRuntime'[m][p] = deviceRuntime[m][p]
  BY <1>4, CreateEngineFailsAt
<1>5. ASSUME NEW t \in Threads, NEW i \in Instances, ShareEngine(t, i) \/ FinalizeInstance(t, i)
      PROVE  UNCHANGED engineVars
  BY <1>5 DEF ShareEngine, FinalizeInstance
<1>6. ASSUME NEW t \in Threads, NEW i \in Instances, CreateEngine(t, i),
             m = ModelOf[i], p = PlaceOf[i]
      PROVE  /\ ModelOf[k] = m /\ PlaceOf[k] = p /\ ~Dynamic(k) /\ at'[k] \notin Unmade
             /\ deviceRuntime'[m][p] # None /\ deviceRuntime'[m][p] = engineRuntime'[k]
  <2>1. EngineKept(i) = k
    BY <1>6, CreateEngineAt
  <2>2. k = i /\ ~Dynamic(i)
    BY <2>1, KeptEngine, PlaceTyped
  <2>3. at'[i] \notin Unmade
    BY <1>6 DEF TypeOK, CreateEngine, Unmade
  <2> QED
    BY <1>6, <2>2, <2>3, CreateEngineAt, KeptEngine
<1>7. ASSUME NEW t \in Threads, NEW i \in Instances, CreateEngine(t, i),
             m # ModelOf[i] \/ p # PlaceOf[i]
      PROVE  /\ deviceEngine[m][p] = k /\ engineRuntime'[k] = engineRuntime[k]
             /\ deviceRuntime'[m][p] = deviceRuntime[m][p]
  <2>1. deviceEngine[m][p] = k /\ deviceRuntime'[m][p] = deviceRuntime[m][p]
    BY <1>7, CreateEngineAt
  <2>2. at[k] # "creating" /\ at[i] = "creating"
    BY <1>7, <2>1 DEF CachedInv, CreateEngine
  <2> QED
    BY <1>7, <2>1, <2>2, CreateEngineAt
<1> QED
  BY <1>1, <1>2, <1>3, <1>4, <1>5, <1>6, <1>7, EngineCases DEF EngineChange, engineVars

LEMMA HeldStep ==
  ASSUME TypeOK, CachedInv, HeldInv, [Next]_vars
  PROVE  HeldInv'
<1> SUFFICES ASSUME NEW j \in Instances, NEW k \in Instances, engine'[j] = k
             PROVE  /\ ModelOf[k] = ModelOf[j] /\ PlaceOf[k] = PlaceOf[j]
                    /\ k = j \/ ~Dynamic(k)
                    /\ at'[k] \notin Unmade
  BY DynamicKept DEF HeldInv, Unmade
<1>1. ASSUME engine[j] = k
      PROVE  /\ ModelOf[k] = ModelOf[j] /\ PlaceOf[k] = PlaceOf[j]
             /\ k = j \/ ~Dynamic(k)
             /\ at'[k] \notin Unmade
  BY <1>1, MadeKept DEF HeldInv, Unmade
<1>2. ASSUME NEW t \in Threads, NEW m \in Models, FinalizeModel(t, m) PROVE engine' = engine
  BY <1>2, FinalizeModelAt
<1>3. ASSUME NEW t \in Threads, NEW i \in Instances, CreateEngineFails(t, i) PROVE engine' = engine
  BY <1>3, CreateEngineFailsAt
<1>4. ASSUME NEW t \in Threads, NEW i \in Instances, FinalizeInstance(t, i) PROVE engine[j] = k
  BY <1>4, PlaceTyped DEF TypeOK, FinalizeInstance
<1>5. ASSUME NEW t \in Threads, NEW i \in Instances, ShareEngine(t, i), engine[j] # k
      PROVE  /\ ModelOf[k] = ModelOf[j] /\ PlaceOf[k] = PlaceOf[j]
             /\ ~Dynamic(k)
             /\ at'[k] \notin Unmade
  <2>1. j = i /\ deviceEngine[ModelOf[i]][PlaceOf[i]] = k
    BY <1>5 DEF TypeOK, ShareEngine
  <2>2. ModelOf[i] \in Models /\ PlaceOf[i] \in Places
    BY PlaceTyped
  <2>3. ModelOf[k] = ModelOf[i] /\ PlaceOf[k] = PlaceOf[i] /\ ~Dynamic(k) /\ at[k] \notin Unmade
    BY <2>1, <2>2 DEF CachedInv, Unmade
  <2> QED
    BY <2>1, <2>3, MadeKept
<1>6. ASSUME NEW t \in Threads, NEW i \in Instances, CreateEngine(t, i), engine[j] # k
      PROVE  k = j /\ at'[k] \notin Unmade
  <2>1. k = j /\ j = i
    BY <1>6, CreateEngineAt
  <2> QED
    BY <1>6, <2>1 DEF TypeOK, CreateEngine, Unmade
<1> QED
  BY <1>1, <1>2, <1>3, <1>4, <1>5, <1>6, EngineCases DEF EngineChange

-----------------------------------------------------------------------------
(***************************************************************************)
(* Runtimes end after engines.                                             *)
(***************************************************************************)
LEMMA RuntimeStep ==
  ASSUME TypeOK, IdleInv, CachedInv, HeldInv, RuntimeOutlivesEngine, [Next]_vars
  PROVE  RuntimeOutlivesEngine'
<1> SUFFICES ASSUME NEW j \in Instances, engine'[j] # None, at'[j] # "abandoned"
             PROVE  /\ deviceRuntime'[ModelOf[j]][PlaceOf[j]] # None
                    /\ deviceRuntime'[ModelOf[j]][PlaceOf[j]] = engineRuntime'[engine'[j]]
  BY DEF RuntimeOutlivesEngine
<1>0. /\ at[j] # "abandoned" /\ ModelOf[j] \in Models /\ PlaceOf[j] \in Places
      /\ engine[j] \in Instances \cup {None}
  BY MadeKept, PlaceTyped DEF TypeOK, Created
<1>1. ASSUME engine'[j] = engine[j], engineRuntime'[engine[j]] = engineRuntime[engine[j]],
             deviceRuntime[ModelOf[j]][PlaceOf[j]] # None =>
               deviceRuntime'[ModelOf[j]][PlaceOf[j]] = deviceRuntime[ModelOf[j]][PlaceOf[j]]
      PROVE  /\ deviceRuntime'[ModelOf[j]][PlaceOf[j]] # None
             /\ deviceRuntime'[ModelOf[j]][PlaceOf[j]] = engineRuntime'[engine'[j]]
  BY <1>0, <1>1 DEF RuntimeOutlivesEngine
<1>2. CASE UNCHANGED <<engineVars, engine>>
  BY <1>1, <1>2 DEF engineVars
<1>3. ASSUME NEW t \in Threads, NEW m \in Models, FinalizeModel(t, m)
      PROVE  /\ engine'[j] = engine[j] /\ engineRuntime'[engine[j]] = engineRuntime[engine[j]]
             /\ deviceRuntime'[ModelOf[j]] = deviceRuntime[ModelOf[j]]
  <2>1. UNCHANGED <<engine, engineRuntime, at>>
    BY <1>3, FinalizeModelAt
  <2>2. ModelOf[j] # m
    <3>1. SUFFICES ASSUME ModelOf[j] = m PROVE FALSE
      OBVIOUS
    <3>2. at[j] \in {"absent", "finalized", "abandoned"}
      BY <1>3, <3>1 DEF FinalizeModel, Siblings
    <3> QED
      BY <1>0, <2>1, <3>2 DEF IdleInv
  <2> QED
    BY <1>0, <1>3, <2>1, <2>2, FinalizeModelAt
<1>4. ASSUME NEW t \in Threads, NEW i \in Instances, CreateEngineFails(t, i)
      PROVE  /\ engine'[j] = engine[j] /\ engineRuntime'[engine[j]] = engineRuntime[engine[j]]
             /\ deviceRuntime[ModelOf[j]][PlaceOf[j]] # None =>
                  deviceRuntime'[ModelOf[j]][PlaceOf[j]] = deviceRuntime[ModelOf[j]][PlaceOf[j]]
  BY <1>0, <1>4, CreateEngineFailsAt
<1>5. ASSUME NEW t \in Threads, NEW i \in Instances, FinalizeInstance(t, i)
      PROVE  engine'[j] = engine[j] /\ UNCHANGED engineVars
  BY <1>5 DEF TypeOK, FinalizeInstance
<1>6. ASSUME NEW t \in Threads, NEW i \in Instances, ShareEngine(t, i)
      PROVE  /\ deviceRuntime'[ModelOf[j]][PlaceOf[j]] # None
             /\ deviceRuntime'[ModelOf[j]][PlaceOf[j]] = engineRuntime'[engine'[j]]
  <2>1. UNCHANGED engineVars
    BY <1>6 DEF ShareEngine
  <2>2. CASE j # i
    <3>1. engine'[j] = engine[j]
      BY <1>6, <2>2 DEF TypeOK, ShareEngine
    <3> QED
      BY <1>1, <2>1, <3>1 DEF engineVars
  <2>3. CASE j = i
    <3>1. engine'[j] = deviceEngine[ModelOf[j]][PlaceOf[j]]
      BY <1>6, <2>3 DEF TypeOK, ShareEngine
    <3>2. deviceEngine[ModelOf[j]][PlaceOf[j]] \in Instances
      BY <1>0, <3>1 DEF TypeOK, Created
    <3> QED
      BY <1>0, <2>1, <3>1, <3>2 DEF CachedInv, engineVars
  <2> QED
    BY <2>2, <2>3
<1>7. ASSUME NEW t \in Threads, NEW i \in Instances, CreateEngine(t, i)
      PROVE  /\ deviceRuntime'[ModelOf[j]][PlaceOf[j]] # None
             /\ deviceRuntime'[ModelOf[j]][PlaceOf[j]] = engineRuntime'[engine'[j]]
  <2>1. CASE j = i
    BY <1>7, <2>1, CreateEngineAt, KeptEngine
  <2>2. CASE j # i
    <3>1. engine'[j] = engine[j] /\ engine[j] \in Instances
      BY <1>0, <1>7, <2>2, CreateEngineAt
    <3>2. at[engine[j]] # "creating" /\ at[i] = "creating"
      BY <1>7, <3>1 DEF HeldInv, CreateEngine
    <3>3. engineRuntime'[engine[j]] = engineRuntime[engine[j]]
      BY <1>7, <3>1, <3>2, CreateEngineAt
    <3>4. deviceRuntime[ModelOf[j]][PlaceOf[j]] # None =>
            deviceRuntime'[ModelOf[j]][PlaceOf[j]] = deviceRuntime[ModelOf[j]][PlaceOf[j]]
      BY <1>0, <1>7, CreateEngineAt, KeptEngine
    <3> QED
      BY <1>1, <3>1, <3>3, <3>4
  <2> QED
    BY <2>1, <2>2
<1> QED
  BY <1>1, <1>2, <1>3, <1>4, <1>5, <1>6, <1>7, EngineCases DEF EngineChange, engineVars

-----------------------------------------------------------------------------
(***************************************************************************)
(* Sharing.                                                                *)
(***************************************************************************)
LEMMA SharingAt ==
  ASSUME TypeOK, NEW t \in Threads, NEW i \in Instances, CreateEngine(t, i)
  PROVE  /\ engine_sharing'[ModelOf[i]] <=> StillShared(i)
         /\ \A m \in Models : m # ModelOf[i] => (engine_sharing'[m] <=> engine_sharing[m])
<1>1. /\ engine_sharing \in [Models -> BOOLEAN] /\ ModelOf[i] \in Models
      /\ engine_sharing' = [engine_sharing EXCEPT ![ModelOf[i]] = StillShared(i)]
  BY PlaceTyped DEF TypeOK, CreateEngine
<1> QED
  BY <1>1

\* A model that is gone is never loaded again.
LEMMA GoneKept ==
  ASSUME TypeOK, [Next]_vars, NEW n \in Models, phase[n] = "gone"
  PROVE  phase'[n] = "gone"
<1>0. phase \in [Models -> Phases]
  BY DEF TypeOK
<1>1. ASSUME NEW m \in Models, PhaseStep(m) PROVE phase'[n] = "gone"
  BY <1>0, <1>1 DEF PhaseStep, ModelInitialize, Serve, GiveUp, Unload
<1>2. ASSUME NEW t \in Threads, NEW m \in Models, CompletionStep(t, m) \/ FinalizeModel(t, m)
      PROVE  phase'[n] = "gone"
  <2>1. /\ phase[m] # "gone" \/ phase' = [phase EXCEPT ![m] = "gone"]
        /\ \E v \in Phases : phase' = [phase EXCEPT ![m] = v]
    BY <1>2 DEF CompletionStep, AutoCompleteConfig, ConfigCompleted, ConfigNotCompleted, FinalizeModel,
                Phases
  <2> QED
    BY <1>0, <2>1
<1>3. ASSUME NEW i \in Instances, AbandonInstance(i) PROVE phase' = phase
  BY <1>3 DEF AbandonInstance, modelVars
<1> QED
  BY <1>1, <1>2, <1>3, InstancePhase, StepCases DEF vars, modelVars

LEMMA SharedStep ==
  ASSUME TypeOK, PhaseInv, SharedInv, SharedWhileEnabled, [Next]_vars
  PROVE  SharedInv' /\ SharedWhileEnabled'
<1>0. \A j \in Instances : ModelOf[j] \in Models /\ PlaceOf[j] \in Places
  BY PlaceTyped
<1>1. ASSUME engine' = engine,
             \A m \in Models : engine_sharing'[m] => engine_sharing[m],
             \A m \in Models : phase'[m] # "gone" => deviceEngine'[m] = deviceEngine[m]
      PROVE  SharedInv' /\ SharedWhileEnabled'
  <2>1. SharedWhileEnabled'
    BY <1>0, <1>1 DEF SharedWhileEnabled
  <2>2. SharedInv'
    BY <1>0, <1>1, GoneKept DEF SharedInv
  <2> QED
    BY <2>1, <2>2
<1>2. CASE UNCHANGED <<engineVars, engine>>
  BY <1>1, <1>2 DEF engineVars
<1>3. ASSUME NEW t \in Threads, NEW m \in Models, FinalizeModel(t, m)
      PROVE  SharedInv' /\ SharedWhileEnabled'
  <2>1. phase'[m] = "gone"
    BY <1>3 DEF TypeOK, FinalizeModel
  <2> QED
    BY <1>1, <1>3, <2>1, FinalizeModelAt
<1>4. ASSUME NEW t \in Threads, NEW i \in Instances, CreateEngineFails(t, i)
      PROVE  SharedInv' /\ SharedWhileEnabled'
  BY <1>1, <1>4, CreateEngineFailsAt
<1>5. ASSUME NEW t \in Threads, NEW i \in Instances, FinalizeInstance(t, i)
      PROVE  SharedInv' /\ SharedWhileEnabled'
  <2>1. /\ UNCHANGED engineVars /\ UNCHANGED phase
        /\ engine'[i] = None
        /\ \A j \in Instances : j # i => engine'[j] = engine[j]
    BY <1>5 DEF TypeOK, FinalizeInstance, modelVars
  <2>2. SharedInv'
    BY <2>1 DEF SharedInv, engineVars
  <2>3. SharedWhileEnabled'
    BY <2>1 DEF SharedWhileEnabled, engineVars
  <2> QED
    BY <2>2, <2>3
<1>6. ASSUME NEW t \in Threads, NEW i \in Instances, ShareEngine(t, i)
      PROVE  SharedInv' /\ SharedWhileEnabled'
  <2>1. /\ UNCHANGED engineVars /\ UNCHANGED phase
        /\ at[i] = "creating"
        /\ engine'[i] = deviceEngine[ModelOf[i]][PlaceOf[i]]
        /\ \A j \in Instances : j # i => engine'[j] = engine[j]
    BY <1>6 DEF TypeOK, ShareEngine, modelVars
  <2>2. phase[ModelOf[i]] = "creating"
    BY <2>1 DEF PhaseInv, Busy
  <2>3. SharedInv'
    BY <2>1 DEF SharedInv, engineVars
  <2>4. \A j \in Instances :
          ModelOf[j] = ModelOf[i] /\ PlaceOf[j] = PlaceOf[i] /\ engine_sharing[ModelOf[i]]
          /\ j # i /\ engine[j] # None => engine[j] = engine'[i]
    BY <2>1, <2>2 DEF SharedInv
  <2>5. SharedWhileEnabled'
    <3> SUFFICES ASSUME NEW j \in Instances, NEW k \in Instances,
                        ModelOf[j] = ModelOf[k], PlaceOf[j] = PlaceOf[k],
                        engine_sharing[ModelOf[j]], engine'[j] # None, engine'[k] # None
                 PROVE  engine'[j] = engine'[k]
      BY <2>1 DEF SharedWhileEnabled, engineVars
    <3>1. CASE j # i /\ k # i
      BY <2>1, <3>1 DEF SharedWhileEnabled
    <3>2. CASE j = i \/ k = i
      BY <2>1, <2>4, <3>2
    <3> QED
      BY <3>1, <3>2
  <2> QED
    BY <2>3, <2>5
<1>7. ASSUME NEW t \in Threads, NEW i \in Instances, CreateEngine(t, i)
      PROVE  SharedInv' /\ SharedWhileEnabled'
  <2>1. /\ phase' = phase /\ at[i] = "creating"
        /\ deviceEngine[ModelOf[i]][PlaceOf[i]] = None
    BY <1>7 DEF CreateEngine, modelVars
  <2>2. phase[ModelOf[i]] = "creating"
    BY <2>1 DEF PhaseInv, Busy
  <2>3. \A m \in Models : engine_sharing'[m] => engine_sharing[m]
    BY <1>7, SharingAt, KeptEngine
  \* The place kept no engine: while engines are shared nobody there holds one.
  <2>4. \A j \in Instances :
          ModelOf[j] = ModelOf[i] /\ PlaceOf[j] = PlaceOf[i] /\ engine_sharing'[ModelOf[i]] /\ j # i
            => engine'[j] = None
    BY <1>0, <1>7, <2>1, <2>2, <2>3, CreateEngineAt DEF SharedInv
  <2>5. SharedInv'
    <3> SUFFICES ASSUME NEW j \in Instances, engine_sharing'[ModelOf[j]],
                        phase'[ModelOf[j]] # "gone", engine'[j] # None
                 PROVE  deviceEngine'[ModelOf[j]][PlaceOf[j]] = engine'[j]
      BY DEF SharedInv
    <3>1. CASE j = i
      BY <1>7, <3>1, SharingAt, KeptEngine, CreateEngineAt
    <3>2. CASE j # i
      <4>1. ModelOf[j] # ModelOf[i] \/ PlaceOf[j] # PlaceOf[i]
        BY <2>4, <3>2
      <4>2. engine'[j] = engine[j] /\ engine_sharing[ModelOf[j]] /\ phase[ModelOf[j]] # "gone"
        BY <1>0, <1>7, <2>1, <2>3, <3>2, CreateEngineAt
      <4>3. deviceEngine'[ModelOf[j]][PlaceOf[j]] = deviceEngine[ModelOf[j]][PlaceOf[j]]
        BY <1>0, <1>7, <4>1, CreateEngineAt
      <4> QED
        BY <4>2, <4>3 DEF SharedInv
    <3> QED
      BY <3>1, <3>2
  <2>6. SharedWhileEnabled'
    <3> SUFFICES ASSUME NEW j \in Instances, NEW k \in Instances,
                        ModelOf[j] = ModelOf[k], PlaceOf[j] = PlaceOf[k],
                        engine_sharing'[ModelOf[j]], engine'[j] # None, engine'[k] # None
                 PROVE  engine'[j] = engine'[k]
      BY DEF SharedWhileEnabled
    <3>1. CASE j = i \/ k = i
      BY <2>4, <3>1
    <3>2. CASE j # i /\ k # i
      BY <1>0, <1>7, <2>3, <3>2, CreateEngineAt DEF SharedWhileEnabled
    <3> QED
      BY <3>1, <3>2
  <2> QED
    BY <2>5, <2>6
<1> QED
  BY <1>2, <1>3, <1>4, <1>5, <1>6, <1>7, EngineCases DEF EngineChange

-----------------------------------------------------------------------------
(***************************************************************************)
(* The theorems.                                                           *)
(***************************************************************************)
LEMMA InitIInv == Init => IInv
<1> SUFFICES ASSUME Init PROVE IInv
  OBVIOUS
<1>1. TypeOK
  BY InitTypeOK
<1>2. LockInv /\ TaskInv /\ PhaseInv /\ IdleInv /\ OwnGPUOnly
  BY PlaceTyped DEF Init, LockInv, TaskInv, PhaseInv, IdleInv, OwnGPUOnly, Busy
<1>3. CachedInv /\ HeldInv /\ SharedInv /\ SharedWhileEnabled /\ RuntimeOutlivesEngine
  BY PlaceTyped DEF Init, CachedInv, HeldInv, SharedInv, SharedWhileEnabled, RuntimeOutlivesEngine
<1> QED
  BY <1>1, <1>2, <1>3 DEF IInv

\* The inductive invariant holds in every state.
THEOREM LoadingInvariant == Spec => []IInv
<1>1. Init => IInv
  BY InitIInv
<1>2. IInv /\ [Next]_vars => IInv'
  BY TypeStep, LockStep, TaskStep, PhaseStepInv, IdleStep, GPUStep, CachedStep, HeldStep, SharedStep,
     RuntimeStep DEF IInv
<1> QED
  BY <1>1, <1>2, PTL DEF Spec

\* The types of the state.
THEOREM LoadingTypes == Spec => []TypeOK
<1>1. IInv => TypeOK
  BY DEF IInv
<1> QED
  BY <1>1, LoadingInvariant, PTL

\* No two instances hold the same engine if it has a dynamic shape.
THEOREM DynamicEnginesExclusive == Spec => []DynamicEngineExclusive
<1>1. IInv => DynamicEngineExclusive
  <2> SUFFICES ASSUME IInv, NEW i \in Instances, NEW j \in Instances,
                      i # j, engine[i] # None, engine[i] = engine[j]
               PROVE  ~IsDynamic(PlanOf(i))
    BY DEF DynamicEngineExclusive
  <2>1. engine[i] \in Instances
    BY DEF IInv, TypeOK, Created
  <2>2. /\ ModelOf[engine[i]] = ModelOf[i] /\ PlaceOf[engine[i]] = PlaceOf[i]
        /\ ~Dynamic(engine[i])
    BY <2>1 DEF IInv, HeldInv
  <2> QED
    BY <2>2 DEF Dynamic, PlanOf
<1> QED
  BY <1>1, LoadingInvariant, PTL

\* While the engines of a model are shared, the instances of a place hold one.
THEOREM OneEnginePerPlace == Spec => []SharedWhileEnabled
<1>1. IInv => SharedWhileEnabled
  BY DEF IInv
<1> QED
  BY <1>1, LoadingInvariant, PTL

\* A runtime ends after the engines that were made with it.
THEOREM RuntimesOutliveEngines == Spec => []RuntimeOutlivesEngine
<1>1. IInv => RuntimeOutlivesEngine
  BY DEF IInv
<1> QED
  BY <1>1, LoadingInvariant, PTL

\* Of a model that is gone only what failed to load holds an engine or a thread.
THEOREM OnlyAbandonedHold == Spec => []HeldOnlyByAbandoned
<1>1. IInv => HeldOnlyByAbandoned
  BY DEF IInv, TypeOK, PhaseInv, IdleInv, HeldOnlyByAbandoned, Busy
<1> QED
  BY <1>1, LoadingInvariant, PTL

\* Everything of an instance is on its GPU.
THEOREM InstancesOnTheirGPU == Spec => []OwnGPUOnly
<1>1. IInv => OwnGPUOnly
  BY DEF IInv
<1> QED
  BY <1>1, LoadingInvariant, PTL
=============================================================================
