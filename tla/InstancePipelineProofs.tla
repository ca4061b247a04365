------------------------ MODULE InstancePipelineProofs ------------------------
(***************************************************************************)
(* Theorems of InstancePipeline, for every configuration of the model, any *)
(* set of requests, any kinds of error and any bounds: types, the slots of *)
(* the semaphore, the order of runs on the completion queue, the           *)
(* refinement of OrderedExecution, and that each request is answered once. *)
(* Then what the completion thread finds when it is done waiting: no copy  *)
(* and no execution of its payload is left but the copies of shape         *)
(* outputs, although a later run may have recorded the events again, and   *)
(* the promise it fulfils is the one made for its payload.  Last the event *)
(* sets and buffers, which runs in use share or overwrite only in some     *)
(* configurations with eager batching.                                     *)
(***************************************************************************)
EXTENDS InstancePipeline, TLAPS

USE ConfigAssumption, FaultsAssumption, BoundsAssumption

-----------------------------------------------------------------------------
(***************************************************************************)
(* Type correctness.                                                       *)
(***************************************************************************)
LEMMA CountersTyped ==
  /\ SemCount \in 1 .. 3
  /\ num_copy_streams \in 1 .. 2
BY DEF SemCount, num_copy_streams, EVENT_SET_COUNT

LEMMA NextIndicesTyped ==
  ASSUME next_set \in EventSets, next_buffer_binding_set \in BufferSets
  PROVE  /\ NextSet \in EventSets
         /\ NextBufferSet \in BufferSets
BY CountersTyped DEF NextSet, NextBufferSet, EventSets, BufferSets,
                     num_copy_streams, EVENT_SET_COUNT

LEMMA InitTypeOK == Init => TypeOK
BY CountersTyped
   DEF Init, TypeOK, IssueSteps, CompletionSteps, EventSetRecords,
     EventSets, BufferSets, EVENT_SET_COUNT, NoRun, NullPayload, Runs

\* A function changed at one point keeps its type if the new value has it.
LEMMA UpdateTyped ==
  ASSUME NEW D, NEW R, NEW f \in [D -> R], NEW k, NEW v, k \in D => v \in R
  PROVE  [f EXCEPT ![k] = v] \in [D -> R]
OBVIOUS

RunOrNone == {NoRun} \cup Runs

LEMMA RunIsRunOrNone == run \in 0 .. MaxRuns => run \in RunOrNone
BY DEF RunOrNone, NoRun, Runs

\* Recording events of a set keeps the type of events.
LEMMA EventRecorded ==
  ASSUME events \in [EventSets -> EventSetRecords], NEW e, NEW k \in RunOrNone
  PROVE  /\ [events EXCEPT ![e].compute_input_start = k]
              \in [EventSets -> EventSetRecords]
         /\ [events EXCEPT ![e].ready_for_input = k,
                           ![e].compute_output_start = k]
              \in [EventSets -> EventSetRecords]
         /\ [events EXCEPT ![e].output_ready = k]
              \in [EventSets -> EventSetRecords]
BY DEF EventSetRecords, RunOrNone

RequestsTyped ==
  /\ response \in [Runs -> [Requests -> {"none", "live", "null"}]]
  /\ answers \in [Runs -> [Requests -> Nat]]
  /\ released \in [Runs -> Nat]

\* The answers an action may give keep the types of the request variables.
LEMMA AnswerAndReleaseTyped ==
  ASSUME RequestsTyped, NEW k, AnswerAndRelease(k)
  PROVE  /\ answers' \in [Runs -> [Requests -> Nat]]
         /\ released' \in [Runs -> Nat]
<1>1. ASSUME k \in Runs
      PROVE  /\ [r \in Requests |->
                   answers[k][r] + IF r \in Live(k) THEN 1 ELSE 0]
                  \in [Requests -> Nat]
             /\ released[k] + 1 \in Nat
  BY <1>1 DEF RequestsTyped
<1>2. QED
  BY <1>1, UpdateTyped DEF AnswerAndRelease, RequestsTyped

LEMMA NullResponsesTyped ==
  ASSUME RequestsTyped, NEW k, NEW bad,
         response' = [response EXCEPT ![k] =
                        [r \in Requests |-> IF r \in bad THEN "null" ELSE @[r]]]
  PROVE  response' \in [Runs -> [Requests -> {"none", "live", "null"}]]
<1>1. ASSUME k \in Runs
      PROVE  [r \in Requests |-> IF r \in bad THEN "null" ELSE response[k][r]]
               \in [Requests -> {"none", "live", "null"}]
  BY <1>1 DEF RequestsTyped
<1>2. QED
  BY <1>1, UpdateTyped DEF RequestsTyped

LEMMA RespondAndSetNullTyped ==
  ASSUME RequestsTyped, NEW k, NEW bad, RespondAndSetNull(k, bad),
         released' = released
  PROVE  RequestsTyped'
<1>1. ASSUME k \in Runs
      PROVE  [r \in Requests |-> answers[k][r] + IF r \in bad THEN 1 ELSE 0]
               \in [Requests -> Nat]
  BY <1>1 DEF RequestsTyped
<1>2. answers' \in [Runs -> [Requests -> Nat]]
  BY <1>1, UpdateTyped DEF RespondAndSetNull, RequestsTyped
<1>3. response' \in [Runs -> [Requests -> {"none", "live", "null"}]]
  BY NullResponsesTyped DEF RespondAndSetNull
<1>4. QED
  BY <1>2, <1>3 DEF RequestsTyped

LEMMA FailAllTyped ==
  ASSUME RequestsTyped, NEW k, NEW bad, FailAll(k, bad)
  PROVE  RequestsTyped'
<1>1. response' \in [Runs -> [Requests -> {"none", "live", "null"}]]
  BY NullResponsesTyped DEF FailAll
<1>2. QED
  BY <1>1, AnswerAndReleaseTyped DEF FailAll, RequestsTyped

LEMMA RespondWithErrorTyped ==
  ASSUME RequestsTyped, NEW k, RequestsRespondWithError(k), response' = response
  PROVE  RequestsTyped'
<1>1. ASSUME k \in Runs
      PROVE  /\ [r \in Requests |-> answers[k][r] + 1] \in [Requests -> Nat]
             /\ released[k] + 1 \in Nat
  BY <1>1 DEF RequestsTyped
<1>2. /\ answers' \in [Runs -> [Requests -> Nat]]
      /\ released' \in [Runs -> Nat]
  BY <1>1, UpdateTyped DEF RequestsRespondWithError, RequestsTyped
<1>3. QED
  BY <1>2 DEF RequestsTyped

-----------------------------------------------------------------------------
\* Past "ready" there is a run; with it, the types are inductive.
RunStarted == issue # "ready" => run \in Runs
TypeInv == TypeOK /\ RunStarted

LEMMA StepTypeInv == TypeInv /\ [Next]_vars => TypeInv'
<1> SUFFICES ASSUME TypeInv, [Next]_vars PROVE TypeInv'
  OBVIOUS
<1> USE DEF IssueSteps, CompletionSteps
<1>a. RequestsTyped
  BY DEF TypeInv, TypeOK, RequestsTyped
<1>1. CASE StartRun
  <2>1. RequestsTyped'
    BY <1>1, <1>a DEF StartRun, RequestsTyped, requestVars
  <2>2. events' \in [EventSets -> EventSetRecords]
    <3>1. run' \in Runs /\ run + 1 \in Runs /\ run + 1 \in RunOrNone
      BY <1>1 DEF TypeInv, RunStarted, TypeOK, StartRun, RunOrNone, Runs
    <3>2. QED
      BY <1>1, <3>1, EventRecorded DEF TypeInv, RunStarted, TypeOK, StartRun
  <2>3. eventSet' \in [Runs -> EventSets] /\ bufferSet' \in [Runs -> BufferSets]
    BY <1>1, UpdateTyped DEF TypeInv, RunStarted, TypeOK, StartRun
  <2>4. QED
    BY <1>1, <2>1, <2>2, <2>3
       DEF TypeInv, RunStarted, TypeOK, RequestsTyped, StartRun, NewBarrier,
           completionVars,
           deviceVars
<1>2. CASE RejectRun
  <2>1. RequestsTyped'
    BY <1>2, <1>a, RespondWithErrorTyped DEF RejectRun
  <2>2. QED
    BY <1>2, <2>1
       DEF TypeInv, RunStarted, TypeOK, RequestsTyped, RejectRun, Fault,
           completionVars, deviceVars
<1>3. CASE CreateResponses
  <2>1. RequestsTyped'
    BY <1>3, <1>a DEF CreateResponses, RequestsTyped
  <2>2. QED
    BY <1>3, <2>1
       DEF TypeInv, RunStarted, TypeOK, RequestsTyped, CreateResponses, Fault,
           FaultOf, completionVars, deviceVars
<1>w. CASE WriteShapeInputs
  BY <1>w
     DEF TypeInv, RunStarted, TypeOK, WriteShapeInputs, completionVars,
         deviceVars, requestVars
<1>4. CASE CollectInputs
  <2>1. RequestsTyped'
    BY <1>4, <1>a, RespondAndSetNullTyped DEF CollectInputs
  <2>2. copyingIn' \subseteq Runs
    BY <1>4 DEF TypeInv, RunStarted, TypeOK, CollectInputs, CopyInputs
  <2>3. QED
    BY <1>4, <2>1, <2>2
       DEF TypeInv, RunStarted, TypeOK, RequestsTyped, CollectInputs, Fault,
           FaultOf, completionVars
<1>5. CASE CollectInputsFails
  <2>1. RequestsTyped'
    BY <1>5, <1>a, FailAllTyped DEF CollectInputsFails
  <2>2. copyingIn' \subseteq Runs
    BY <1>5 DEF TypeInv, RunStarted, TypeOK, CollectInputsFails, CopyInputs
  <2>3. QED
    BY <1>5, <2>1, <2>2
       DEF TypeInv, RunStarted, TypeOK, RequestsTyped, CollectInputsFails,
           Fault, completionVars
<1>6. CASE EnqueueRun
  <2>1. RequestsTyped'
    BY <1>6, <1>a DEF EnqueueRun, RequestsTyped, requestVars
  <2>2. events' \in [EventSets -> EventSetRecords]
    BY <1>6, EventRecorded, RunIsRunOrNone
       DEF TypeInv, RunStarted, TypeOK, EnqueueRun
  <2>3. waitOutput' \in [Runs -> {NoRun} \cup Runs]
    <3>1. events[next_set].output_ready \in {NoRun} \cup Runs
      BY DEF TypeInv, TypeOK, EventSetRecords
    <3>2. QED
      BY <1>6, <3>1 DEF TypeInv, TypeOK, EnqueueRun
  <2>4. QED
    BY <1>6, <2>1, <2>2, <2>3
       DEF TypeInv, RunStarted, TypeOK, RequestsTyped, EnqueueRun, NoRun,
           completionVars
<1>7. CASE InferShapesFails
  <2>1. RequestsTyped'
    BY <1>7, <1>a, FailAllTyped DEF InferShapesFails
  <2>2. QED
    BY <1>7, <2>1
       DEF TypeInv, RunStarted, TypeOK, RequestsTyped, InferShapesFails,
           Fault, completionVars, deviceVars
<1>8. CASE LaunchFails
  <2>1. RequestsTyped'
    BY <1>8, <1>a, FailAllTyped DEF LaunchFails
  <2>2. QED
    BY <1>8, <2>1
       DEF TypeInv, RunStarted, TypeOK, RequestsTyped, LaunchFails, Fault,
           completionVars, deviceVars
<1>9. ASSUME issue = "respond", CopyOutputs, CopyShapeOutputs
      PROVE  /\ copyingOut' \subseteq Runs
             /\ copyingShape' \subseteq Runs
             /\ events' \in [EventSets -> EventSetRecords]
  <2>1. run \in Runs /\ copyingOut \subseteq Runs /\ copyingShape \subseteq Runs
    BY <1>9 DEF TypeInv, RunStarted, TypeOK
  <2>2. copyingOut' \subseteq Runs /\ copyingShape' \subseteq Runs
    BY <1>9, <2>1 DEF CopyOutputs, CopyShapeOutputs
  <2>3. \/ events' = events
        \/ events' = [events EXCEPT ![next_set].output_ready = run]
    BY <1>9 DEF CopyOutputs
  <2>4. run \in RunOrNone /\ events \in [EventSets -> EventSetRecords]
    BY RunIsRunOrNone DEF TypeInv, TypeOK
  <2>5. [events EXCEPT ![next_set].output_ready = run]
          \in [EventSets -> EventSetRecords]
    BY <2>4, EventRecorded
  <2>6. QED
    BY <2>2, <2>3, <2>4, <2>5
<1>10. CASE RespondOutputs
  <2>1. RequestsTyped'
    BY <1>10, <1>a, RespondAndSetNullTyped DEF RespondOutputs
  <2>2. QED
    BY <1>9, <1>10, <2>1
       DEF TypeInv, RunStarted, TypeOK, RequestsTyped, RespondOutputs, Fault,
           FaultOf, completionVars
<1>f. CASE RespondOutputsFails
  <2>1. RequestsTyped'
    BY <1>f, <1>a, FailAllTyped DEF RespondOutputsFails
  <2>2. QED
    BY <1>9, <1>f, <2>1
       DEF TypeInv, RunStarted, TypeOK, RequestsTyped, RespondOutputsFails,
           Fault, completionVars
<1>11. CASE HandOver
  <2>1. NextSet \in EventSets /\ NextBufferSet \in BufferSets
    BY NextIndicesTyped DEF TypeInv, RunStarted, TypeOK
  <2>2. Append(queue, run) \in Seq(RunOrNone)
    BY RunIsRunOrNone
       DEF TypeInv, RunStarted, TypeOK, RunOrNone, NoRun, NullPayload
  <2>3. QED
    BY <1>11, <2>1, <2>2
       DEF TypeInv, RunStarted, TypeOK, HandOver, completionVars, deviceVars,
           requestVars,
           RunOrNone, NoRun, NullPayload
<1>12. CASE ReleaseFailedRun
  BY <1>12 DEF TypeInv, RunStarted, TypeOK, ReleaseFailedRun, Release,
               completionVars, deviceVars, requestVars
<1>13. CASE AwaitBarrier
  BY <1>13
     DEF TypeInv, RunStarted, TypeOK, AwaitBarrier, completionVars, deviceVars, requestVars
<1>14. CASE AcquireSlot
  BY <1>14 DEF TypeInv, RunStarted, TypeOK, AcquireSlot, Acquire,
               completionVars, deviceVars, requestVars
<1>15. CASE GetPayload
  BY <1>15
     DEF TypeInv, RunStarted, TypeOK, GetPayload, issueVars, deviceVars, requestVars
<1>16. CASE ReleaseSlot
  BY <1>16
     DEF TypeInv, RunStarted, TypeOK, ReleaseSlot, Release, issueVars, deviceVars, requestVars
<1>17. CASE AwaitOutput
  BY <1>17
     DEF TypeInv, RunStarted, TypeOK, AwaitOutput, issueVars, deviceVars, requestVars
<1>18. CASE UpdateStates
  BY <1>18
     DEF TypeInv, RunStarted, TypeOK, UpdateStates, issueVars, deviceVars, requestVars
<1>19. CASE UpdateStatesFails
  <2>1. RequestsTyped'
    BY <1>19, <1>a, FailAllTyped DEF UpdateStatesFails
  <2>2. QED
    BY <1>19, <2>1
       DEF TypeInv, RunStarted, TypeOK, RequestsTyped, UpdateStatesFails,
           Fault, issueVars, deviceVars
<1>20. CASE SendResponses
  <2>1. RequestsTyped'
    BY <1>20, <1>a, AnswerAndReleaseTyped DEF SendResponses, RequestsTyped
  <2>2. QED
    BY <1>20, <2>1
       DEF TypeInv, RunStarted, TypeOK, RequestsTyped, SendResponses,
           issueVars, deviceVars
<1>21. CASE \E k \in Runs : DeviceStep(k)
  BY <1>21
     DEF TypeInv, RunStarted, TypeOK, DeviceStep, InputCopied, InputsConsumed, Executed,
               OutputCopied, ShapeOutputCopied, issueVars, completionVars, requestVars
<1>22. CASE TeardownStep
  <2>1. Append(queue, NullPayload) \in Seq({NullPayload} \cup Runs)
    BY DEF TypeInv, TypeOK
  <2>2. QED
    BY <1>22, <2>1
       DEF TypeInv, RunStarted, TypeOK, TeardownStep, Destroy, PutNullPayload,
           JoinCompletionThread, issueVars, completionVars, deviceVars,
           requestVars
<1>23. CASE UNCHANGED vars
  BY <1>23
     DEF TypeInv, RunStarted, TypeOK, vars, issueVars, completionVars, deviceVars, requestVars
<1>24. QED
  BY <1>1, <1>2, <1>3, <1>w, <1>4, <1>5, <1>6, <1>7, <1>8, <1>10, <1>f, <1>11,
     <1>12, <1>13, <1>14, <1>15, <1>16, <1>17, <1>18, <1>19, <1>20, <1>21, <1>22,
     <1>23
     DEF Next, IssueStep, CompletionStep, Terminated

\* Every variable of the pipeline keeps its type; in particular the indices of
\* event and buffer sets never leave the arrays they index, and the semaphore
\* is never negative.
THEOREM TypeCorrect == Spec => []TypeOK
<1>1. Init => TypeInv
  BY InitTypeOK DEF TypeInv, RunStarted, Init
<1>2. TypeInv /\ [Next]_vars => TypeInv'
  BY StepTypeInv
<1>3. TypeInv => TypeOK
  BY DEF TypeInv
<1>4. QED
  BY <1>1, <1>2, <1>3, PTL DEF Spec

-----------------------------------------------------------------------------
(***************************************************************************)
(* The units of the semaphore.  They are conserved while the instance      *)
(* serves; that needs the queue to hold no null payload, which is there    *)
(* only once the destructor runs, and the destructor runs only outside of  *)
(* Execute.                                                                *)
(***************************************************************************)
SlotsInv ==
  /\ SlotsConserved
  /\ life = "serving" => queue \in Seq(Runs)
  /\ life # "serving" => issue = "ready"

LEMMA InitSlots == Init => SlotsInv
BY CountersTyped DEF Init, SlotsInv, SlotsConserved, SlotsHeld, SlotsInFlight

LEMMA SlotsTyped ==
  TypeInv => /\ semaphore \in Nat
             /\ SemCount \in Nat
             /\ SlotsHeld \in Nat
             /\ SlotsInFlight \in Nat
             /\ Len(queue) \in Nat
BY CountersTyped DEF TypeInv, TypeOK, SlotsHeld, SlotsInFlight

LEMMA StepSlots == TypeInv /\ SlotsInv /\ [Next]_vars => SlotsInv'
<1> SUFFICES ASSUME TypeInv, SlotsInv, [Next]_vars PROVE SlotsInv'
  OBVIOUS
<1> USE DEF SlotsInv, SlotsConserved
<1>a. /\ semaphore \in Nat /\ SemCount \in Nat /\ SlotsHeld \in Nat
      /\ SlotsInFlight \in Nat /\ Len(queue) \in Nat
  BY SlotsTyped
<1>b. ASSUME UNCHANGED <<semaphore, life, queue>>,
             SlotsHeld' = SlotsHeld, SlotsInFlight' = SlotsInFlight,
             issue' = issue \/ life = "serving"
      PROVE  SlotsInv'
  BY <1>b
<1>1. CASE StartRun \/ RejectRun \/ CreateResponses \/ WriteShapeInputs
  BY <1>1, <1>b DEF StartRun, RejectRun, CreateResponses, WriteShapeInputs,
     SlotsHeld, SlotsInFlight, completionVars
<1>2. CASE CollectInputs \/ CollectInputsFails
  BY <1>2, <1>b DEF CollectInputs, CollectInputsFails,
     SlotsHeld, SlotsInFlight, completionVars
<1>3. CASE EnqueueRun \/ InferShapesFails \/ LaunchFails
  BY <1>3, <1>b DEF EnqueueRun, InferShapesFails, LaunchFails,
     SlotsHeld, SlotsInFlight, completionVars
<1>4. CASE RespondOutputs \/ RespondOutputsFails
  BY <1>4, <1>b DEF RespondOutputs, RespondOutputsFails,
     SlotsHeld, SlotsInFlight, completionVars
<1>5. CASE HandOver
  <2>1. life = "serving" /\ run \in Runs
    BY <1>5 DEF HandOver, TypeInv, RunStarted
  <2>2. queue' \in Seq(Runs) /\ Len(queue') = Len(queue) + 1
    BY <1>5, <2>1 DEF HandOver
  <2>3. SlotsHeld = 1 /\ SlotsHeld' = 0
    BY <1>5 DEF HandOver, SlotsHeld
  <2>4. SlotsInFlight' = SlotsInFlight + 1
    BY <1>5, <1>a, <2>2 DEF HandOver, SlotsInFlight, completionVars
  <2>5. QED
    BY <1>5, <1>a, <2>1, <2>2, <2>3, <2>4 DEF HandOver
<1>6. CASE ReleaseFailedRun
  <2>1. SlotsHeld = 1 /\ SlotsHeld' = 0 /\ SlotsInFlight' = SlotsInFlight
    BY <1>6 DEF ReleaseFailedRun, SlotsHeld, SlotsInFlight, completionVars
  <2>2. QED
    BY <1>6, <1>a, <2>1 DEF ReleaseFailedRun, Release
<1>7. CASE AwaitBarrier
  BY <1>7, <1>b DEF AwaitBarrier, SlotsHeld, SlotsInFlight, completionVars
<1>8. CASE AcquireSlot
  <2>1. SlotsHeld = 0 /\ SlotsHeld' = 1 /\ SlotsInFlight' = SlotsInFlight
    BY <1>8 DEF AcquireSlot, SlotsHeld, SlotsInFlight, completionVars
  <2>2. QED
    BY <1>8, <1>a, <2>1 DEF AcquireSlot, Acquire
<1>9. CASE GetPayload
  <2>1. CASE life = "serving"
    <3>1. /\ Head(queue) \in Runs
          /\ queue' \in Seq(Runs)
          /\ Len(queue') = Len(queue) - 1
      BY <1>9, <2>1 DEF GetPayload
    <3>2. completion = "get" /\ completion' = "input"
      BY <1>9, <3>1 DEF GetPayload, NullPayload, Runs
    <3>3. SlotsInFlight = Len(queue) /\ SlotsInFlight' = Len(queue) - 1 + 1
      BY <1>a, <3>1, <3>2 DEF SlotsInFlight
    <3>4. SlotsHeld' = SlotsHeld /\ SlotsInFlight' = SlotsInFlight
      BY <1>9, <1>a, <3>3 DEF GetPayload, SlotsHeld, issueVars
    <3>5. QED
      BY <1>9, <2>1, <3>1, <3>4 DEF GetPayload, issueVars
  <2>2. CASE life # "serving"
    BY <1>9, <2>2 DEF GetPayload, issueVars
  <2>3. QED
    BY <2>1, <2>2
<1>10. CASE ReleaseSlot
  <2>1. SlotsInFlight = Len(queue) + 1 /\ SlotsInFlight' = Len(queue) + 0
    BY <1>10 DEF ReleaseSlot, SlotsInFlight
  <2>2. SlotsHeld' = SlotsHeld
    BY <1>10 DEF ReleaseSlot, SlotsHeld, issueVars
  <2>3. QED
    BY <1>10, <1>a, <2>1, <2>2 DEF ReleaseSlot, Release, issueVars
<1>11. CASE AwaitOutput \/ UpdateStates \/ UpdateStatesFails \/ SendResponses
  BY <1>11, <1>b DEF AwaitOutput, UpdateStates, UpdateStatesFails,
     SendResponses, issueVars, SlotsHeld, SlotsInFlight
<1>12. CASE \E k \in Runs : DeviceStep(k)
  BY <1>12, <1>b DEF DeviceStep, InputCopied, InputsConsumed, Executed,
     OutputCopied, ShapeOutputCopied, issueVars, completionVars, SlotsHeld,
     SlotsInFlight
<1>13. CASE TeardownStep
  BY <1>13 DEF TeardownStep, Destroy, PutNullPayload, JoinCompletionThread,
     issueVars, completionVars
<1>14. CASE UNCHANGED vars
  BY <1>14, <1>b DEF vars, issueVars, completionVars, SlotsHeld, SlotsInFlight
<1>15. QED
  BY <1>1, <1>2, <1>3, <1>4, <1>5, <1>6, <1>7, <1>8, <1>9, <1>10, <1>11, <1>12,
     <1>13, <1>14 DEF Next, IssueStep, CompletionStep, Terminated

\* The number of units of the semaphore, with the one the issue thread holds
\* and those that travel with payloads, is what InitSemaphore created.
THEOREM SlotsAreConserved == Spec => []SlotsConserved
<1>1. Init => TypeInv /\ SlotsInv
  BY InitTypeOK, InitSlots DEF TypeInv, RunStarted, Init
<1>2. (TypeInv /\ SlotsInv) /\ [Next]_vars => (TypeInv /\ SlotsInv)'
  BY StepTypeInv, StepSlots
<1>3. SlotsInv => SlotsConserved
  BY DEF SlotsInv
<1>4. QED
  BY <1>1, <1>2, <1>3, PTL DEF Spec

LEMMA SlotsBoundRunAhead == TypeInv /\ SlotsInv => RunAheadBounded
<1> SUFFICES ASSUME TypeInv, SlotsInv, life = "serving"
             PROVE  Outstanding + SlotsHeld <= SemCount + 1
  BY DEF RunAheadBounded
<1>1. /\ semaphore \in Nat /\ SemCount \in Nat /\ SlotsHeld \in Nat
      /\ SlotsInFlight \in Nat /\ Len(queue) \in Nat
  BY SlotsTyped
<1>2. semaphore + SlotsHeld + SlotsInFlight = SemCount
  BY DEF SlotsInv, SlotsConserved
<1>3. Outstanding \in Nat /\ Outstanding <= SlotsInFlight + 1
  BY <1>1 DEF Outstanding, SlotsInFlight
<1>4. QED
  BY <1>1, <1>2, <1>3

\* The issue thread is never ahead of the completion thread by more than the
\* units of the semaphore and the one payload whose unit is already released.
THEOREM RunAheadIsBounded == Spec => []RunAheadBounded
<1>1. Init => TypeInv /\ SlotsInv
  BY InitTypeOK, InitSlots DEF TypeInv, RunStarted, Init
<1>2. (TypeInv /\ SlotsInv) /\ [Next]_vars => (TypeInv /\ SlotsInv)'
  BY StepTypeInv, StepSlots
<1>3. QED
  BY <1>1, <1>2, SlotsBoundRunAhead, PTL DEF Spec

-----------------------------------------------------------------------------
(***************************************************************************)
(* The order of runs.  While the instance serves, the payload being        *)
(* completed, those on the queue and the run being issued are strictly     *)
(* increasing, and none of them is released.  The destructor runs only     *)
(* when all are released, so it meets no payload.                          *)
(***************************************************************************)
OrderInv ==
  /\ completion \in {"get", "exited"} <=> current = NullPayload
  /\ \A k \in Runs : k > run => released[k] = 0
  /\ Issuing => released[run] = 0
  /\ life = "serving" =>
       /\ \A i \in 1 .. Len(queue) :
            /\ queue[i] \in Runs
            /\ queue[i] <= run
            /\ Issuing => queue[i] < run
            /\ released[queue[i]] = 0
            /\ current < queue[i]
       /\ \A i, j \in 1 .. Len(queue) : i < j => queue[i] < queue[j]
       /\ current # NullPayload =>
            /\ current <= run
            /\ Issuing => current < run
            /\ released[current] = 0
  /\ life # "serving" =>
       /\ issue = "ready"
       /\ current = NullPayload
       /\ \A i \in 1 .. Len(queue) : queue[i] = NullPayload

LEMMA InitOrder == Init => OrderInv
BY DEF Init, OrderInv, Issuing, NullPayload, Runs

\* Steps that leave runs, queue and payload alone keep the order.
LEMMA OrderUnchanged ==
  ASSUME OrderInv, Issuing' => Issuing,
         UNCHANGED <<run, queue, current, released, life, completion>>,
         life = "serving" \/ issue' = issue
  PROVE  OrderInv'
BY DEF OrderInv

\* The requests of the run being issued are released when it fails.
LEMMA OrderFailedRun ==
  ASSUME TypeInv, OrderInv, Issuing, ~Issuing',
         UNCHANGED <<run, queue, current, life, completion>>,
         released' = [released EXCEPT ![run] = @ + 1]
  PROVE  OrderInv'
<1>1. /\ life = "serving" /\ run \in Runs /\ run \in Nat
      /\ released \in [Runs -> Nat]
      /\ current \in {NullPayload} \cup Runs
  BY DEF OrderInv, Issuing, TypeInv, RunStarted, TypeOK
<1>2. \A k \in Runs : k # run => released'[k] = released[k]
  BY <1>1
<1>3. \A i \in 1 .. Len(queue) : queue[i] \in Runs /\ queue[i] < run
  BY <1>1 DEF OrderInv
<1>4. \A i \in 1 .. Len(queue) : released'[queue[i]] = 0
  <2> TAKE i \in 1 .. Len(queue)
  <2>1. queue[i] \in Runs /\ queue[i] < run /\ released[queue[i]] = 0
    BY <1>1 DEF OrderInv
  <2>2. queue[i] # run
    BY <1>1, <2>1 DEF Runs
  <2>3. QED
    BY <1>2, <2>1, <2>2
<1>5. current # NullPayload => current < run /\ released'[current] = 0
  <2> SUFFICES ASSUME current # NullPayload
               PROVE  current < run /\ released'[current] = 0
    OBVIOUS
  <2>1. current \in Runs /\ current < run /\ released[current] = 0
    BY <1>1 DEF OrderInv
  <2>2. current # run
    BY <1>1, <2>1 DEF Runs
  <2>3. QED
    BY <1>2, <2>1, <2>2
<1>6. \A k \in Runs : k > run => released'[k] = 0
  BY <1>1, <1>2 DEF OrderInv, Runs
<1>7. QED
  BY <1>1, <1>4, <1>5, <1>6 DEF OrderInv

\* So are those of the payload being completed.
LEMMA OrderFinishedRun ==
  ASSUME TypeInv, OrderInv, current \in Runs, current' = NullPayload,
         completion' \in {"get", "exited"},
         UNCHANGED <<issueVars, queue, life>>,
         released' = [released EXCEPT ![current] = @ + 1]
  PROVE  OrderInv'
<1>1. /\ life = "serving" /\ run \in Nat
      /\ released \in [Runs -> Nat]
      /\ current # NullPayload
      /\ queue \in Seq({NullPayload} \cup Runs)
  BY DEF OrderInv, TypeInv, TypeOK, NullPayload, Runs
<1>2. \A k \in Runs : k # current => released'[k] = released[k]
  BY <1>1
<1>3. /\ current <= run
      /\ Issuing => current < run
  BY <1>1 DEF OrderInv
<1>4. \A i \in 1 .. Len(queue) : current' < queue[i] /\ released'[queue[i]] = 0
  <2> TAKE i \in 1 .. Len(queue)
  <2>1. queue[i] \in Runs /\ current < queue[i] /\ released[queue[i]] = 0
    BY <1>1 DEF OrderInv
  <2>2. queue[i] # current
    BY <2>1 DEF Runs
  <2>3. QED
    BY <1>2, <2>1, <2>2 DEF NullPayload, Runs
<1>5. \A k \in Runs : k > run => released'[k] = 0
  BY <1>1, <1>2, <1>3 DEF OrderInv, Runs
<1>6. Issuing => released'[run] = 0
  <2>1. Issuing => run \in Runs
    BY DEF Issuing, TypeInv, RunStarted
  <2>2. QED
    BY <1>1, <1>2, <1>3, <2>1 DEF OrderInv, Runs
<1>7. Issuing' = Issuing
  BY DEF Issuing, issueVars
<1>8. QED
  BY <1>1, <1>4, <1>5, <1>6, <1>7 DEF OrderInv, issueVars

\* A good run goes to the end of the queue, behind smaller numbers.
LEMMA OrderHandOver ==
  ASSUME TypeInv, OrderInv, HandOver
  PROVE  OrderInv'
<1>1. /\ life = "serving" /\ life' = "serving"
      /\ Issuing /\ ~Issuing'
      /\ run \in Runs /\ run \in Nat
      /\ queue \in Seq({NullPayload} \cup Runs)
      /\ queue' = Append(queue, run)
      /\ released[run] = 0
      /\ UNCHANGED <<run, released, current, completion>>
  BY DEF HandOver, Issuing, OrderInv, TypeInv, RunStarted, TypeOK,
         completionVars, requestVars
<1>2. /\ Len(queue) \in Nat
      /\ Len(queue') = Len(queue) + 1
      /\ queue'[Len(queue) + 1] = run
      /\ \A i \in 1 .. Len(queue) : queue'[i] = queue[i]
  BY <1>1
<1>3. \A i \in 1 .. Len(queue') : i \in 1 .. Len(queue) \/ i = Len(queue) + 1
  BY <1>2
<1>4. \A i \in 1 .. Len(queue) :
        /\ queue[i] \in Runs
        /\ queue[i] < run
        /\ released[queue[i]] = 0
        /\ current < queue[i]
  BY <1>1 DEF OrderInv
<1>5. current < run
  BY <1>1 DEF OrderInv, NullPayload, Runs
<1>6. \A i \in 1 .. Len(queue') :
        /\ queue'[i] \in Runs
        /\ queue'[i] <= run
        /\ released[queue'[i]] = 0
        /\ current < queue'[i]
  <2> TAKE i \in 1 .. Len(queue')
  <2>1. CASE i \in 1 .. Len(queue)
    BY <1>2, <1>4, <2>1, <1>1 DEF Runs
  <2>2. CASE i = Len(queue) + 1
    BY <1>1, <1>2, <1>5, <2>2
  <2>3. QED
    BY <1>3, <2>1, <2>2
<1>7. ASSUME NEW i \in 1 .. Len(queue'), NEW j \in 1 .. Len(queue'), i < j
      PROVE  queue'[i] < queue'[j]
  <2>1. i \in 1 .. Len(queue)
    BY <1>2, <1>7
  <2>2. CASE j \in 1 .. Len(queue)
    BY <1>1, <1>2, <1>7, <2>1, <2>2 DEF OrderInv
  <2>3. CASE j = Len(queue) + 1
    BY <1>2, <1>4, <2>1, <2>3
  <2>4. QED
    BY <1>3, <2>2, <2>3
<1>8. current # NullPayload => current <= run /\ released[current] = 0
  BY <1>1 DEF OrderInv
<1>9. QED
  BY <1>1, <1>6, <1>7, <1>8 DEF OrderInv

\* The completion thread takes the smallest run of the queue.
LEMMA OrderGetPayload ==
  ASSUME TypeInv, OrderInv, GetPayload
  PROVE  OrderInv'
<1>1. /\ completion = "get" /\ current = NullPayload
      /\ queue # <<>>
      /\ queue \in Seq({NullPayload} \cup Runs)
      /\ queue' = Tail(queue)
      /\ current' = Head(queue)
      /\ completion' = IF Head(queue) = NullPayload THEN "exited" ELSE "input"
      /\ UNCHANGED <<issue, run, released, life>>
  BY DEF GetPayload, OrderInv, TypeInv, TypeOK, issueVars, requestVars
<1>2. /\ Len(queue) \in Nat /\ Len(queue) > 0
      /\ Len(queue') = Len(queue) - 1
      /\ current' = queue[1]
      /\ \A i \in 1 .. Len(queue') :
           i + 1 \in 1 .. Len(queue) /\ queue'[i] = queue[i + 1]
  BY <1>1
<1>3. Issuing' = Issuing
  BY <1>1 DEF Issuing
<1>4. CASE life = "serving"
  <2>1. \A i \in 1 .. Len(queue) :
          /\ queue[i] \in Runs
          /\ queue[i] <= run
          /\ Issuing => queue[i] < run
          /\ released[queue[i]] = 0
    BY <1>4 DEF OrderInv
  <2>2. \A i \in 1 .. Len(queue') : queue[1] < queue'[i]
    BY <1>2, <1>4 DEF OrderInv
  <2>3. \A i, j \in 1 .. Len(queue') : i < j => queue'[i] < queue'[j]
    BY <1>2, <1>4 DEF OrderInv
  <2>4. /\ current' \in Runs /\ current' # NullPayload
        /\ completion' = "input"
    BY <1>1, <1>2, <2>1 DEF NullPayload, Runs
  <2>5. \A i \in 1 .. Len(queue') :
          /\ queue'[i] \in Runs
          /\ queue'[i] <= run
          /\ Issuing => queue'[i] < run
          /\ released[queue'[i]] = 0
    BY <1>2, <2>1
  <2>6. /\ current' <= run
        /\ Issuing => current' < run
        /\ released[current'] = 0
    BY <1>2, <2>1
  <2>7. QED
    BY <1>1, <1>2, <1>3, <1>4, <2>2, <2>3, <2>4, <2>5, <2>6 DEF OrderInv
<1>5. CASE life # "serving"
  <2>1. \A i \in 1 .. Len(queue) : queue[i] = NullPayload
    BY <1>5 DEF OrderInv
  <2>2. /\ current' = NullPayload
        /\ completion' = "exited"
        /\ \A i \in 1 .. Len(queue') : queue'[i] = NullPayload
    BY <1>1, <1>2, <2>1
  <2>3. QED
    BY <1>1, <1>3, <1>5, <2>2 DEF OrderInv
<1>6. QED
  BY <1>4, <1>5

\* The destructor finds no payload, and leaves only null ones behind.
LEMMA OrderTeardown ==
  ASSUME TypeInv, OrderInv, TeardownStep
  PROVE  OrderInv'
<1>1. CASE Destroy
  <2>1. /\ life = "serving" /\ issue = "ready"
        /\ \A k \in Runs : k <= run => released[k] > 0
        /\ life' = "destroyed"
        /\ UNCHANGED <<issue, run, queue, current, completion, released>>
    BY <1>1 DEF Destroy, issueVars, completionVars, requestVars
  <2>2. current = NullPayload
    BY <2>1 DEF OrderInv, TypeInv, TypeOK
  <2>3. ASSUME NEW i \in 1 .. Len(queue)
        PROVE  FALSE
    BY <2>1, <2>3 DEF OrderInv
  <2>4. Issuing' = Issuing
    BY <2>1 DEF Issuing
  <2>5. QED
    BY <2>1, <2>2, <2>3, <2>4 DEF OrderInv
<1>2. CASE PutNullPayload
  <2>1. /\ life # "serving" /\ life' # "serving"
        /\ queue \in Seq({NullPayload} \cup Runs)
        /\ queue' = Append(queue, NullPayload)
        /\ UNCHANGED <<issue, run, current, completion, released>>
    BY <1>2 DEF PutNullPayload, TypeInv, TypeOK, issueVars, completionVars,
                requestVars
  <2>2. \A i \in 1 .. Len(queue') : queue'[i] = NullPayload
    BY <2>1 DEF OrderInv
  <2>3. Issuing' = Issuing
    BY <2>1 DEF Issuing
  <2>4. QED
    BY <2>1, <2>2, <2>3 DEF OrderInv
<1>3. CASE JoinCompletionThread
  <2>1. /\ life # "serving" /\ life' # "serving"
        /\ UNCHANGED <<issue, run, queue, current, completion, released>>
    BY <1>3 DEF JoinCompletionThread, issueVars, completionVars, requestVars
  <2>2. Issuing' = Issuing
    BY <2>1 DEF Issuing
  <2>3. QED
    BY <2>1, <2>2 DEF OrderInv
<1>4. QED
  BY <1>1, <1>2, <1>3 DEF TeardownStep

LEMMA StepOrder == TypeInv /\ OrderInv /\ [Next]_vars => OrderInv'
<1> SUFFICES ASSUME TypeInv, OrderInv, [Next]_vars PROVE OrderInv'
  OBVIOUS
<1>a. issue # "ready" => life = "serving"
  BY DEF OrderInv
<1>1. CASE StartRun
  <2>1. /\ life = "serving"
        /\ run' = run + 1 /\ run \in Nat /\ run' \in Runs
        /\ ~Issuing /\ Issuing'
        /\ released \in [Runs -> Nat]
        /\ UNCHANGED <<queue, current, completion, released, life>>
    <3>1. run \in 0 .. MaxRuns /\ released \in [Runs -> Nat]
      BY DEF TypeInv, TypeOK
    <3>2. run < MaxRuns /\ run' = run + 1
      BY <1>1 DEF StartRun
    <3>3. run \in Nat /\ run' \in Runs
      BY <3>1, <3>2, BoundsAssumption DEF Runs
    <3>4. QED
      BY <1>1, <3>1, <3>2, <3>3
         DEF StartRun, Issuing, completionVars, requestVars
  <2>2. released'[run'] = 0 /\ \A k \in Runs : k > run' => released'[k] = 0
    BY <2>1 DEF OrderInv, Runs
  <2>3. \A i \in 1 .. Len(queue) : queue[i] <= run' /\ queue[i] < run'
    BY <2>1 DEF OrderInv, Runs
  <2>4. current # NullPayload => current <= run' /\ current < run'
    BY <2>1 DEF OrderInv, TypeInv, TypeOK, Runs
  <2>5. QED
    BY <2>1, <2>2, <2>3, <2>4 DEF OrderInv
<1>2. CASE RejectRun
  BY <1>2, OrderFailedRun
     DEF RejectRun, RequestsRespondWithError, Issuing, completionVars
<1>3. CASE CreateResponses
  BY <1>3, <1>a, OrderUnchanged DEF CreateResponses, Issuing, completionVars
<1>w. CASE WriteShapeInputs
  BY <1>w, <1>a, OrderUnchanged
     DEF WriteShapeInputs, Issuing, completionVars, requestVars
<1>4. CASE CollectInputs
  BY <1>4, <1>a, OrderUnchanged DEF CollectInputs, Issuing, completionVars
<1>5. CASE CollectInputsFails
  BY <1>5, OrderFailedRun
     DEF CollectInputsFails, FailAll, AnswerAndRelease, Issuing, completionVars
<1>6. CASE EnqueueRun
  BY <1>6, <1>a, OrderUnchanged
     DEF EnqueueRun, Issuing, completionVars, requestVars
<1>7. CASE InferShapesFails
  BY <1>7, OrderFailedRun
     DEF InferShapesFails, FailAll, AnswerAndRelease, Issuing, completionVars
<1>8. CASE LaunchFails
  BY <1>8, OrderFailedRun
     DEF LaunchFails, FailAll, AnswerAndRelease, Issuing, completionVars
<1>9. CASE RespondOutputs
  BY <1>9, <1>a, OrderUnchanged DEF RespondOutputs, Issuing, completionVars
<1>10. CASE RespondOutputsFails
  BY <1>10, OrderFailedRun
     DEF RespondOutputsFails, FailAll, AnswerAndRelease, Issuing,
         completionVars
<1>11. CASE HandOver
  BY <1>11, OrderHandOver
<1>12. CASE ReleaseFailedRun
  BY <1>12, <1>a, OrderUnchanged
     DEF ReleaseFailedRun, Issuing, completionVars, requestVars
<1>13. CASE AwaitBarrier
  BY <1>13, <1>a, OrderUnchanged
     DEF AwaitBarrier, Issuing, completionVars, requestVars
<1>14. CASE AcquireSlot
  BY <1>14, <1>a, OrderUnchanged
     DEF AcquireSlot, Issuing, completionVars, requestVars
<1>15. CASE GetPayload
  BY <1>15, OrderGetPayload
<1>16. ASSUME completion \in {"input", "output", "states"},
              completion' \in {"output", "states", "statistics"},
              UNCHANGED <<issueVars, current, queue, released, life>>
       PROVE  OrderInv'
  <2>1. Issuing' = Issuing
    BY <1>16 DEF Issuing, issueVars
  <2>2. QED
    BY <1>16, <2>1 DEF OrderInv, issueVars
<1>17. CASE ReleaseSlot
  BY <1>16, <1>17 DEF ReleaseSlot, requestVars
<1>18. CASE AwaitOutput
  BY <1>16, <1>18 DEF AwaitOutput, requestVars
<1>19. CASE UpdateStates
  BY <1>16, <1>19 DEF UpdateStates, requestVars
<1>20. completion \in {"states", "statistics"} => current \in Runs
  BY DEF OrderInv, TypeInv, TypeOK
<1>21. CASE UpdateStatesFails
  BY <1>20, <1>21, OrderFinishedRun
     DEF UpdateStatesFails, FailAll, AnswerAndRelease
<1>22. CASE SendResponses
  BY <1>20, <1>22, OrderFinishedRun DEF SendResponses, AnswerAndRelease
<1>23. CASE \E k \in Runs : DeviceStep(k)
  BY <1>23, OrderUnchanged
     DEF DeviceStep, InputCopied, InputsConsumed, Executed, OutputCopied,
         ShapeOutputCopied, Issuing, issueVars, completionVars, requestVars
<1>24. CASE TeardownStep
  BY <1>24, OrderTeardown
<1>25. CASE UNCHANGED vars
  BY <1>25, OrderUnchanged
     DEF vars, Issuing, issueVars, completionVars, requestVars
<1>26. QED
  BY <1>w, <1>1, <1>2, <1>3, <1>4, <1>5, <1>6, <1>7, <1>8, <1>9, <1>10, <1>11,
     <1>12, <1>13, <1>14, <1>15, <1>17, <1>18, <1>19, <1>21, <1>22, <1>23,
     <1>24, <1>25
     DEF Next, IssueStep, CompletionStep, Terminated

\* When the destructor starts to free what the completion thread would use,
\* that thread has no payload left, neither in hand nor on the queue.
THEOREM NoPayloadLeft == Spec => []NoPayloadAtDestruction
<1>1. Init => TypeInv /\ OrderInv
  BY InitTypeOK, InitOrder DEF TypeInv, RunStarted, Init
<1>2. (TypeInv /\ OrderInv) /\ [Next]_vars => (TypeInv /\ OrderInv)'
  BY StepTypeInv, StepOrder
<1>3. OrderInv => NoPayloadAtDestruction
  BY DEF OrderInv, NoPayloadAtDestruction
<1>4. QED
  BY <1>1, <1>2, <1>3, PTL DEF Spec

-----------------------------------------------------------------------------
(***************************************************************************)
(* The refinement: how the steps of the threads change what the promise    *)
(* speaks of.                                                              *)
(***************************************************************************)
LEMMA AnsweredIsReleased ==
  ASSUME TypeInv, NEW k \in Runs, released' = [released EXCEPT ![k] = @ + 1]
  PROVE  Released' = Released \cup {k}
<1>1. /\ released \in [Runs -> Nat]
      /\ released'[k] = released[k] + 1
      /\ \A j \in Runs : j # k => released'[j] = released[j]
  BY DEF TypeInv, TypeOK
<1>2. released[k] \in Nat
  BY <1>1
<1>3. QED
  BY <1>1, <1>2 DEF Released

LEMMA PromiseFail ==
  ASSUME TypeInv, Issuing, ~Issuing', UNCHANGED <<run, queue, current>>,
         released' = [released EXCEPT ![run] = @ + 1]
  PROVE  Promise!Fail
<1>1. run \in Runs
  BY DEF Issuing, TypeInv, RunStarted
<1>2. Released' = Released \cup {run}
  BY <1>1, AnsweredIsReleased
<1>3. Pending' = Pending
  BY DEF Pending, Queued
<1>4. QED
  BY <1>2, <1>3 DEF Promise!Fail

LEMMA PromiseAccept ==
  ASSUME TypeInv, StartRun
  PROVE  Promise!Accept
<1>1. ~Issuing /\ Issuing'
  BY DEF StartRun, Issuing
<1>2. run' = run + 1 /\ run + 1 \in Runs
  <2>1. run \in 0 .. MaxRuns /\ run < MaxRuns /\ run' = run + 1
    BY DEF TypeInv, TypeOK, StartRun
  <2>2. QED
    BY <2>1, BoundsAssumption DEF Runs
<1>3. Pending' = Pending /\ Released' = Released
  BY DEF StartRun, Pending, Queued, Released, completionVars, requestVars
<1>4. QED
  BY <1>1, <1>2, <1>3 DEF Promise!Accept

LEMMA PromiseIssue ==
  ASSUME TypeInv, HandOver
  PROVE  Promise!Issue
<1>1. /\ Issuing /\ ~Issuing'
      /\ run \in Runs /\ run' = run
      /\ queue \in Seq({NullPayload} \cup Runs)
      /\ queue' = Append(queue, run)
      /\ current' = current /\ released' = released
  BY DEF HandOver, Issuing, TypeInv, RunStarted, TypeOK, completionVars,
         requestVars
<1>2. /\ Len(queue) \in Nat
      /\ Len(queue') = Len(queue) + 1
      /\ queue'[Len(queue) + 1] = run
      /\ \A i \in 1 .. Len(queue) : i \in 1 .. Len(queue') /\ queue'[i] = queue[i]
      /\ Len(queue) + 1 \in 1 .. Len(queue')
      /\ \A i \in 1 .. Len(queue') : i \in 1 .. Len(queue) \/ i = Len(queue) + 1
  BY <1>1
<1>3. Queued' = Queued \cup {run}
  BY <1>1, <1>2 DEF Queued
<1>4. Pending' = Pending \cup {run}
  BY <1>1, <1>3 DEF Pending
<1>5. Released' = Released
  BY <1>1 DEF Released
<1>6. QED
  BY <1>1, <1>4, <1>5 DEF Promise!Issue

LEMMA PromiseGetPayload ==
  ASSUME TypeInv, OrderInv, GetPayload
  PROVE  UNCHANGED <<run, Issuing, Pending, Released>>
<1>1. /\ current = NullPayload
      /\ queue # <<>>
      /\ queue \in Seq({NullPayload} \cup Runs)
      /\ queue' = Tail(queue)
      /\ current' = Head(queue)
      /\ UNCHANGED <<issue, run, released>>
  BY DEF GetPayload, OrderInv, TypeInv, TypeOK, issueVars, requestVars
<1>2. /\ Len(queue) \in Nat /\ Len(queue) > 0
      /\ current' = queue[1]
      /\ \A i \in 1 .. Len(queue') :
           i + 1 \in 1 .. Len(queue) /\ queue'[i] = queue[i + 1]
      /\ \A i \in 1 .. Len(queue) :
           i = 1 \/ (i - 1 \in 1 .. Len(queue') /\ queue'[i - 1] = queue[i])
      /\ 1 \in 1 .. Len(queue)
  BY <1>1
<1>3. \A k \in Runs : k \in Queued <=> k \in Queued' \/ k = current'
  <2> TAKE k \in Runs
  <2>1. ASSUME k \in Queued PROVE k \in Queued' \/ k = current'
    BY <1>2, <2>1 DEF Queued
  <2>2. ASSUME k \in Queued' PROVE k \in Queued
    BY <1>2, <2>2 DEF Queued
  <2>3. ASSUME k = current' PROVE k \in Queued
    BY <1>2, <2>3 DEF Queued
  <2>4. QED
    BY <2>1, <2>2, <2>3
<1>4. \A k \in Runs : k # current
  BY <1>1 DEF NullPayload, Runs
<1>5. Pending' = Pending
  BY <1>3, <1>4 DEF Pending
<1>6. Issuing' = Issuing /\ Released' = Released
  BY <1>1 DEF Issuing, Released
<1>7. QED
  BY <1>1, <1>5, <1>6

LEMMA PromiseFinish ==
  ASSUME TypeInv, OrderInv, current \in Runs, current' = NullPayload,
         UNCHANGED <<issueVars, queue>>,
         released' = [released EXCEPT ![current] = @ + 1]
  PROVE  Promise!Finish(current)
<1>1. /\ life = "serving"
      /\ released[current] = 0
      /\ \A i \in 1 .. Len(queue) : queue[i] \in Runs /\ current < queue[i]
  BY DEF OrderInv, NullPayload, Runs
<1>2. \A k \in Queued : current < k
  BY <1>1 DEF Queued
<1>3. current \in Pending /\ \A j \in Pending : current <= j
  BY <1>2 DEF Pending, Runs
<1>4. current \notin Released
  BY <1>1 DEF Released
<1>5. Released' = Released \cup {current}
  BY AnsweredIsReleased
<1>6. current \notin Queued
  BY <1>2 DEF Runs
<1>7. Queued' = Queued /\ \A k \in Runs : k # current'
  BY DEF Queued, NullPayload, Runs
<1>8. Pending' = Pending \ {current}
  BY <1>6, <1>7 DEF Pending
<1>9. run' = run /\ Issuing' = Issuing
  BY DEF Issuing, issueVars
<1>10. QED
  BY <1>3, <1>4, <1>5, <1>8, <1>9 DEF Promise!Finish

\* A step that leaves runs, queue, payload and releases alone is a stutter.
LEMMA PromiseStutter ==
  ASSUME UNCHANGED <<run, queue, current, released>>, Issuing' = Issuing
  PROVE  UNCHANGED Promise!vars
BY DEF Promise!vars, Pending, Queued, Released

\* The null payload of the destructor is no run.
LEMMA PromisePutNull ==
  ASSUME TypeInv, PutNullPayload
  PROVE  UNCHANGED Promise!vars
<1>1. /\ queue \in Seq({NullPayload} \cup Runs)
      /\ queue' = Append(queue, NullPayload)
      /\ UNCHANGED <<issue, run, current, released>>
  BY DEF PutNullPayload, TypeInv, TypeOK, issueVars, completionVars,
         requestVars
<1>2. /\ Len(queue') = Len(queue) + 1 /\ Len(queue) \in Nat
      /\ \A i \in 1 .. Len(queue) :
           i \in 1 .. Len(queue') /\ queue'[i] = queue[i]
      /\ \A i \in 1 .. Len(queue') :
           i \in 1 .. Len(queue) \/ queue'[i] = NullPayload
  BY <1>1
<1>3. \A k \in Runs : k # NullPayload
  BY DEF NullPayload, Runs
<1>4. Queued' = Queued
  BY <1>2, <1>3 DEF Queued
<1>5. QED
  BY <1>1, <1>4 DEF Promise!vars, Pending, Released, Issuing

LEMMA PromiseStep ==
  TypeInv /\ OrderInv /\ [Next]_vars => [Promise!Next]_(Promise!vars)
<1> SUFFICES ASSUME TypeInv, OrderInv, [Next]_vars
             PROVE  Promise!Next \/ UNCHANGED Promise!vars
  OBVIOUS
<1>1. CASE StartRun
  BY <1>1, PromiseAccept DEF Promise!Next
<1>2. CASE RejectRun
  <2>1. Promise!Fail
    BY <1>2, PromiseFail
       DEF RejectRun, RequestsRespondWithError, Issuing, completionVars
  <2>2. QED
    BY <2>1 DEF Promise!Next
<1>3. CASE \/ CreateResponses \/ WriteShapeInputs \/ CollectInputs
           \/ EnqueueRun \/ RespondOutputs
  BY <1>3, PromiseStutter
     DEF CreateResponses, WriteShapeInputs, CollectInputs, EnqueueRun,
         RespondOutputs, Issuing, completionVars, requestVars
<1>4. CASE CollectInputsFails \/ InferShapesFails \/ LaunchFails
           \/ RespondOutputsFails
  <2>1. Promise!Fail
    BY <1>4, PromiseFail
       DEF CollectInputsFails, InferShapesFails, LaunchFails,
           RespondOutputsFails, FailAll, AnswerAndRelease, Issuing,
           completionVars
  <2>2. QED
    BY <2>1 DEF Promise!Next
<1>5. CASE HandOver
  BY <1>5, PromiseIssue DEF Promise!Next
<1>6. CASE ReleaseFailedRun \/ AwaitBarrier \/ AcquireSlot
  BY <1>6, PromiseStutter
     DEF ReleaseFailedRun, AwaitBarrier, AcquireSlot, Issuing, completionVars,
         requestVars
<1>7. CASE GetPayload
  BY <1>7, PromiseGetPayload DEF Promise!vars
<1>8. CASE ReleaseSlot \/ AwaitOutput \/ UpdateStates
  BY <1>8, PromiseStutter
     DEF ReleaseSlot, AwaitOutput, UpdateStates, Issuing, issueVars,
         requestVars
<1>9. CASE UpdateStatesFails \/ SendResponses
  <2>1. current \in Runs
    BY <1>9 DEF UpdateStatesFails, SendResponses, OrderInv, TypeInv, TypeOK
  <2>2. Promise!Finish(current)
    BY <1>9, <2>1, PromiseFinish
       DEF UpdateStatesFails, SendResponses, FailAll, AnswerAndRelease
  <2>3. QED
    BY <2>1, <2>2 DEF Promise!Next
<1>10. CASE \E k \in Runs : DeviceStep(k)
  BY <1>10, PromiseStutter
     DEF DeviceStep, InputCopied, InputsConsumed, Executed, OutputCopied,
         ShapeOutputCopied, Issuing, issueVars, completionVars, requestVars
<1>11. CASE Destroy \/ JoinCompletionThread
  BY <1>11, PromiseStutter
     DEF Destroy, JoinCompletionThread, Issuing, issueVars, completionVars,
         requestVars
<1>12. CASE PutNullPayload
  BY <1>12, PromisePutNull
<1>13. CASE UNCHANGED vars
  BY <1>13, PromiseStutter
     DEF vars, Issuing, issueVars, completionVars, requestVars
<1>14. QED
  BY <1>1, <1>2, <1>3, <1>4, <1>5, <1>6, <1>7, <1>8, <1>9, <1>10, <1>11,
     <1>12, <1>13
     DEF Next, IssueStep, CompletionStep, TeardownStep, Terminated

\* The two threads, the semaphore, the events and the streams implement the
\* promise to Triton: runs are accepted one at a time, fail or become pending,
\* and pending runs are finished once each, in the order of acceptance.
THEOREM KeepsPromise == Spec => Promise!Spec
<1>1. Init => TypeInv /\ OrderInv
  BY InitTypeOK, InitOrder DEF TypeInv, RunStarted, Init
<1>2. (TypeInv /\ OrderInv) /\ [Next]_vars => (TypeInv /\ OrderInv)'
  BY StepTypeInv, StepOrder
<1>3. Init => Promise!Init
  BY DEF Init, Promise!Init, Issuing, Pending, Queued, Released, NullPayload,
         Runs
<1>4. TypeInv /\ OrderInv /\ [Next]_vars => [Promise!Next]_(Promise!vars)
  BY PromiseStep
<1>5. QED
  BY <1>1, <1>2, <1>3, <1>4, PTL DEF Spec, Promise!Spec

-----------------------------------------------------------------------------
(***************************************************************************)
(* Every request of InstancePipeline is answered once, whichever of the    *)
(* ways to answer a request its run takes: the error of one request, the   *)
(* error of the whole batch, or the responses the completion thread sends. *)
(***************************************************************************)

\* Run has created the responses of the payload.
Created(k) == k < run \/ (k = run /\ issue # "validate")

(***************************************************************************)
(* Until a run is released, the requests that have been answered are those *)
(* whose response is null; at its release the others are, too.  A null     *)
(* response without an answer is one that could not be created.            *)
(***************************************************************************)
RunAnswers(k) ==
  /\ released[k] <= 1
  /\ \A r \in Requests :
       /\ answers[k][r] <= 1
       /\ released[k] = 0 /\ response[k][r] # "null" => answers[k][r] = 0
       /\ released[k] = 1 /\ response[k][r] # "null" => answers[k][r] = 1
       /\ response[k][r] = "null" /\ answers[k][r] = 0 => "response" \in Faults
       /\ released[k] = 0 => (response[k][r] = "none" <=> ~Created(k))

AnswersInv == \A k \in Runs : RunAnswers(k)

LEMMA InitAnswers == Init => AnswersInv
BY DEF Init, AnswersInv, RunAnswers, Created, Runs

LEMMA AnswersTyped ==
  ASSUME TypeInv, NEW k \in Runs
  PROVE  /\ released[k] \in Nat
         /\ \A r \in Requests :
              /\ answers[k][r] \in Nat
              /\ response[k][r] \in {"none", "live", "null"}
BY DEF TypeInv, TypeOK

\* What a step does to other runs is nothing.
LEMMA AnswersFrame ==
  ASSUME AnswersInv, NEW k \in Runs,
         answers'[k] = answers[k], response'[k] = response[k],
         released'[k] = released[k],
         released[k] = 0 => (Created(k)' <=> Created(k))
  PROVE  RunAnswers(k)'
BY DEF AnswersInv, RunAnswers

\* Releasing a run answers all of its requests that were not.
LEMMA AnswersReleased ==
  ASSUME TypeInv, AnswersInv, NEW k \in Runs, released[k] = 0, Created(k),
         AnswerAndRelease(k), NEW bad \in SUBSET Live(k),
         response'[k] = [r \in Requests |->
                           IF r \in bad THEN "null" ELSE response[k][r]]
  PROVE  RunAnswers(k)'
<1>1. /\ answers \in [Runs -> [Requests -> Nat]]
      /\ released \in [Runs -> Nat]
  BY DEF TypeInv, TypeOK
<1>2. /\ released'[k] = 1
      /\ answers'[k] = [r \in Requests |->
                          answers[k][r] + IF r \in Live(k) THEN 1 ELSE 0]
  BY <1>1 DEF AnswerAndRelease
<1>3. ASSUME NEW r \in Requests
      PROVE  /\ answers'[k][r] <= 1
             /\ response'[k][r] # "null" => answers'[k][r] = 1
             /\ response'[k][r] = "null" /\ answers'[k][r] = 0 =>
                  "response" \in Faults
  <2>1. CASE r \in Live(k)
    <3>1. response[k][r] = "live" /\ answers[k][r] = 0
      BY <2>1 DEF Live, AnswersInv, RunAnswers
    <3>2. answers'[k][r] = 1
      BY <1>2, <2>1, <3>1
    <3>3. QED
      BY <3>2
  <2>2. CASE r \notin Live(k)
    <3>1. response[k][r] = "null"
      BY <2>2, AnswersTyped DEF Live, AnswersInv, RunAnswers
    <3>2. answers'[k][r] = answers[k][r] /\ answers[k][r] \in Nat
      BY <1>2, <2>2, AnswersTyped
    <3>3. response'[k][r] = "null"
      BY <3>1
    <3>4. QED
      BY <3>1, <3>2, <3>3 DEF AnswersInv, RunAnswers
  <2>3. QED
    BY <2>1, <2>2
<1>4. QED
  BY <1>2, <1>3 DEF RunAnswers

\* Requests that get their own error stay in the batch with a null response.
LEMMA AnswersOfRequests ==
  ASSUME TypeInv, AnswersInv, NEW k \in Runs, released[k] = 0, Created(k),
         Created(k)', NEW bad \in SUBSET Live(k), RespondAndSetNull(k, bad),
         released' = released
  PROVE  RunAnswers(k)'
<1>1. /\ answers \in [Runs -> [Requests -> Nat]]
      /\ response \in [Runs -> [Requests -> {"none", "live", "null"}]]
  BY DEF TypeInv, TypeOK
<1>2. /\ answers'[k] = [r \in Requests |->
                          answers[k][r] + IF r \in bad THEN 1 ELSE 0]
      /\ response'[k] = [r \in Requests |->
                           IF r \in bad THEN "null" ELSE response[k][r]]
  BY <1>1 DEF RespondAndSetNull
<1>3. ASSUME NEW r \in Requests
      PROVE  /\ answers'[k][r] <= 1
             /\ response'[k][r] # "null" => answers'[k][r] = 0
             /\ response'[k][r] = "null" /\ answers'[k][r] = 0 =>
                  "response" \in Faults
             /\ response'[k][r] # "none"
  <2>1. response[k][r] # "none"
    BY DEF AnswersInv, RunAnswers
  <2>2. CASE r \in bad
    <3>1. response[k][r] = "live" /\ answers[k][r] = 0
      BY <2>2 DEF Live, AnswersInv, RunAnswers
    <3>2. answers'[k][r] = 1 /\ response'[k][r] = "null"
      BY <1>2, <2>2, <3>1
    <3>3. QED
      BY <3>2
  <2>3. CASE r \notin bad
    <3>1. /\ answers'[k][r] = answers[k][r]
          /\ answers[k][r] \in Nat
          /\ response'[k][r] = response[k][r]
      BY <1>2, <2>3, AnswersTyped
    <3>2. QED
      BY <2>1, <3>1 DEF AnswersInv, RunAnswers
  <2>4. QED
    BY <2>2, <2>3
<1>4. released'[k] = 0
  OBVIOUS
<1>5. QED
  BY <1>3, <1>4 DEF RunAnswers

\* Other runs than the one a step answers.
LEMMA AnswersOthers ==
  ASSUME TypeInv, AnswersInv, NEW k \in Runs, NEW j \in Runs, j # k,
         released[j] = 0 => (Created(j)' <=> Created(j)),
         answers' = answers \/ \E f : answers' = [answers EXCEPT ![k] = f],
         response' = response \/ \E f : response' = [response EXCEPT ![k] = f],
         released' = released \/ \E f : released' = [released EXCEPT ![k] = f]
  PROVE  RunAnswers(j)'
<1>1. /\ answers \in [Runs -> [Requests -> Nat]]
      /\ response \in [Runs -> [Requests -> {"none", "live", "null"}]]
      /\ released \in [Runs -> Nat]
  BY DEF TypeInv, TypeOK
<1>2. /\ answers'[j] = answers[j]
      /\ response'[j] = response[j]
      /\ released'[j] = released[j]
  BY <1>1
<1>3. QED
  BY <1>2, AnswersFrame

\* A run that fails while it is being issued.
LEMMA AnswersFailedRun ==
  ASSUME TypeInv, OrderInv, AnswersInv, Issuing, issue # "validate",
         issue' = "failed", run' = run, NEW bad \in SUBSET Live(run),
         FailAll(run, bad)
  PROVE  AnswersInv'
<1>1. run \in Runs /\ released[run] = 0 /\ Created(run)
  BY DEF Issuing, TypeInv, RunStarted, OrderInv, Created
<1>2. /\ AnswerAndRelease(run)
      /\ response'[run] = [r \in Requests |->
                             IF r \in bad THEN "null" ELSE response[run][r]]
  BY <1>1 DEF FailAll, TypeInv, TypeOK
<1>3. RunAnswers(run)'
  <2>1. ASSUME NEW k \in Runs, k = run
        PROVE  RunAnswers(k)'
    BY <1>1, <1>2, <2>1, AnswersReleased
  <2>2. QED
    BY <1>1, <2>1
<1>4. ASSUME NEW j \in Runs, j # run
      PROVE  RunAnswers(j)'
  <2>1. Created(j)' <=> Created(j)
    BY <1>4 DEF Created
  <2>2. QED
    BY <1>1, <1>4, <2>1, AnswersOthers DEF FailAll, AnswerAndRelease
<1>5. QED
  BY <1>3, <1>4 DEF AnswersInv

\* The payload the completion thread answers.
LEMMA AnswersFinishedRun ==
  ASSUME TypeInv, OrderInv, AnswersInv, current \in Runs,
         UNCHANGED <<issue, run>>, AnswerAndRelease(current),
         response' = response \/ FailAll(current, {})
  PROVE  AnswersInv'
<1>1. /\ released[current] = 0
      /\ Created(current)
  BY DEF OrderInv, Created, Issuing, NullPayload, Runs, TypeInv, TypeOK
<1>2. response'[current] = response[current]
  <2>1. response[current] \in [Requests -> {"none", "live", "null"}]
    BY DEF TypeInv, TypeOK
  <2>2. [r \in Requests |-> IF r \in {} THEN "null" ELSE response[current][r]]
          = response[current]
    BY <2>1
  <2>3. QED
    BY <2>2 DEF FailAll, TypeInv, TypeOK
<1>3. ASSUME NEW k \in Runs, k = current
      PROVE  RunAnswers(k)'
  <2>1. response'[k] = [r \in Requests |->
                          IF r \in {} THEN "null" ELSE response[k][r]]
    BY <1>2, <1>3 DEF TypeInv, TypeOK
  <2>2. {} \in SUBSET Live(k)
    OBVIOUS
  <2>3. QED
    BY <1>1, <1>3, <2>1, <2>2, AnswersReleased
<1>4. ASSUME NEW j \in Runs, j # current
      PROVE  RunAnswers(j)'
  <2>1. Created(j)' <=> Created(j)
    BY DEF Created
  <2>2. QED
    BY <1>4, <2>1, AnswersOthers DEF FailAll, AnswerAndRelease
<1>5. QED
  BY <1>3, <1>4 DEF AnswersInv

\* Some requests of the run being issued get their own error.
LEMMA AnswersOfIssuedRun ==
  ASSUME TypeInv, OrderInv, AnswersInv, Issuing, issue # "validate",
         issue' # "validate", run' = run, released' = released,
         NEW bad \in SUBSET Live(run), RespondAndSetNull(run, bad)
  PROVE  AnswersInv'
<1>1. run \in Runs /\ released[run] = 0 /\ Created(run) /\ Created(run)'
  BY DEF Issuing, TypeInv, RunStarted, OrderInv, Created
<1>2. RunAnswers(run)'
  <2>1. ASSUME NEW k \in Runs, k = run
        PROVE  RunAnswers(k)'
    <3>1. Created(k)'
      BY <2>1 DEF Created
    <3>2. QED
      BY <1>1, <2>1, <3>1, AnswersOfRequests
  <2>2. QED
    BY <1>1, <2>1
<1>3. ASSUME NEW j \in Runs, j # run
      PROVE  RunAnswers(j)'
  <2>1. Created(j)' <=> Created(j)
    BY <1>3 DEF Created
  <2>2. QED
    BY <1>1, <1>3, <2>1, AnswersOthers DEF RespondAndSetNull
<1>4. QED
  BY <1>2, <1>3 DEF AnswersInv

\* A step that answers nobody.
LEMMA AnswersUnchanged ==
  ASSUME AnswersInv, UNCHANGED <<response, answers, released>>,
         \A k \in Runs : Created(k)' <=> Created(k)
  PROVE  AnswersInv'
BY DEF AnswersInv, RunAnswers

LEMMA StepAnswers == TypeInv /\ OrderInv /\ AnswersInv /\ [Next]_vars => AnswersInv'
<1> SUFFICES ASSUME TypeInv, OrderInv, AnswersInv, [Next]_vars
             PROVE  AnswersInv'
  OBVIOUS
<1>a. ASSUME issue # "validate", issue' # "validate", run' = run
      PROVE  \A k \in Runs : Created(k)' <=> Created(k)
  BY <1>a DEF Created
<1>b. ASSUME UNCHANGED <<issue, run>>
      PROVE  \A k \in Runs : Created(k)' <=> Created(k)
  BY <1>b DEF Created
<1>1. CASE StartRun
  <2>1. \A k \in Runs : Created(k)' <=> Created(k)
    BY <1>1 DEF StartRun, Created, TypeInv, TypeOK, Runs
  <2>2. QED
    BY <1>1, <2>1, AnswersUnchanged DEF StartRun, requestVars
<1>2. CASE RejectRun
  <2>1. /\ run \in Runs /\ released[run] = 0 /\ ~Created(run)
        /\ run' = run /\ response' = response
        /\ answers \in [Runs -> [Requests -> Nat]]
        /\ released \in [Runs -> Nat]
    BY <1>2 DEF RejectRun, Issuing, OrderInv, TypeInv, RunStarted, TypeOK,
                Created
  <2>2. /\ answers'[run] = [r \in Requests |-> answers[run][r] + 1]
        /\ released'[run] = 1
    BY <1>2, <2>1 DEF RejectRun, RequestsRespondWithError
  <2>3. \A r \in Requests : response[run][r] = "none" /\ answers[run][r] = 0
    BY <2>1 DEF AnswersInv, RunAnswers
  <2>4. RunAnswers(run)'
    BY <2>1, <2>2, <2>3 DEF RunAnswers
  <2>5. ASSUME NEW j \in Runs, j # run
        PROVE  RunAnswers(j)'
    <3>1. Created(j)' <=> Created(j)
      BY <2>1, <2>5 DEF Created
    <3>2. QED
      BY <1>2, <2>1, <2>5, <3>1, AnswersOthers
         DEF RejectRun, RequestsRespondWithError
  <2>6. QED
    BY <2>1, <2>4, <2>5 DEF AnswersInv
<1>3. CASE CreateResponses
  <2>1. /\ run \in Runs /\ released[run] = 0 /\ ~Created(run)
        /\ run' = run /\ answers' = answers /\ released' = released
        /\ Created(run)'
        /\ response \in [Runs -> [Requests -> {"none", "live", "null"}]]
    BY <1>3 DEF CreateResponses, Issuing, OrderInv, TypeInv, RunStarted,
                TypeOK, Created
  <2>2. PICK bad \in SUBSET Requests :
          /\ FaultOf("response", bad)
          /\ response' = [response EXCEPT ![run] =
                            [r \in Requests |->
                               IF r \in bad THEN "null" ELSE "live"]]
    BY <1>3 DEF CreateResponses
  <2>3. \A r \in Requests :
          response'[run][r] = IF r \in bad THEN "null" ELSE "live"
    BY <2>1, <2>2
  <2>4. bad # {} => "response" \in Faults
    BY <2>2 DEF FaultOf, Fault
  <2>5. \A r \in Requests : answers[run][r] = 0
    BY <2>1 DEF AnswersInv, RunAnswers
  <2>6. RunAnswers(run)'
    BY <2>1, <2>3, <2>4, <2>5 DEF RunAnswers
  <2>7. ASSUME NEW j \in Runs, j # run
        PROVE  RunAnswers(j)'
    <3>1. Created(j)' <=> Created(j)
      BY <2>1, <2>7 DEF Created
    <3>2. QED
      BY <2>1, <2>2, <2>7, <3>1, AnswersOthers
  <2>8. QED
    BY <2>1, <2>6, <2>7 DEF AnswersInv
<1>w. CASE WriteShapeInputs
  BY <1>w, <1>a, AnswersUnchanged DEF WriteShapeInputs, requestVars
<1>4. CASE CollectInputs
  BY <1>4, AnswersOfIssuedRun DEF CollectInputs, Issuing
<1>5. CASE CollectInputsFails
  BY <1>5, AnswersFailedRun DEF CollectInputsFails, Issuing
<1>6. CASE EnqueueRun
  BY <1>6, <1>a, AnswersUnchanged DEF EnqueueRun, requestVars
<1>7. CASE InferShapesFails \/ LaunchFails
  <2>1. /\ Issuing /\ issue # "validate" /\ issue' = "failed" /\ run' = run
        /\ FailAll(run, {}) /\ {} \in SUBSET Live(run)
    BY <1>7 DEF InferShapesFails, LaunchFails, Issuing
  <2>2. QED
    BY <2>1, AnswersFailedRun
<1>8. CASE RespondOutputs
  BY <1>8, AnswersOfIssuedRun DEF RespondOutputs, Issuing
<1>9. CASE RespondOutputsFails
  BY <1>9, AnswersFailedRun DEF RespondOutputsFails, Issuing
<1>10. CASE HandOver
  BY <1>10, <1>a, AnswersUnchanged DEF HandOver, requestVars
<1>11. CASE ReleaseFailedRun \/ AwaitBarrier \/ AcquireSlot
  BY <1>11, <1>a, AnswersUnchanged
     DEF ReleaseFailedRun, AwaitBarrier, AcquireSlot, requestVars
<1>12. CASE GetPayload \/ ReleaseSlot \/ AwaitOutput \/ UpdateStates
  BY <1>12, <1>b, AnswersUnchanged
     DEF GetPayload, ReleaseSlot, AwaitOutput, UpdateStates, issueVars,
         requestVars
<1>13. completion \in {"states", "statistics"} => current \in Runs
  BY DEF OrderInv, TypeInv, TypeOK
<1>14. CASE UpdateStatesFails \/ SendResponses
  BY <1>13, <1>14, AnswersFinishedRun
     DEF UpdateStatesFails, SendResponses, FailAll, issueVars
<1>15. CASE \E k \in Runs : DeviceStep(k)
  BY <1>15, <1>b, AnswersUnchanged
     DEF DeviceStep, InputCopied, InputsConsumed, Executed, OutputCopied,
         ShapeOutputCopied, issueVars, requestVars
<1>16. CASE TeardownStep
  BY <1>16, <1>b, AnswersUnchanged
     DEF TeardownStep, Destroy, PutNullPayload, JoinCompletionThread,
         issueVars, requestVars
<1>17. CASE UNCHANGED vars
  BY <1>17, <1>b, AnswersUnchanged DEF vars, issueVars, requestVars
<1>18. QED
  BY <1>w, <1>1, <1>2, <1>3, <1>4, <1>5, <1>6, <1>7, <1>8, <1>9, <1>10, <1>11,
     <1>12, <1>14, <1>15, <1>16, <1>17
     DEF Next, IssueStep, CompletionStep, Terminated

\* No request is answered or released twice, and none is released without an
\* answer except one whose response Triton could not create.
THEOREM EachAnsweredOnce == Spec => []AnsweredOnce
<1>1. Init => TypeInv /\ OrderInv /\ AnswersInv
  BY InitTypeOK, InitOrder, InitAnswers DEF TypeInv, RunStarted, Init
<1>2. (TypeInv /\ OrderInv /\ AnswersInv) /\ [Next]_vars
        => (TypeInv /\ OrderInv /\ AnswersInv)'
  BY StepTypeInv, StepOrder, StepAnswers
<1>3. TypeInv /\ AnswersInv => AnsweredOnce
  BY AnswersTyped DEF AnswersInv, RunAnswers, AnsweredOnce
<1>4. QED
  BY <1>1, <1>2, <1>3, PTL DEF Spec

-----------------------------------------------------------------------------
(***************************************************************************)
(* Device work.                                                            *)
(***************************************************************************)
\* Runs whose outputs the issue thread gave to the output stream, and those
\* whose execution it gave to stream_, unless they failed.
OutputsIssued == Pending \cup IF issue = "handover" THEN {run} ELSE {}
EngineEnqueued ==
  Pending \cup IF issue \in {"respond", "handover"} THEN {run} ELSE {}

BeforeOutputs ==
  issue \in {"validate", "shapes", "collect", "enqueue", "respond"}

\* The output stream is a FIFO: when the run an output_ready_ was recorded for
\* is copied, so are all earlier ones.
OutputsInOrder ==
  \A s \in EventSets :
    /\ events[s].output_ready <= run
    /\ BeforeOutputs => events[s].output_ready < run
    /\ events[s].output_ready \notin copyingOut =>
         \A k \in copyingOut : events[s].output_ready < k

\* While the responder's copies of a payload are not done, the event they are
\* waited for with was recorded by its run or, when the set was taken again, by
\* a later one.
OutputRecorded ==
  \A k \in OutputsIssued :
    k \in copyingOut => events[eventSet[k]].output_ready >= k

\* The stages of a run's device work follow one another.
StagesInOrder ==
  /\ consuming \subseteq executing
  /\ \A k \in EngineEnqueued : k \in copyingIn => k \in executing
  /\ \A k \in copyingOut : k <= run
  /\ BeforeOutputs => run \notin copyingOut
  /\ completion \in {"states", "statistics"} => current \notin copyingOut

DeviceInv ==
  /\ Issuing => eventSet[run] = next_set
  /\ OutputsInOrder
  /\ OutputRecorded
  /\ StagesInOrder

CompletionInv == TypeInv /\ OrderInv /\ DeviceInv

LEMMA InitDevice == Init => DeviceInv
BY DEF Init, DeviceInv, OutputsInOrder, OutputRecorded, StagesInOrder,
       OutputsIssued, EngineEnqueued, Pending, Queued, Issuing, BeforeOutputs,
       NoRun, NullPayload, Runs, EventSets, EVENT_SET_COUNT

LEMMA DeviceTyped ==
  ASSUME TypeInv
  PROVE  /\ run \in Nat
         /\ Issuing => run \in Runs
         /\ next_set \in EventSets
         /\ eventSet \in [Runs -> EventSets]
         /\ events \in [EventSets -> EventSetRecords]
         /\ \A s \in EventSets : /\ events[s] \in EventSetRecords
                                 /\ events[s].output_ready \in Nat
         /\ copyingOut \subseteq Runs
         /\ Runs \subseteq Nat
         /\ Pending \subseteq Runs
BY DEF TypeInv, TypeOK, RunStarted, Issuing, EventSetRecords, Runs, NoRun,
       Pending

\* Runs that wait for their completion are older than the one being issued.
LEMMA PendingIsOlder ==
  ASSUME TypeInv, OrderInv
  PROVE  \A k \in Pending : k <= run /\ (Issuing => k < run)
BY DEF OrderInv, Pending, Queued, NullPayload, Runs

\* Steps that change neither runs nor events nor issue work after the inputs.
LEMMA DeviceUnchanged ==
  ASSUME DeviceInv, consuming' \subseteq consuming,
         UNCHANGED <<run, next_set, eventSet, events, executing, copyingOut>>,
         Pending' \subseteq Pending,
         issue' # issue =>
           issue' \in {"shapes", "collect", "enqueue", "failed", "acquire",
                       "ready"},
         issue' \in {"shapes", "collect", "enqueue"} =>
           issue \in {"validate", "shapes", "collect", "enqueue"},
         Issuing' => Issuing,
         \A k \in EngineEnqueued' : k \in copyingIn' => k \in copyingIn,
         completion' \in {"states", "statistics"} => current' \notin copyingOut
  PROVE  DeviceInv'
<1>1. /\ OutputsIssued' \subseteq OutputsIssued
      /\ EngineEnqueued' \subseteq EngineEnqueued
  BY DEF OutputsIssued, EngineEnqueued
<1>2. BeforeOutputs' => BeforeOutputs
  BY DEF BeforeOutputs
<1>3. OutputsInOrder'
  BY <1>2 DEF DeviceInv, OutputsInOrder
<1>4. OutputRecorded'
  BY <1>1 DEF DeviceInv, OutputRecorded
<1>5. StagesInOrder'
  BY <1>1, <1>2 DEF DeviceInv, StagesInOrder
<1>6. QED
  BY <1>3, <1>4, <1>5 DEF DeviceInv

LEMMA DeviceStartRun ==
  ASSUME CompletionInv, StartRun
  PROVE  DeviceInv'
<1>1. /\ issue = "ready" /\ issue' = "validate" /\ run' = run + 1
      /\ run \in Nat /\ run' \in Runs
      /\ UNCHANGED <<next_set, completion, current, deviceVars>>
      /\ Pending' = Pending
  <2>1. run \in 0 .. MaxRuns /\ run < MaxRuns /\ run' = run + 1
    BY DEF CompletionInv, TypeInv, TypeOK, StartRun
  <2>2. run' \in Runs
    BY <2>1, BoundsAssumption DEF Runs
  <2>3. QED
    BY <2>1, <2>2 DEF StartRun, completionVars, Pending, Queued
<1>2. /\ eventSet' = [eventSet EXCEPT ![run'] = next_set]
      /\ events' = [events EXCEPT ![next_set].compute_input_start = run']
  BY <1>1 DEF StartRun
<1>3. \A s \in EventSets : events'[s].output_ready = events[s].output_ready
  BY <1>2, DeviceTyped DEF CompletionInv, EventSetRecords
<1>4. eventSet'[run'] = next_set'
  BY <1>1, <1>2, DeviceTyped DEF CompletionInv
<1>5. OutputsInOrder'
  BY <1>1, <1>3, DeviceTyped
     DEF CompletionInv, DeviceInv, OutputsInOrder, deviceVars, BeforeOutputs
<1>6. /\ OutputsIssued' = Pending /\ EngineEnqueued' = Pending
      /\ OutputsIssued = Pending /\ EngineEnqueued = Pending
  BY <1>1 DEF OutputsIssued, EngineEnqueued
<1>7. OutputRecorded'
  <2> SUFFICES ASSUME NEW k \in Pending, k \in copyingOut'
               PROVE  events'[eventSet'[k]].output_ready >= k
    BY <1>6 DEF OutputRecorded
  <2>1. k \in Runs /\ k # run'
    BY <1>1, PendingIsOlder, DeviceTyped DEF CompletionInv
  <2>2. eventSet'[k] = eventSet[k] /\ eventSet[k] \in EventSets
    BY <1>2, <2>1, DeviceTyped DEF CompletionInv
  <2>3. events[eventSet[k]].output_ready >= k
    BY <1>1, <1>6 DEF CompletionInv, DeviceInv, OutputRecorded, deviceVars
  <2>4. QED
    BY <1>3, <2>2, <2>3
<1>8. StagesInOrder'
  <2>1. \A k \in copyingOut : k < run'
    <3>1. \A k \in copyingOut : k <= run /\ k \in Nat
      BY DeviceTyped DEF CompletionInv, DeviceInv, StagesInOrder
    <3>2. QED
      BY <1>1, <3>1
  <2>2. copyingOut' = copyingOut /\ run' \in Nat /\ copyingOut \subseteq Nat
    BY <1>1, DeviceTyped DEF CompletionInv, deviceVars
  <2>3. (\A k \in copyingOut : k <= run)' /\ (run \notin copyingOut)'
    BY <2>1, <2>2
  <2>4. QED
    BY <1>1, <1>6, <2>3
       DEF CompletionInv, DeviceInv, StagesInOrder, deviceVars
<1>9. QED
  BY <1>4, <1>5, <1>7, <1>8 DEF DeviceInv

LEMMA DeviceEnqueueRun ==
  ASSUME CompletionInv, EnqueueRun
  PROVE  DeviceInv'
<1>1. /\ issue = "enqueue" /\ issue' = "respond" /\ Issuing
      /\ consuming' = consuming \cup {run}
      /\ executing' = executing \cup {run}
      /\ UNCHANGED <<run, next_set, eventSet, completion, current, copyingIn,
                     copyingOut>>
      /\ Pending' = Pending
  BY DEF EnqueueRun, Issuing, completionVars, Pending, Queued
<1>2. \A s \in EventSets : events'[s].output_ready = events[s].output_ready
  <2>1. events' = [events EXCEPT ![next_set] =
                     [events[next_set] EXCEPT !.ready_for_input = run,
                                              !.compute_output_start = run]]
    BY DeviceTyped DEF EnqueueRun, CompletionInv
  <2>2. events'[next_set].output_ready = events[next_set].output_ready
    BY <2>1, DeviceTyped DEF CompletionInv, EventSetRecords
  <2>3. \A s \in EventSets : s # next_set => events'[s] = events[s]
    BY <2>1, DeviceTyped DEF CompletionInv
  <2>4. QED
    BY <2>2, <2>3
<1>3. OutputsInOrder'
  BY <1>1, <1>2
     DEF CompletionInv, DeviceInv, OutputsInOrder, BeforeOutputs
<1>4. /\ OutputsIssued' = Pending /\ EngineEnqueued' = Pending \cup {run}
      /\ OutputsIssued = Pending /\ EngineEnqueued = Pending
  BY <1>1 DEF OutputsIssued, EngineEnqueued
<1>5. OutputRecorded'
  BY <1>1, <1>2, <1>4, DeviceTyped
     DEF CompletionInv, DeviceInv, OutputRecorded
<1>6. \A k \in Pending : k # run
  BY <1>1, PendingIsOlder, DeviceTyped DEF CompletionInv
<1>7. BeforeOutputs /\ run \notin copyingOut
  BY <1>1 DEF BeforeOutputs, CompletionInv, DeviceInv, StagesInOrder
<1>8. StagesInOrder'
  BY <1>1, <1>4, <1>6, <1>7 DEF CompletionInv, DeviceInv, StagesInOrder
<1>9. QED
  BY <1>1, <1>3, <1>5, <1>8 DEF CompletionInv, DeviceInv

LEMMA DeviceRespond ==
  ASSUME CompletionInv, RespondOutputs \/ RespondOutputsFails,
         copyingOut' = copyingOut \cup {run},
         events' = [events EXCEPT ![next_set].output_ready = run]
  PROVE  DeviceInv'
<1>1. /\ issue = "respond" /\ issue' \in {"handover", "failed"}
      /\ Issuing /\ BeforeOutputs /\ ~BeforeOutputs'
      /\ UNCHANGED <<run, next_set, eventSet, completion, current, copyingIn,
                     consuming, executing>>
      /\ Pending' = Pending
  BY DEF RespondOutputs, RespondOutputsFails, Issuing, BeforeOutputs,
         completionVars, Pending, Queued
<1>2. /\ events'[next_set].output_ready = run
      /\ \A s \in EventSets : s # next_set => events'[s] = events[s]
  BY DeviceTyped DEF CompletionInv, EventSetRecords
<1>3. /\ run \notin copyingOut
      /\ \A s \in EventSets : events[s].output_ready < run
      /\ \A k \in copyingOut : k <= run
      /\ eventSet[run] = next_set
  BY <1>1 DEF CompletionInv, DeviceInv, StagesInOrder, OutputsInOrder
<1>4. OutputsInOrder'
  <2> SUFFICES ASSUME NEW s \in EventSets
               PROVE  /\ events'[s].output_ready <= run
                      /\ events'[s].output_ready \notin copyingOut' =>
                           \A k \in copyingOut' : events'[s].output_ready < k
    BY <1>1 DEF OutputsInOrder
  <2>1. CASE s = next_set
    BY <1>2, <2>1, DeviceTyped DEF CompletionInv
  <2>2. CASE s # next_set
    BY <1>2, <1>3, <2>2, DeviceTyped
       DEF CompletionInv, DeviceInv, OutputsInOrder
  <2>3. QED
    BY <2>1, <2>2
<1>5. /\ OutputsIssued' \subseteq Pending \cup {run}
      /\ EngineEnqueued' \subseteq Pending \cup {run}
      /\ OutputsIssued = Pending /\ EngineEnqueued = Pending \cup {run}
  BY <1>1 DEF OutputsIssued, EngineEnqueued
<1>6. OutputRecorded'
  <2> SUFFICES ASSUME NEW k \in Pending \cup {run}, k \in copyingOut'
               PROVE  events'[eventSet[k]].output_ready >= k
    BY <1>1, <1>5 DEF OutputRecorded
  <2>1. k \in Runs /\ k <= run /\ eventSet[k] \in EventSets /\ run \in Nat
    BY <1>1, PendingIsOlder, DeviceTyped DEF CompletionInv
  <2>2. CASE eventSet[k] = next_set
    BY <1>2, <2>1, <2>2, DeviceTyped DEF CompletionInv
  <2>3. CASE eventSet[k] # next_set
    <3>1. k \in Pending /\ k \in copyingOut
      BY <1>3, <2>3
    <3>2. events[eventSet[k]].output_ready >= k
      BY <1>5, <3>1 DEF CompletionInv, DeviceInv, OutputRecorded
    <3>3. QED
      BY <1>2, <2>1, <2>3, <3>2
  <2>4. QED
    BY <2>2, <2>3
<1>7. StagesInOrder'
  <2>1. \A k \in Pending : k # run
    BY <1>1, PendingIsOlder, DeviceTyped DEF CompletionInv
  <2>2. completion \in {"states", "statistics"} =>
          current \in Pending /\ current # run
    <3>1. completion \in {"states", "statistics"} => current \in Runs
      BY DEF CompletionInv, OrderInv, TypeInv, TypeOK
    <3>2. QED
      BY <2>1, <3>1 DEF Pending
  <2>3. (\A k \in copyingOut : k <= run)'
    BY <1>1, <1>3, DeviceTyped DEF CompletionInv
  <2>4. QED
    BY <1>1, <1>5, <2>2, <2>3 DEF CompletionInv, DeviceInv, StagesInOrder
<1>8. QED
  BY <1>1, <1>3, <1>4, <1>6, <1>7 DEF DeviceInv

LEMMA DeviceRespondNothing ==
  ASSUME CompletionInv, RespondOutputs \/ RespondOutputsFails,
         UNCHANGED <<copyingOut, events>>
  PROVE  DeviceInv'
<1>1. /\ issue = "respond" /\ issue' \in {"handover", "failed"}
      /\ Issuing /\ BeforeOutputs /\ ~BeforeOutputs'
      /\ UNCHANGED <<run, next_set, eventSet, completion, current, copyingIn,
                     consuming, executing>>
      /\ Pending' = Pending
  BY DEF RespondOutputs, RespondOutputsFails, Issuing, BeforeOutputs,
         completionVars, Pending, Queued
<1>2. /\ OutputsIssued' \subseteq Pending \cup {run}
      /\ EngineEnqueued' \subseteq Pending \cup {run}
      /\ OutputsIssued = Pending /\ EngineEnqueued = Pending \cup {run}
  BY <1>1 DEF OutputsIssued, EngineEnqueued
<1>3. run \notin copyingOut
  BY <1>1 DEF CompletionInv, DeviceInv, StagesInOrder
<1>4. OutputsInOrder'
  BY <1>1 DEF CompletionInv, DeviceInv, OutputsInOrder
<1>5. OutputRecorded'
  BY <1>1, <1>2, <1>3 DEF CompletionInv, DeviceInv, OutputRecorded
<1>6. StagesInOrder'
  BY <1>1, <1>2 DEF CompletionInv, DeviceInv, StagesInOrder
<1>7. Issuing' => eventSet'[run'] = next_set'
  BY <1>1 DEF CompletionInv, DeviceInv
<1>8. QED
  BY <1>4, <1>5, <1>6, <1>7 DEF DeviceInv

LEMMA DeviceHandOver ==
  ASSUME CompletionInv, HandOver
  PROVE  DeviceInv'
<1>1. /\ issue = "handover" /\ ~BeforeOutputs /\ ~BeforeOutputs' /\ ~Issuing'
      /\ issue' \notin {"respond", "handover"}
      /\ UNCHANGED <<run, eventSet, events, completion, current, deviceVars>>
  BY DEF HandOver, Issuing, BeforeOutputs, completionVars
<1>2. Pending' = Pending \cup {run}
  BY PromiseIssue DEF CompletionInv, Promise!Issue
<1>3. OutputsIssued' = OutputsIssued /\ EngineEnqueued' = EngineEnqueued
  BY <1>1, <1>2 DEF OutputsIssued, EngineEnqueued
<1>4. OutputsInOrder' /\ OutputRecorded' /\ StagesInOrder'
  BY <1>1, <1>3
     DEF CompletionInv, DeviceInv, OutputsInOrder, OutputRecorded,
         StagesInOrder, deviceVars
<1>5. QED
  BY <1>1, <1>4 DEF DeviceInv

LEMMA DeviceAwaitOutput ==
  ASSUME CompletionInv, completion = "output",
         EventsOf(current).output_ready \notin copyingOut
  PROVE  current \notin copyingOut
<1> SUFFICES ASSUME current \in copyingOut PROVE FALSE
  OBVIOUS
<1>1. current \in Runs /\ current \in Pending
  BY DEF CompletionInv, OrderInv, TypeInv, TypeOK, Pending
<1>2. events[eventSet[current]].output_ready >= current
  BY <1>1 DEF CompletionInv, DeviceInv, OutputRecorded, OutputsIssued
<1>3. \A k \in copyingOut : events[eventSet[current]].output_ready < k
  BY <1>1, DeviceTyped
     DEF CompletionInv, DeviceInv, OutputsInOrder, EventsOf
<1>4. QED
  BY <1>1, <1>2, <1>3, DeviceTyped DEF CompletionInv

LEMMA DeviceWorkDone ==
  ASSUME CompletionInv, NEW d \in Runs,
         Executed(d) \/ OutputCopied(d) \/ ShapeOutputCopied(d)
  PROVE  DeviceInv'
<1>1. /\ UNCHANGED <<run, next_set, eventSet, events, issue, completion,
                     current, copyingIn, consuming>>
      /\ copyingOut' \subseteq copyingOut
      /\ Pending' = Pending
  BY DEF Executed, OutputCopied, ShapeOutputCopied, issueVars, completionVars,
         Pending, Queued
<1>2. /\ OutputsIssued' = OutputsIssued /\ EngineEnqueued' = EngineEnqueued
      /\ BeforeOutputs' = BeforeOutputs /\ Issuing' = Issuing
  BY <1>1 DEF OutputsIssued, EngineEnqueued, BeforeOutputs, Issuing
<1>3. OutputRecorded'
  BY <1>1, <1>2 DEF CompletionInv, DeviceInv, OutputRecorded
<1>s. CASE ShapeOutputCopied(d)
  BY <1>1, <1>2, <1>3, <1>s
     DEF ShapeOutputCopied, CompletionInv, DeviceInv, OutputsInOrder,
         StagesInOrder
<1>4. CASE Executed(d)
  BY <1>1, <1>2, <1>3, <1>4
     DEF Executed, Executable, CompletionInv, DeviceInv, OutputsInOrder,
         StagesInOrder
<1>5. CASE OutputCopied(d)
  <2>1. /\ executing' = executing /\ copyingOut' = copyingOut \ {d}
        /\ d \in copyingOut /\ \A j \in copyingOut : d <= j
        /\ d \notin executing
    BY <1>5 DEF OutputCopied
  <2>2. OutputsInOrder'
    BY <1>1, <1>2, <2>1, DeviceTyped
       DEF CompletionInv, DeviceInv, OutputsInOrder
  <2>3. StagesInOrder'
    BY <1>1, <1>2, <2>1 DEF CompletionInv, DeviceInv, StagesInOrder
  <2>4. QED
    BY <1>1, <1>2, <1>3, <2>2, <2>3 DEF CompletionInv, DeviceInv
<1>6. QED
  BY <1>s, <1>4, <1>5

LEMMA StepDevice == CompletionInv /\ [Next]_vars => DeviceInv'
<1> SUFFICES ASSUME CompletionInv, [Next]_vars PROVE DeviceInv'
  OBVIOUS
<1>a. /\ DeviceInv
      /\ completion \in {"states", "statistics"} => current \notin copyingOut
  BY DEF CompletionInv, DeviceInv, StagesInOrder
<1>b. ASSUME UNCHANGED <<queue, current>> PROVE Pending' = Pending
  BY <1>b DEF Pending, Queued
<1>1. CASE StartRun
  BY <1>1, DeviceStartRun
<1>2. CASE RejectRun \/ CreateResponses \/ WriteShapeInputs
           \/ InferShapesFails \/ LaunchFails \/ ReleaseFailedRun
           \/ AwaitBarrier \/ AcquireSlot
  <2>1. /\ UNCHANGED <<run, next_set, eventSet, events, deviceVars, queue,
                       completion, current>>
        /\ issue' \in {"shapes", "collect", "failed", "acquire", "ready"}
        /\ issue' \in {"shapes", "collect"} => issue \in {"validate", "shapes"}
    BY <1>2 DEF RejectRun, CreateResponses, WriteShapeInputs, InferShapesFails,
                LaunchFails, ReleaseFailedRun, AwaitBarrier, AcquireSlot,
                completionVars
  <2>2. QED
    BY <1>a, <1>b, <2>1, DeviceUnchanged DEF Issuing, deviceVars
<1>3. CASE CollectInputs \/ CollectInputsFails
  <2>1. /\ UNCHANGED <<run, next_set, eventSet, events, consuming, executing,
                       copyingOut, queue, completion, current>>
        /\ issue \in {"shapes", "collect"}
        /\ issue' \in {"enqueue", "failed"}
        /\ copyingIn' \subseteq copyingIn \cup {run}
    BY <1>3 DEF CollectInputs, CollectInputsFails, CopyInputs, completionVars
  <2>2. EngineEnqueued' = Pending /\ Issuing
    BY <1>b, <2>1 DEF EngineEnqueued, Issuing
  <2>3. \A k \in EngineEnqueued' : k # run
    BY <2>2, PendingIsOlder, DeviceTyped DEF CompletionInv
  <2>4. QED
    BY <1>a, <1>b, <2>1, <2>2, <2>3, DeviceUnchanged
<1>4. CASE EnqueueRun
  BY <1>4, DeviceEnqueueRun
<1>5. CASE RespondOutputs \/ RespondOutputsFails
  BY <1>5, DeviceRespond, DeviceRespondNothing
     DEF RespondOutputs, RespondOutputsFails, CopyOutputs
<1>7. CASE HandOver
  BY <1>7, DeviceHandOver
<1>8. CASE GetPayload
  <2>1. Pending' = Pending
    BY <1>8, PromiseGetPayload DEF CompletionInv
  <2>2. /\ UNCHANGED <<issueVars, events, deviceVars>>
        /\ completion' \notin {"states", "statistics"}
    BY <1>8 DEF GetPayload
  <2>3. QED
    BY <1>a, <2>1, <2>2, DeviceUnchanged
       DEF issueVars, deviceVars, Issuing, EngineEnqueued
<1>9. ASSUME UNCHANGED <<issueVars, events, deviceVars>>, Pending' = Pending,
             completion' \in {"states", "statistics"} =>
               current' \notin copyingOut
      PROVE  DeviceInv'
  BY <1>a, <1>9, DeviceUnchanged
     DEF issueVars, deviceVars, Issuing, EngineEnqueued
<1>10. CASE ReleaseSlot
  BY <1>9, <1>10, <1>b DEF ReleaseSlot
<1>11. CASE AwaitOutput
  BY <1>9, <1>11, <1>b, DeviceAwaitOutput DEF AwaitOutput
<1>12. CASE UpdateStates
  BY <1>9, <1>12, <1>a, <1>b DEF UpdateStates, requestVars
<1>13. CASE UpdateStatesFails \/ SendResponses
  <2>1. /\ UNCHANGED <<issueVars, events, deviceVars, queue>>
        /\ current' = NullPayload /\ completion' \in {"get", "exited"}
    BY <1>13 DEF UpdateStatesFails, SendResponses
  <2>2. Pending' \subseteq Pending
    BY <2>1 DEF Pending, Queued, NullPayload, Runs
  <2>3. QED
    BY <1>a, <2>1, <2>2, DeviceUnchanged
       DEF issueVars, deviceVars, Issuing, EngineEnqueued
<1>14. CASE \E k \in Runs : DeviceStep(k)
  <2>1. PICK d \in Runs : DeviceStep(d)
    BY <1>14
  <2>2. CASE InputCopied(d) \/ InputsConsumed(d)
    BY <1>a, <1>b, <2>2, DeviceUnchanged
       DEF InputCopied, InputsConsumed, issueVars, completionVars, Issuing,
           EngineEnqueued
  <2>3. CASE Executed(d) \/ OutputCopied(d) \/ ShapeOutputCopied(d)
    BY <2>3, DeviceWorkDone
  <2>4. QED
    BY <2>1, <2>2, <2>3 DEF DeviceStep
<1>15. CASE TeardownStep
  <2>1. UNCHANGED <<issueVars, events, deviceVars, completion, current>>
    BY <1>15
       DEF TeardownStep, Destroy, PutNullPayload, JoinCompletionThread,
           completionVars
  <2>2. Pending' = Pending
    <3>1. CASE PutNullPayload
      BY <3>1, PromisePutNull DEF CompletionInv, Promise!vars
    <3>2. CASE Destroy \/ JoinCompletionThread
      BY <3>2, <1>b DEF Destroy, JoinCompletionThread, completionVars
    <3>3. QED
      BY <1>15, <3>1, <3>2 DEF TeardownStep
  <2>3. QED
    BY <1>9, <1>a, <2>1, <2>2
<1>16. CASE UNCHANGED vars
  BY <1>9, <1>16, <1>a, <1>b DEF vars, completionVars
<1>17. QED
  BY <1>1, <1>2, <1>3, <1>4, <1>5, <1>7, <1>8, <1>10, <1>11, <1>12,
     <1>13, <1>14, <1>15, <1>16
     DEF Next, IssueStep, CompletionStep, Terminated

-----------------------------------------------------------------------------
(***************************************************************************)
(* The promise between the threads, for models with sequence states.       *)
(***************************************************************************)
Completing == completion \in {"input", "output", "states"}

\* The issue thread waits with one run handed over: it is on the queue, in
\* hand, or its states are updated.
BarrierInv ==
  UsesImplicitState /\ life = "serving" =>
    /\ Issuing => barrier = "pending"
    /\ issue # "barrier" => queue = <<>> /\ ~Completing
    /\ issue = "barrier" =>
         /\ queue \in {<<>>, <<run>>}
         /\ queue # <<>> => barrier = "pending" /\ ~Completing
         /\ Completing => current = run /\ barrier = "pending"

LEMMA InitBarrier == Init => BarrierInv
BY DEF Init, BarrierInv, Issuing, Completing

LEMMA BarrierUnchanged ==
  ASSUME BarrierInv, Issuing' => Issuing,
         issue' = "barrier" <=> issue = "barrier", Completing' => Completing,
         UNCHANGED <<run, queue, current, barrier, life>>
  PROVE  BarrierInv'
BY DEF BarrierInv

LEMMA StepBarrier ==
  TypeInv /\ OrderInv /\ BarrierInv /\ [Next]_vars => BarrierInv'
<1> SUFFICES ASSUME TypeInv, OrderInv, BarrierInv, [Next]_vars,
                    UsesImplicitState, life' = "serving"
             PROVE  BarrierInv'
  BY DEF BarrierInv
<1> USE DEF Issuing, Completing
<1>1. CASE StartRun
  BY <1>1 DEF StartRun, NewBarrier, completionVars, BarrierInv
<1>2. CASE \/ RejectRun \/ CreateResponses \/ WriteShapeInputs
           \/ CollectInputs \/ CollectInputsFails \/ EnqueueRun
           \/ InferShapesFails \/ LaunchFails \/ RespondOutputs
           \/ RespondOutputsFails \/ ReleaseFailedRun \/ AcquireSlot
  BY <1>2, BarrierUnchanged
     DEF RejectRun, CreateResponses, WriteShapeInputs, CollectInputs, CollectInputsFails,
         EnqueueRun, InferShapesFails, LaunchFails, RespondOutputs,
         RespondOutputsFails, ReleaseFailedRun, AcquireSlot, completionVars
<1>3. CASE HandOver
  <2>1. /\ life = "serving" /\ issue = "handover"
        /\ queue' = Append(queue, run)
        /\ UNCHANGED <<run, barrier, completion>>
        /\ issue' = IF barrier = "null" THEN "acquire" ELSE "barrier"
    BY <1>3 DEF HandOver, completionVars
  <2>2. barrier = "pending" /\ queue = <<>> /\ ~Completing
    BY <2>1 DEF BarrierInv
  <2>3. issue' = "barrier" /\ queue' = <<run>>
    BY <2>1, <2>2
  <2>4. QED
    BY <2>1, <2>2, <2>3 DEF BarrierInv
<1>4. CASE AwaitBarrier
  BY <1>4 DEF AwaitBarrier, completionVars, BarrierInv
<1>5. CASE GetPayload
  <2>1. /\ life = "serving" /\ queue # <<>>
        /\ queue' = Tail(queue) /\ current' = Head(queue)
        /\ UNCHANGED <<run, barrier, issue>>
    BY <1>5 DEF GetPayload, issueVars
  <2>2. issue = "barrier" /\ queue = <<run>> /\ barrier = "pending"
    BY <2>1 DEF BarrierInv
  <2>3. queue' = <<>> /\ current' = run
    BY <2>1, <2>2
  <2>4. QED
    BY <2>1, <2>2, <2>3 DEF BarrierInv
<1>6. CASE ReleaseSlot \/ AwaitOutput
  BY <1>6, BarrierUnchanged DEF ReleaseSlot, AwaitOutput, issueVars
<1>7. CASE UpdateStates
  BY <1>7 DEF UpdateStates, issueVars, BarrierInv
<1>8. CASE UpdateStatesFails \/ SendResponses
  BY <1>8 DEF UpdateStatesFails, SendResponses, issueVars, BarrierInv
<1>9. CASE \E k \in Runs : DeviceStep(k)
  BY <1>9, BarrierUnchanged
     DEF DeviceStep, InputCopied, InputsConsumed, Executed, OutputCopied,
         ShapeOutputCopied, issueVars, completionVars
<1>10. CASE TeardownStep
  BY <1>10
     DEF TeardownStep, Destroy, PutNullPayload, JoinCompletionThread,
         BarrierInv
<1>11. CASE UNCHANGED vars
  BY <1>11, BarrierUnchanged DEF vars, issueVars, completionVars
<1>12. QED
  BY <1>1, <1>2, <1>3, <1>4, <1>5, <1>6, <1>7, <1>8, <1>9, <1>10, <1>11
     DEF Next, IssueStep, CompletionStep, Terminated

\* The promise that UpdateStates fulfils was made for the payload in hand, the
\* issue thread waits for it, and nobody fulfilled it before.
THEOREM BarrierIsOfPayload == Spec => []BarrierOfPayload
<1> DEFINE Inv == TypeInv /\ OrderInv /\ BarrierInv
<1>1. Init => Inv
  BY InitTypeOK, InitOrder, InitBarrier DEF TypeInv, RunStarted, Init
<1>2. Inv /\ [Next]_vars => Inv'
  BY StepTypeInv, StepOrder, StepBarrier
<1>3. Inv => BarrierOfPayload
  <2> SUFFICES ASSUME Inv, UsesImplicitState, Completing
               PROVE  current = run /\ barrier = "pending" /\ issue = "barrier"
    BY DEF BarrierOfPayload, Completing
  <2>1. life = "serving"
    BY DEF OrderInv, Completing
  <2>2. QED
    BY <2>1 DEF BarrierInv
<1>4. QED
  <2> HIDE DEF Inv
  <2>1. QED
    BY <1>1, <1>2, <1>3, PTL DEF Spec

-----------------------------------------------------------------------------
(***************************************************************************)
(* Without eager batching the three event sets are enough: no two runs in  *)
(* use share one, and the timestamps the completion thread reads are those *)
(* its own run recorded.  (With eager batching a fourth run may take the   *)
(* set of a payload whose slot is released and whose outputs are not sent.)*)
(***************************************************************************)

\* The event set n runs after s, the sets being used in turn.
After(s, n) == (s + n) % EVENT_SET_COUNT

\* The events that time run k were recorded by run k.
RecordedBy(k) ==
  /\ EventsOf(k).compute_input_start = k
  /\ EventsOf(k).compute_output_start = k

Executing == issue \in {"respond", "handover"}

\* While a run is issued the queue is empty, since the run holds the one unit
\* of the semaphore; so the payload in hand is one set behind, and two when a
\* run was handed over since.
SetsInv ==
  life = "serving" =>
    /\ Issuing =>
         /\ eventSet[run] = next_set
         /\ events[next_set].compute_input_start = run
    /\ Executing => events[next_set].compute_output_start = run
    /\ queue # <<>> =>
         /\ After(eventSet[queue[1]], 1) = next_set
         /\ RecordedBy(queue[1])
    /\ current # NullPayload =>
         /\ After(eventSet[current], 1 + Len(queue)) = next_set
         /\ RecordedBy(current)

EventSetInv == TypeInv /\ SlotsInv /\ OrderInv /\ SetsInv

-----------------------------------------------------------------------------
LEMMA AfterDiffers ==
  /\ \A s \in EventSets : /\ After(s, 0) = s
                          /\ After(s, 1) \in EventSets
                          /\ After(s, 2) \in EventSets
  /\ \A s \in EventSets : After(s, 1) # s /\ After(s, 2) # s
  /\ \A s \in EventSets : After(After(s, 1), 1) = After(s, 2)
  /\ \A s, t \in EventSets : After(s, 1) = After(t, 2) => s # t
BY DEF After, EventSets, EVENT_SET_COUNT

LEMMA NextSetIsAfter == next_set \in EventSets => NextSet = After(next_set, 1)
BY DEF NextSet, After

\* The one unit of the semaphore bounds what can be under way.
LEMMA OneUnit ==
  ASSUME ~EagerBatching, TypeInv, SlotsInv, OrderInv, life = "serving"
  PROVE  /\ Len(queue) = 0 \/ Len(queue) = 1
         /\ issue \notin {"barrier", "acquire"} =>
              queue = <<>> /\ completion # "input"
         /\ \A i \in 1 .. Len(queue) : queue[i] \in Runs
<1>1. SemCount = 1
  BY DEF SemCount
<1>2. /\ semaphore \in Nat /\ SlotsHeld \in Nat
      /\ SlotsInFlight \in Nat /\ Len(queue) \in Nat
  BY SlotsTyped
<1>3. semaphore + SlotsHeld + SlotsInFlight = 1
  BY <1>1 DEF SlotsInv, SlotsConserved
<1>4. Len(queue) = 0 \/ Len(queue) = 1
  <2>1. Len(queue) <= SlotsInFlight
    BY <1>2 DEF SlotsInFlight
  <2>2. SlotsInFlight <= 1
    BY <1>2, <1>3
  <2>3. \A n, k \in Nat : n <= k /\ k <= 1 => n = 0 \/ n = 1
    OBVIOUS
  <2>4. QED
    BY <1>2, <2>1, <2>2, <2>3, Zenon
<1>5. ASSUME issue \notin {"barrier", "acquire"}
      PROVE  queue = <<>> /\ completion # "input"
  <2>1. SlotsHeld = 1
    BY <1>5 DEF SlotsHeld
  <2>2. SlotsInFlight = 0
    BY <1>2, <1>3, <2>1
  <2>3. Len(queue) = 0 /\ completion # "input"
    BY <1>2, <2>2 DEF SlotsInFlight
  <2>4. queue \in Seq({NullPayload} \cup Runs)
    BY DEF TypeInv, TypeOK
  <2>5. QED
    BY <2>3, <2>4
<1>6. QED
  BY <1>4, <1>5 DEF OrderInv

LEMMA InitSets == Init => SetsInv
BY DEF Init, SetsInv, Issuing, Executing

\* Steps that neither start a run nor move a payload.
LEMMA SetsUnchanged ==
  ASSUME SetsInv, Issuing' => Issuing, Executing' => Executing,
         UNCHANGED <<run, next_set, eventSet, queue, current, events, life>>
  PROVE  SetsInv'
BY DEF SetsInv, RecordedBy, EventsOf

\* While the current event set is recorded, the payload in hand has another.
LEMMA SetsOfPayloads ==
  ASSUME ~EagerBatching, EventSetInv, life = "serving",
         issue \notin {"barrier", "acquire"},
         \A s \in EventSets : s # next_set => events'[s] = events[s],
         UNCHANGED <<next_set, queue, current>>,
         \A k \in Runs : k # run' => eventSet'[k] = eventSet[k],
         current # run'
  PROVE  /\ queue' = <<>>
         /\ current' # NullPayload =>
              /\ After(eventSet'[current'], 1 + Len(queue')) = next_set'
              /\ RecordedBy(current)'
<1>1. queue = <<>>
  BY OneUnit DEF EventSetInv
<1>2. SUFFICES ASSUME current # NullPayload
               PROVE  /\ After(eventSet'[current], 1 + Len(queue)) = next_set
                      /\ RecordedBy(current)'
  BY <1>1
<1>3. current \in Runs /\ eventSet[current] \in EventSets
  BY <1>2 DEF EventSetInv, TypeInv, TypeOK
<1>4. eventSet'[current] = eventSet[current]
  BY <1>3
<1>5. Len(queue) = 0
  BY <1>1
<1>6. After(eventSet[current], 1) = next_set /\ RecordedBy(current)
  BY <1>2, <1>5 DEF EventSetInv, SetsInv
<1>7. eventSet[current] # next_set
  BY <1>3, <1>6, AfterDiffers
<1>8. events'[eventSet'[current]] = events[eventSet[current]]
  BY <1>3, <1>4, <1>7
<1>9. RecordedBy(current)'
  BY <1>6, <1>8 DEF RecordedBy, EventsOf
<1>10. QED
  BY <1>4, <1>5, <1>6, <1>9
LEMMA SetsStartRun ==
  ASSUME ~EagerBatching, EventSetInv, StartRun
  PROVE  SetsInv'
<1>1. /\ life = "serving" /\ issue = "ready" /\ issue' = "validate"
      /\ UNCHANGED <<next_set, queue, current>>
  BY DEF StartRun, completionVars
<1>2. /\ run \in 0 .. MaxRuns /\ next_set \in EventSets
      /\ eventSet \in [Runs -> EventSets]
      /\ events \in [EventSets -> EventSetRecords]
      /\ current \in {NullPayload} \cup Runs
  BY DEF EventSetInv, TypeInv, TypeOK
<1>3. /\ run' = run + 1 /\ run' \in Runs
      /\ eventSet' = [eventSet EXCEPT ![run'] = next_set]
      /\ events' = [events EXCEPT ![next_set].compute_input_start = run']
  BY <1>2, BoundsAssumption DEF StartRun, Runs
<1>4. current # run'
  BY <1>1, <1>2, <1>3 DEF EventSetInv, OrderInv, NullPayload, Runs
<1>5. /\ \A s \in EventSets : s # next_set => events'[s] = events[s]
      /\ \A k \in Runs : k # run' => eventSet'[k] = eventSet[k]
  BY <1>2, <1>3
<1>6. /\ eventSet'[run'] = next_set'
      /\ events'[next_set'].compute_input_start = run'
  BY <1>1, <1>2, <1>3 DEF EventSetRecords
<1>7. ~Executing'
  BY <1>1 DEF Executing
<1>8. QED
  BY <1>1, <1>4, <1>5, <1>6, <1>7, SetsOfPayloads DEF SetsInv

\* The other events of the current set are recorded by the run being issued.
LEMMA SetsRecord ==
  ASSUME ~EagerBatching, EventSetInv, Issuing,
         UNCHANGED <<run, next_set, eventSet, queue, current, life>>,
         NEW e \in EventSetRecords, events' = [events EXCEPT ![next_set] = e],
         Issuing' =>
           e.compute_input_start = events[next_set].compute_input_start,
         Executing' => e.compute_output_start = run
  PROVE  SetsInv'
<1> SUFFICES ASSUME life = "serving" PROVE SetsInv'
  BY DEF SetsInv
<1>1. /\ run \in Runs /\ next_set \in EventSets
      /\ events \in [EventSets -> EventSetRecords]
      /\ current \in {NullPayload} \cup Runs
  BY DEF EventSetInv, TypeInv, TypeOK, RunStarted, Issuing
<1>2. issue \notin {"barrier", "acquire"}
  BY DEF Issuing
<1>3. current # run'
  BY <1>1 DEF EventSetInv, OrderInv, NullPayload, Runs
<1>4. /\ \A s \in EventSets : s # next_set => events'[s] = events[s]
      /\ \A k \in Runs : k # run' => eventSet'[k] = eventSet[k]
      /\ events'[next_set] = e
  BY <1>1
<1>5. /\ eventSet'[run'] = next_set'
      /\ events[next_set].compute_input_start = run
  BY DEF EventSetInv, SetsInv
<1>6. QED
  BY <1>2, <1>3, <1>4, <1>5, SetsOfPayloads DEF SetsInv

LEMMA SetsHandOver ==
  ASSUME ~EagerBatching, EventSetInv, HandOver
  PROVE  SetsInv'
<1>1. /\ life = "serving" /\ Issuing /\ Executing /\ ~Issuing' /\ ~Executing'
      /\ issue \notin {"barrier", "acquire"}
      /\ UNCHANGED <<run, eventSet, events, current>>
      /\ next_set' = NextSet /\ queue' = Append(queue, run)
  BY DEF HandOver, Issuing, Executing, completionVars, EventSetInv, OrderInv
<1>2. /\ run \in Runs /\ next_set \in EventSets
      /\ eventSet \in [Runs -> EventSets]
      /\ current \in {NullPayload} \cup Runs
  BY <1>1 DEF EventSetInv, TypeInv, TypeOK, RunStarted, Issuing
<1>3. queue = <<>>
  BY <1>1, OneUnit DEF EventSetInv
<1>4. queue' = <<run>> /\ Len(queue) = 0 /\ Len(queue') = 1
  BY <1>1, <1>3
<1>5. next_set' = After(next_set, 1)
  BY <1>1, <1>2, NextSetIsAfter
<1>6. eventSet[run] = next_set /\ RecordedBy(run)
  BY <1>1 DEF EventSetInv, SetsInv, RecordedBy, EventsOf
<1>7. After(eventSet'[queue'[1]], 1) = next_set' /\ RecordedBy(queue[1])'
  <2>1. queue'[1] = run
    BY <1>4
  <2>2. QED
    BY <1>1, <1>5, <1>6, <2>1 DEF RecordedBy, EventsOf
<1>8. ASSUME current' # NullPayload
      PROVE  /\ After(eventSet'[current'], 1 + Len(queue')) = next_set'
             /\ RecordedBy(current)'
  <2>1. current # NullPayload /\ current \in Runs
    BY <1>1, <1>2, <1>8
  <2>2. After(eventSet[current], 1) = next_set /\ RecordedBy(current)
    BY <1>1, <1>4, <2>1 DEF EventSetInv, SetsInv
  <2>3. next_set' = After(eventSet[current], 2)
    BY <1>2, <1>5, <2>1, <2>2, AfterDiffers
  <2>4. QED
    BY <1>1, <1>4, <2>2, <2>3 DEF RecordedBy, EventsOf
<1>9. QED
  BY <1>1, <1>7, <1>8 DEF SetsInv

LEMMA SetsGetPayload ==
  ASSUME ~EagerBatching, EventSetInv, GetPayload
  PROVE  SetsInv'
<1> SUFFICES ASSUME life' = "serving" PROVE SetsInv'
  BY DEF SetsInv
<1>1. /\ life = "serving" /\ queue # <<>> /\ queue' = Tail(queue)
      /\ current' = Head(queue)
      /\ UNCHANGED <<run, next_set, eventSet, events, issue>>
  BY DEF GetPayload, issueVars
<1>2. queue \in Seq({NullPayload} \cup Runs)
  BY DEF EventSetInv, TypeInv, TypeOK
<1>3. Len(queue) = 1 /\ issue \in {"barrier", "acquire"}
  BY <1>1, <1>2, OneUnit DEF EventSetInv
<1>4. queue' = <<>> /\ Len(queue') = 0 /\ current' = queue[1]
  BY <1>1, <1>2, <1>3
<1>5. ~Issuing' /\ ~Executing'
  BY <1>1, <1>3 DEF Issuing, Executing
<1>6. After(eventSet[queue[1]], 1) = next_set /\ RecordedBy(queue[1])
  BY <1>1 DEF EventSetInv, SetsInv
<1>7. After(eventSet'[current'], 1 + Len(queue')) = next_set'
  <2>1. 1 + Len(queue') = 1
    BY <1>4
  <2>2. eventSet'[current'] = eventSet[queue[1]] /\ next_set' = next_set
    BY <1>1, <1>4
  <2>3. QED
    BY <1>6, <2>1, <2>2
<1>8. RecordedBy(current)'
  BY <1>1, <1>4, <1>6 DEF RecordedBy, EventsOf
<1>9. QED
  BY <1>4, <1>5, <1>7, <1>8 DEF SetsInv
-----------------------------------------------------------------------------
LEMMA StepSets ==
  ASSUME ~EagerBatching, EventSetInv, [Next]_vars
  PROVE  SetsInv'
<1> USE DEF Issuing, Executing
<1>a. SetsInv
  BY DEF EventSetInv
<1>b. /\ events \in [EventSets -> EventSetRecords]
      /\ next_set \in EventSets
      /\ run \in {NoRun} \cup Runs
      /\ events[next_set] \in EventSetRecords
  BY DEF EventSetInv, TypeInv, TypeOK, NoRun, Runs
<1>1. CASE StartRun
  BY <1>1, SetsStartRun
<1>2. CASE \/ RejectRun \/ CreateResponses \/ WriteShapeInputs
           \/ CollectInputs \/ CollectInputsFails
  BY <1>2, <1>a, SetsUnchanged
     DEF RejectRun, CreateResponses, WriteShapeInputs, CollectInputs, CollectInputsFails,
         completionVars
<1>3. CASE EnqueueRun
  <2> DEFINE e == [events[next_set] EXCEPT !.ready_for_input = run,
                                           !.compute_output_start = run]
  <2>1. e \in EventSetRecords
    BY <1>b DEF EventSetRecords
  <2>2. /\ e.compute_input_start = events[next_set].compute_input_start
        /\ e.compute_output_start = run
    BY <1>b DEF EventSetRecords
  <2>3. events' = [events EXCEPT ![next_set] = e]
    BY <1>3, <1>b DEF EnqueueRun
  <2>4. UNCHANGED <<run, next_set, eventSet, queue, current, life>>
    BY <1>3 DEF EnqueueRun, completionVars
  <2>5. Issuing
    BY <1>3 DEF EnqueueRun
  <2> HIDE DEF e
  <2>6. QED
    BY <2>1, <2>2, <2>3, <2>4, <2>5, SetsRecord
<1>4. CASE InferShapesFails \/ LaunchFails \/ ReleaseFailedRun
           \/ AwaitBarrier \/ AcquireSlot
  BY <1>4, <1>a, SetsUnchanged
     DEF InferShapesFails, LaunchFails, ReleaseFailedRun, AwaitBarrier,
         AcquireSlot, completionVars
<1>5. CASE RespondOutputs \/ RespondOutputsFails
  <2> DEFINE e == [events[next_set] EXCEPT !.output_ready = run]
  <2>1. e \in EventSetRecords
    BY <1>b DEF EventSetRecords
  <2>2. /\ e.compute_input_start = events[next_set].compute_input_start
        /\ e.compute_output_start = events[next_set].compute_output_start
    BY <1>b DEF EventSetRecords
  <2>3. /\ Issuing /\ Executing
        /\ UNCHANGED <<run, next_set, eventSet, queue, current, life>>
    BY <1>5 DEF RespondOutputs, RespondOutputsFails, completionVars
  <2>4. life = "serving"
    BY <2>3 DEF EventSetInv, OrderInv
  <2>5. e.compute_output_start = run
    BY <1>a, <2>2, <2>3, <2>4 DEF SetsInv
  <2>6. CASE events' = [events EXCEPT ![next_set] = e]
    <3> HIDE DEF e
    <3>1. QED
      BY <2>1, <2>2, <2>3, <2>5, <2>6, SetsRecord
  <2>7. CASE UNCHANGED events
    BY <1>a, <2>3, <2>7, SetsUnchanged
  <2>8. QED
    BY <1>5, <1>b, <2>6, <2>7
       DEF RespondOutputs, RespondOutputsFails, CopyOutputs
<1>6. CASE HandOver
  BY <1>6, SetsHandOver
<1>7. CASE GetPayload
  BY <1>7, SetsGetPayload
<1>8. CASE ReleaseSlot \/ AwaitOutput \/ UpdateStates
  BY <1>8, <1>a, SetsUnchanged
     DEF ReleaseSlot, AwaitOutput, UpdateStates, issueVars
<1>9. CASE UpdateStatesFails \/ SendResponses
  BY <1>9, <1>a
     DEF UpdateStatesFails, SendResponses, issueVars, SetsInv, RecordedBy,
         EventsOf
<1>10. CASE \E k \in Runs : DeviceStep(k)
  BY <1>10, <1>a, SetsUnchanged
     DEF DeviceStep, InputCopied, InputsConsumed, Executed, OutputCopied,
         ShapeOutputCopied, issueVars, completionVars
<1>11. CASE TeardownStep
  BY <1>11
     DEF TeardownStep, Destroy, PutNullPayload, JoinCompletionThread, SetsInv
<1>12. CASE UNCHANGED vars
  BY <1>12, <1>a, SetsUnchanged DEF vars, issueVars, completionVars
<1>13. QED
  BY <1>1, <1>2, <1>3, <1>4, <1>5, <1>6, <1>7, <1>8, <1>9, <1>10, <1>11, <1>12
     DEF Next, IssueStep, CompletionStep, Terminated

LEMMA EventSetInvariant == ASSUME ~EagerBatching PROVE Spec => []EventSetInv
<1>1. Init => EventSetInv
  BY InitTypeOK, InitSlots, InitOrder, InitSets
     DEF EventSetInv, TypeInv, RunStarted, Init
<1>2. EventSetInv /\ [Next]_vars => EventSetInv'
  BY StepTypeInv, StepSlots, StepOrder, StepSets DEF EventSetInv
<1>3. QED
  BY <1>1, <1>2, PTL DEF Spec

\* In use are the run being issued, or the one on the queue, and the payload
\* in hand; their sets are one or two apart.
LEMMA SetsExclude ==
  ASSUME ~EagerBatching, EventSetInv
  PROVE  EventSetExclusive
<1>1. CASE life # "serving"
  <2>1. RunsInUse = {}
    BY <1>1
       DEF EventSetInv, OrderInv, RunsInUse, Issuing, Pending, Queued,
           NullPayload, Runs
  <2>2. QED
    BY <2>1 DEF EventSetExclusive
<1>2. CASE life = "serving"
  <2>1. /\ Len(queue) = 0 \/ Len(queue) = 1
        /\ Issuing => queue = <<>>
    BY <1>2, OneUnit DEF EventSetInv, Issuing
  <2>2. /\ eventSet \in [Runs -> EventSets]
        /\ current \in {NullPayload} \cup Runs
        /\ Issuing => run \in Runs
        /\ \A i \in 1 .. Len(queue) : queue[i] \in Runs
        /\ queue \in Seq({NullPayload} \cup Runs)
    BY <1>2 DEF EventSetInv, TypeInv, TypeOK, RunStarted, Issuing, OrderInv
  <2>3. CASE current = NullPayload \/ current \notin RunsInUse
    <3>1. \A j, k \in RunsInUse : j = k
      BY <2>1, <2>2, <2>3 DEF RunsInUse, Pending, Queued, NullPayload, Runs
    <3>2. QED
      BY <3>1 DEF EventSetExclusive
  <2>4. CASE current # NullPayload
    <3>1. After(eventSet[current], 1 + Len(queue)) = next_set
      BY <1>2, <2>4 DEF EventSetInv, SetsInv
    <3>2. ASSUME NEW k \in RunsInUse, k # current
          PROVE  eventSet[k] # eventSet[current]
      <4>1. CASE Issuing /\ k = run
        <5>1. eventSet[k] = next_set /\ Len(queue) = 0
          BY <1>2, <2>1, <4>1 DEF EventSetInv, SetsInv
        <5>2. QED
          BY <2>2, <2>4, <3>1, <5>1, AfterDiffers
      <4>2. CASE Len(queue) = 1 /\ k = queue[1]
        <5>1. After(eventSet[k], 1) = next_set
          <6>1. queue # <<>>
            BY <4>2
          <6>2. QED
            BY <1>2, <4>2, <6>1 DEF EventSetInv, SetsInv
        <5>2. After(eventSet[current], 2) = next_set
          BY <3>1, <4>2
        <5>3. eventSet[k] \in EventSets /\ eventSet[current] \in EventSets
          BY <2>2, <2>4, <4>2
        <5>4. QED
          BY <5>1, <5>2, <5>3, AfterDiffers
      <4>3. QED
        BY <2>1, <3>2, <4>1, <4>2 DEF RunsInUse, Pending, Queued
    <3>3. \A j, k \in RunsInUse : j # current /\ k # current => j = k
      BY <2>1 DEF RunsInUse, Pending, Queued
    <3>4. QED
      BY <3>2, <3>3 DEF EventSetExclusive
  <2>5. QED
    BY <2>3, <2>4
<1>3. QED
  BY <1>1, <1>2

\* "One group should be used for one request at any given moment": without
\* eager batching two runs in use never have the same event set.
THEOREM EventSetsAreExclusive ==
  ASSUME ~EagerBatching PROVE Spec => []EventSetExclusive
BY EventSetInvariant, SetsExclude, PTL

\* Without eager batching the timestamps reported for a payload come from
\* events that its own run recorded.
THEOREM StatisticsAreOfOwnRun ==
  ASSUME ~EagerBatching PROVE Spec => []StatisticsOfOwnRun
<1>1. EventSetInv => StatisticsOfOwnRun
  <2> SUFFICES ASSUME EventSetInv, completion = "statistics"
               PROVE  RecordedBy(current)
    BY DEF StatisticsOfOwnRun, RecordedBy
  <2>1. current # NullPayload /\ life = "serving"
    BY DEF EventSetInv, OrderInv
  <2>2. QED
    BY <2>1 DEF EventSetInv, SetsInv
<1>2. QED
  BY <1>1, EventSetInvariant, PTL

-----------------------------------------------------------------------------
(***************************************************************************)
(* The binding buffers.  The collector's copies into an input buffer never *)
(* meet the engine still reading the inputs of an earlier run from it:     *)
(* with eager batching the collector waits for the event of the run that   *)
(* used the buffer set last; without, the one unit of the semaphore comes  *)
(* back only when the previous run's inputs are consumed, which makes the  *)
(* memcpy of shape values safe as well.                                    *)
(* The engine never overwrites outputs that are still copied, unless both  *)
(* eager batching and a stream for outputs are chosen (output_overwritten).*)
(***************************************************************************)
BeforeEngine == issue \in {"validate", "shapes", "collect", "enqueue"}

\* The run that was last told to signal ready_for_input_ of set s.
InputReader(s) == events[s].ready_for_input

\* Inputs are consumed in the order of the runs.
InputsInOrder ==
  \A s \in EventSets :
    /\ InputReader(s) <= run
    /\ BeforeEngine => InputReader(s) < run
    /\ InputReader(s) \notin consuming =>
         \A k \in consuming : InputReader(s) < k

InputRecorded == \A k \in EngineEnqueued : InputReader(eventSet[k]) >= k

\* The slot of a payload is released when its inputs are consumed.
ConsumedWhenReleased ==
  completion \in {"output", "states", "statistics"} => current \notin consuming

\* A run that is not released is being issued or pending.
Accounted ==
  \A j \in Runs :
    j <= run /\ released[j] = 0 => j \in Pending \/ (Issuing /\ j = run)

\* Pending runs with the buffers b come no later than the one recorded in s.
NoneAfter(s, b) == \A j \in Pending : bufferSet[j] = b => j <= InputReader(s)

\* Event sets and buffer sets advance together, so the event of the previous
\* user of the buffers is one or two sets behind.
SetOfLastRun == (EVENT_SET_COUNT - 1 + next_set) % EVENT_SET_COUNT

PreviousUsers ==
  /\ NoneAfter(PrevSet, next_buffer_binding_set)
  /\ SeparateOutputStream => NoneAfter(SetOfLastRun, NextBufferSet)

BufferInv ==
  /\ Issuing => bufferSet[run] = next_buffer_binding_set
  /\ \A k \in copyingIn \cup consuming : k <= run
  /\ InputsInOrder
  /\ InputRecorded
  /\ ConsumedWhenReleased
  /\ Accounted
  /\ PreviousUsers

\* InputBufferSafe, for the collector's copies.
CopiesSafe ==
  \A j \in consuming, k \in copyingIn :
    j < k /\ released[j] = 0 => bufferSet[j] # bufferSet[k]

InputInv == CompletionInv /\ SlotsInv /\ BufferInv /\ CopiesSafe

-----------------------------------------------------------------------------
LEMMA SetsTyped ==
  ASSUME TypeInv
  PROVE  /\ next_set \in EventSets /\ PrevSet \in EventSets
         /\ SetOfLastRun \in EventSets
         /\ PrevSet # next_set /\ SetOfLastRun # next_set
         /\ next_buffer_binding_set \in BufferSets
         /\ bufferSet \in [Runs -> BufferSets]
         /\ \A s \in EventSets : InputReader(s) \in Nat
         /\ copyingIn \subseteq Runs /\ consuming \subseteq Runs
         /\ released \in [Runs -> Nat]
<1>1. /\ next_set \in EventSets /\ next_buffer_binding_set \in BufferSets
      /\ bufferSet \in [Runs -> BufferSets]
      /\ events \in [EventSets -> EventSetRecords]
      /\ copyingIn \subseteq Runs /\ consuming \subseteq Runs
      /\ released \in [Runs -> Nat]
  BY DEF TypeInv, TypeOK
<1>2. \A s \in EventSets : InputReader(s) \in Nat
  BY <1>1 DEF InputReader, EventSetRecords, NoRun, Runs
<1>3. /\ PrevSet \in EventSets /\ SetOfLastRun \in EventSets
      /\ PrevSet # next_set /\ SetOfLastRun # next_set
  BY <1>1 DEF PrevSet, SetOfLastRun, num_copy_streams, EventSets,
              EVENT_SET_COUNT
<1>4. QED
  BY <1>1, <1>2, <1>3

\* How the sets advance when a run is handed over.
LEMMA SetsAdvance ==
  ASSUME TypeInv, next_set' = NextSet, next_buffer_binding_set' = NextBufferSet
  PROVE  /\ SetOfLastRun' = next_set
         /\ SeparateOutputStream =>
              /\ PrevSet' = SetOfLastRun
              /\ NextBufferSet' = next_buffer_binding_set
              /\ NextBufferSet # next_buffer_binding_set
         /\ ~SeparateOutputStream =>
              PrevSet' = next_set /\ NextBufferSet = next_buffer_binding_set
<1>1. next_set \in 0 .. 2 /\ next_set' = (next_set + 1) % 3
  BY SetsTyped DEF EventSets, EVENT_SET_COUNT, NextSet
<1>2. /\ next_set = 0 => next_set' = 1
      /\ next_set = 1 => next_set' = 2
      /\ next_set = 2 => next_set' = 0
  BY <1>1
<1>3. SetOfLastRun' = next_set
  BY <1>1, <1>2 DEF SetOfLastRun, EVENT_SET_COUNT
<1>4. CASE SeparateOutputStream
  <2>1. num_copy_streams = 2 /\ (num_copy_streams = 2)'
    BY <1>4 DEF num_copy_streams
  <2>2. PrevSet' = (3 - (2 % 3) + next_set') % 3
    BY <2>1 DEF PrevSet, EVENT_SET_COUNT
  <2>3. PrevSet' = SetOfLastRun
    BY <1>1, <1>2, <2>2 DEF SetOfLastRun, EVENT_SET_COUNT
  <2>4. /\ next_buffer_binding_set \in 0 .. 1
        /\ NextBufferSet = (next_buffer_binding_set + 1) % 2
        /\ NextBufferSet' = (next_buffer_binding_set' + 1) % 2
        /\ next_buffer_binding_set' = (next_buffer_binding_set + 1) % 2
    BY <2>1, SetsTyped DEF BufferSets, NextBufferSet
  <2>5. /\ NextBufferSet' = next_buffer_binding_set
        /\ NextBufferSet # next_buffer_binding_set
    BY <2>4
  <2>6. QED
    BY <1>3, <1>4, <2>3, <2>5
<1>5. CASE ~SeparateOutputStream
  <2>1. num_copy_streams = 1 /\ (num_copy_streams = 1)'
    BY <1>5 DEF num_copy_streams
  <2>2. PrevSet' = (3 - (1 % 3) + next_set') % 3
    BY <2>1 DEF PrevSet, EVENT_SET_COUNT
  <2>3. PrevSet' = next_set
    BY <1>1, <1>2, <2>2
  <2>4. /\ next_buffer_binding_set = 0
        /\ NextBufferSet = (next_buffer_binding_set + 1) % 1
    BY <2>1, SetsTyped DEF BufferSets, NextBufferSet
  <2>5. QED
    BY <1>3, <1>5, <2>3, <2>4
<1>6. QED
  BY <1>4, <1>5

LEMMA InitBuffer == Init => BufferInv /\ CopiesSafe
BY DEF Init, BufferInv, InputsInOrder, InputRecorded, ConsumedWhenReleased,
       Accounted, PreviousUsers, NoneAfter, InputReader, CopiesSafe,
       EngineEnqueued, Pending, Queued, Issuing, BeforeEngine, NoRun,
       NullPayload, Runs, EventSets, EVENT_SET_COUNT

\* Steps that keep the sets and the events, and neither read nor write inputs.
LEMMA BufferUnchanged ==
  ASSUME BufferInv, Accounted',
         UNCHANGED <<run, next_set, next_buffer_binding_set, eventSet,
                     bufferSet, consuming>>,
         \A s \in EventSets : InputReader(s)' = InputReader(s),
         next_set \in EventSets, eventSet \in [Runs -> EventSets],
         PrevSet \in EventSets, SetOfLastRun \in EventSets,
         EngineEnqueued \subseteq Runs,
         copyingIn' \subseteq copyingIn \cup {run}, run \in Nat,
         Pending' \subseteq Pending, Issuing' => Issuing,
         BeforeEngine' => BeforeEngine,
         EngineEnqueued' \subseteq EngineEnqueued,
         completion' \in {"output", "states", "statistics"} =>
           current' \notin consuming
  PROVE  BufferInv'
<1>1. PrevSet' = PrevSet /\ SetOfLastRun' = SetOfLastRun
      /\ NextBufferSet' = NextBufferSet
  BY DEF PrevSet, SetOfLastRun, NextBufferSet
<1>2. PreviousUsers'
  BY <1>1 DEF BufferInv, PreviousUsers, NoneAfter
<1>3. InputsInOrder'
  BY DEF BufferInv, InputsInOrder
<1>4. InputRecorded'
  <2>1. \A k \in EngineEnqueued :
          InputReader(eventSet[k])' = InputReader(eventSet[k])
    BY DEF InputReader
  <2>2. QED
    BY <2>1 DEF BufferInv, InputRecorded
<1>5. QED
  BY <1>2, <1>3, <1>4 DEF BufferInv, ConsumedWhenReleased
\* A run that failed is released, and so is one that is finished.
LEMMA AccountedStays ==
  ASSUME Accounted, UNCHANGED <<run, released>>, Pending \subseteq Pending',
         Issuing => Issuing'
  PROVE  Accounted'
BY DEF Accounted

LEMMA AccountedFailed ==
  ASSUME TypeInv, Accounted, Issuing, UNCHANGED run, Pending' = Pending,
         released' = [released EXCEPT ![run] = @ + 1]
  PROVE  Accounted'
<1> SUFFICES ASSUME NEW j \in Runs, j <= run, released'[j] = 0
             PROVE  j \in Pending
  BY DEF Accounted
<1>1. j # run /\ released'[j] = released[j]
  BY SetsTyped
<1>2. QED
  BY <1>1 DEF Accounted

LEMMA AccountedFinished ==
  ASSUME TypeInv, OrderInv, Accounted, current \in Runs,
         current' = NullPayload, UNCHANGED <<issueVars, queue>>,
         released' = [released EXCEPT ![current] = @ + 1]
  PROVE  Accounted'
<1>1. Pending' = Pending \ {current}
  BY PromiseFinish DEF Promise!Finish
<1> SUFFICES ASSUME NEW j \in Runs, j <= run, released'[j] = 0
             PROVE  j \in Pending' \/ (Issuing' /\ j = run)
  BY DEF Accounted, issueVars
<1>2. j # current /\ released'[j] = released[j]
  BY SetsTyped
<1>3. j \in Pending \/ (Issuing /\ j = run)
  BY <1>2 DEF Accounted
<1>4. Issuing' = Issuing
  BY DEF Issuing, issueVars
<1>5. QED
  BY <1>1, <1>2, <1>3, <1>4

-----------------------------------------------------------------------------
(***************************************************************************)
(* The copy itself.                                                        *)
(***************************************************************************)
\* With eager batching the event waited for is that of the last user of the
\* buffers or of a later run; without, every earlier run consumed its inputs.
LEMMA EarlierReadersDone ==
  ASSUME InputInv, issue = "collect", InputBufferFree, NEW j \in consuming,
         j < run, released[j] = 0
  PROVE  bufferSet[j] # bufferSet[run]
<1>1. j \in Runs /\ run \in Nat /\ Issuing
  BY SetsTyped, DeviceTyped DEF InputInv, CompletionInv, Issuing
<1>2. j \in Pending
  BY <1>1, DeviceTyped DEF InputInv, BufferInv, Accounted
<1>3. bufferSet[run] = next_buffer_binding_set
  BY <1>1 DEF InputInv, BufferInv
<1>4. CASE EagerBatching
  <2>1. PrevSet \in EventSets /\ InputReader(PrevSet) \notin consuming
    BY <1>4, SetsTyped
       DEF InputBufferFree, InputReader, InputInv, CompletionInv
  <2>2. InputReader(PrevSet) < j
    BY <2>1 DEF InputInv, BufferInv, InputsInOrder
  <2>3. bufferSet[j] = next_buffer_binding_set => j <= InputReader(PrevSet)
    BY <1>2 DEF InputInv, BufferInv, PreviousUsers, NoneAfter
  <2>4. InputReader(PrevSet) \in Nat /\ j \in Nat
    BY <1>1, <2>1, SetsTyped DEF InputInv, CompletionInv, Runs
  <2>5. QED
    BY <1>3, <2>2, <2>3, <2>4
<1>5. CASE ~EagerBatching
  <2>1. life = "serving"
    BY DEF InputInv, CompletionInv, OrderInv
  <2>2. queue = <<>> /\ completion # "input"
    BY <1>5, <2>1, OneUnit DEF InputInv, CompletionInv
  <2>3. j = current
    BY <1>2, <2>2 DEF Pending, Queued
  <2>4. completion \in {"output", "states", "statistics"}
    BY <1>1, <2>2, <2>3
       DEF InputInv, CompletionInv, OrderInv, TypeInv, TypeOK,
           CompletionSteps, NullPayload, Runs
  <2>5. QED
    BY <2>3, <2>4 DEF InputInv, BufferInv, ConsumedWhenReleased
<1>6. QED
  BY <1>4, <1>5 DEF InputInv, CompletionInv, TypeInv, TypeOK

\* Steps that start no copy and no engine keep the buffers safe.
LEMMA SafeUnchanged ==
  ASSUME CopiesSafe, consuming' \subseteq consuming,
         copyingIn' \subseteq copyingIn, UNCHANGED bufferSet,
         \A j \in consuming : released'[j] = 0 => released[j] = 0
  PROVE  CopiesSafe'
BY DEF CopiesSafe

LEMMA SafeCopy ==
  ASSUME InputInv, issue = "collect", InputBufferFree,
         copyingIn' = copyingIn \cup {run},
         UNCHANGED <<consuming, bufferSet>>,
         \A j \in consuming : released'[j] = 0 => released[j] = 0
  PROVE  CopiesSafe'
BY EarlierReadersDone DEF CopiesSafe, InputInv

LEMMA ReleasedGrows ==
  ASSUME TypeInv, NEW k \in Runs, released' = [released EXCEPT ![k] = @ + 1]
  PROVE  \A j \in consuming : released'[j] = 0 => released[j] = 0
BY SetsTyped
-----------------------------------------------------------------------------
(***************************************************************************)
(* The steps that move runs along.                                         *)
(***************************************************************************)
LEMMA BufferStartRun ==
  ASSUME InputInv, StartRun
  PROVE  BufferInv' /\ CopiesSafe'
<1>1. /\ issue = "ready" /\ issue' = "validate" /\ run' = run + 1
      /\ run \in Nat /\ run' \in Runs
      /\ UNCHANGED <<next_set, next_buffer_binding_set, completion, current,
                     consuming, copyingIn, released>>
      /\ Pending' = Pending
  <2>1. run \in 0 .. MaxRuns /\ run < MaxRuns /\ run' = run + 1
    BY DEF InputInv, CompletionInv, TypeInv, TypeOK, StartRun
  <2>2. run' \in Runs
    BY <2>1, BoundsAssumption DEF Runs
  <2>3. QED
    BY <2>1, <2>2
       DEF StartRun, completionVars, deviceVars, requestVars, Pending, Queued
<1>2. /\ eventSet' = [eventSet EXCEPT ![run'] = next_set]
      /\ bufferSet' = [bufferSet EXCEPT ![run'] = next_buffer_binding_set]
      /\ events' = [events EXCEPT ![next_set].compute_input_start = run']
  BY <1>1 DEF StartRun
<1>3. \A s \in EventSets : InputReader(s)' = InputReader(s)
  BY <1>2, DeviceTyped
     DEF InputInv, CompletionInv, EventSetRecords, InputReader
<1>4. /\ bufferSet'[run'] = next_buffer_binding_set'
      /\ \A k \in Runs : k <= run => /\ bufferSet'[k] = bufferSet[k]
                                     /\ eventSet'[k] = eventSet[k]
  BY <1>1, <1>2, SetsTyped, DeviceTyped DEF InputInv, CompletionInv, Runs
<1>5. \A k \in copyingIn \cup consuming \cup Pending : k \in Runs /\ k <= run
  BY SetsTyped, DeviceTyped, PendingIsOlder
     DEF InputInv, CompletionInv, BufferInv
<1>6. CopiesSafe'
  <2>1. \A k \in copyingIn \cup consuming : bufferSet'[k] = bufferSet[k]
    BY <1>4, <1>5
  <2>2. QED
    BY <1>1, <2>1 DEF InputInv, CopiesSafe
<1>7. \A k \in (copyingIn \cup consuming)' : k <= run'
  BY <1>1, <1>5 DEF Runs
<1>8. InputsInOrder'
  <2>1. \A s \in EventSets : InputReader(s) <= run /\ InputReader(s) \in Nat
    BY SetsTyped DEF InputInv, CompletionInv, BufferInv, InputsInOrder
  <2>2. \A s \in EventSets : InputReader(s)' < run'
    BY <1>1, <1>3, <2>1
  <2>3. \A s \in EventSets : InputReader(s)' <= run'
    BY <1>1, <1>3, <2>1
  <2>4. QED
    BY <1>1, <1>3, <2>2, <2>3 DEF InputInv, BufferInv, InputsInOrder
<1>9. InputRecorded'
  <2>1. EngineEnqueued' = Pending /\ EngineEnqueued = Pending
    BY <1>1 DEF EngineEnqueued
  <2> SUFFICES ASSUME NEW k \in Pending
               PROVE  InputReader(eventSet[k])' >= k
    BY <2>1 DEF InputRecorded
  <2>2. /\ eventSet'[k] = eventSet[k] /\ eventSet[k] \in EventSets
        /\ InputReader(eventSet[k]) >= k
    BY <1>4, <1>5, <2>1, DeviceTyped
       DEF InputInv, CompletionInv, BufferInv, InputRecorded
  <2>3. InputReader(eventSet[k])' = events'[eventSet[k]].ready_for_input
    BY <2>2 DEF InputReader
  <2>4. QED
    BY <1>3, <2>2, <2>3 DEF InputReader
<1>10. Accounted'
  <2> SUFFICES ASSUME NEW j \in Runs, j <= run', released[j] = 0, j # run'
               PROVE  j \in Pending
    BY <1>1 DEF Accounted, Issuing
  <2>1. j <= run
    BY <1>1 DEF Runs
  <2>2. QED
    BY <1>1, <2>1 DEF InputInv, BufferInv, Accounted, Issuing
<1>11. PreviousUsers'
  <2>1. /\ PrevSet' = PrevSet /\ SetOfLastRun' = SetOfLastRun
        /\ NextBufferSet' = NextBufferSet
        /\ PrevSet \in EventSets /\ SetOfLastRun \in EventSets
    BY <1>1, SetsTyped
       DEF PrevSet, SetOfLastRun, NextBufferSet, InputInv, CompletionInv
  <2>2. \A k \in Pending : bufferSet'[k] = bufferSet[k]
    BY <1>4, <1>5
  <2>3. QED
    BY <1>1, <1>3, <2>1, <2>2
       DEF InputInv, BufferInv, PreviousUsers, NoneAfter
<1>12. ConsumedWhenReleased'
  BY <1>1 DEF InputInv, BufferInv, ConsumedWhenReleased
<1>13. QED
  BY <1>4, <1>6, <1>7, <1>8, <1>9, <1>10, <1>11, <1>12 DEF BufferInv

LEMMA BufferEnqueueRun ==
  ASSUME InputInv, EnqueueRun
  PROVE  BufferInv' /\ CopiesSafe'
<1>1. /\ issue = "enqueue" /\ issue' = "respond" /\ Issuing /\ Issuing'
      /\ BeforeEngine /\ ~BeforeEngine'
      /\ consuming' = consuming \cup {run}
      /\ UNCHANGED <<run, next_set, next_buffer_binding_set, eventSet,
                     bufferSet, completion, current, copyingIn, released>>
      /\ Pending' = Pending
  BY DEF EnqueueRun, Issuing, BeforeEngine, completionVars, requestVars,
         Pending, Queued
<1>2. /\ run \in Runs /\ run \in Nat /\ eventSet[run] = next_set
      /\ \A k \in Pending : k \in Runs /\ k < run
      /\ consuming \subseteq Runs /\ copyingIn \subseteq Runs
  BY <1>1, SetsTyped, DeviceTyped, PendingIsOlder
     DEF InputInv, CompletionInv, DeviceInv
<1>3. /\ InputReader(next_set)' = run
      /\ \A s \in EventSets : s # next_set => InputReader(s)' = InputReader(s)
  <2>1. events' = [events EXCEPT ![next_set] =
                     [events[next_set] EXCEPT !.ready_for_input = run,
                                              !.compute_output_start = run]]
    BY DeviceTyped DEF EnqueueRun, InputInv, CompletionInv
  <2>2. events'[next_set].ready_for_input = run
    BY <2>1, DeviceTyped DEF InputInv, CompletionInv, EventSetRecords
  <2>3. \A s \in EventSets : s # next_set => events'[s] = events[s]
    BY <2>1, DeviceTyped DEF InputInv, CompletionInv
  <2>4. QED
    BY <1>1, <2>2, <2>3 DEF InputReader
<1>4. InputsInOrder'
  <2> SUFFICES ASSUME NEW s \in EventSets
               PROVE  /\ InputReader(s)' <= run
                      /\ InputReader(s)' \notin consuming' =>
                           \A k \in consuming' : InputReader(s)' < k
    BY <1>1 DEF InputsInOrder, InputReader
  <2>1. CASE s = next_set
    BY <1>1, <1>2, <1>3, <2>1
  <2>2. CASE s # next_set
    BY <1>1, <1>2, <1>3, <2>2 DEF InputInv, BufferInv, InputsInOrder
  <2>3. QED
    BY <2>1, <2>2
<1>5. EngineEnqueued = Pending /\ EngineEnqueued' = Pending \cup {run}
  BY <1>1 DEF EngineEnqueued
<1>6. InputRecorded'
  <2> SUFFICES ASSUME NEW k \in Pending \cup {run}
               PROVE  InputReader(eventSet[k])' >= k
    BY <1>5 DEF InputRecorded
  <2>1. /\ InputReader(eventSet[k])' = events'[eventSet[k]].ready_for_input
        /\ eventSet[k] \in EventSets
    BY <1>1, <1>2, DeviceTyped DEF InputReader, InputInv, CompletionInv
  <2>2. CASE eventSet[k] = next_set
    BY <1>1, <1>2, <1>3, <2>1, <2>2 DEF InputReader, Runs
  <2>3. CASE eventSet[k] # next_set
    <3>1. k \in Pending
      BY <1>2, <2>3
    <3>2. InputReader(eventSet[k]) >= k
      BY <1>5, <3>1 DEF InputInv, BufferInv, InputRecorded
    <3>3. QED
      BY <1>3, <2>1, <2>3, <3>2 DEF InputReader
  <2>4. QED
    BY <2>2, <2>3
<1>7. ConsumedWhenReleased'
  <2> SUFFICES ASSUME completion \in {"output", "states", "statistics"}
               PROVE  current \notin consuming /\ current # run
    BY <1>1 DEF ConsumedWhenReleased
  <2>1. current \in Pending
    BY DEF InputInv, CompletionInv, OrderInv, TypeInv, TypeOK, Pending
  <2>2. QED
    BY <1>2, <2>1 DEF InputInv, BufferInv, ConsumedWhenReleased
<1>8. PreviousUsers'
  <2>1. /\ PrevSet' = PrevSet /\ SetOfLastRun' = SetOfLastRun
        /\ NextBufferSet' = NextBufferSet
        /\ PrevSet \in EventSets /\ SetOfLastRun \in EventSets
        /\ PrevSet # next_set /\ SetOfLastRun # next_set
    BY <1>1, SetsTyped
       DEF PrevSet, SetOfLastRun, NextBufferSet, InputInv, CompletionInv
  <2>2. /\ InputReader(PrevSet)' = InputReader(PrevSet)
        /\ InputReader(SetOfLastRun)' = InputReader(SetOfLastRun)
    BY <1>3, <2>1 DEF InputReader
  <2>3. QED
    BY <1>1, <2>1, <2>2 DEF InputInv, BufferInv, PreviousUsers, NoneAfter
<1>9. CopiesSafe'
  <2>1. \A k \in copyingIn : k <= run /\ k \in Nat
    BY <1>2 DEF InputInv, BufferInv, Runs
  <2>2. QED
    BY <1>1, <1>2, <2>1 DEF InputInv, CopiesSafe
<1>10. Accounted'
  BY <1>1, AccountedStays DEF InputInv, BufferInv
<1>11. \A k \in (copyingIn \cup consuming)' : k <= run'
  BY <1>1, <1>2 DEF InputInv, BufferInv
<1>12. QED
  BY <1>1, <1>4, <1>6, <1>7, <1>8, <1>9, <1>10, <1>11 DEF InputInv, BufferInv
LEMMA BufferHandOver ==
  ASSUME InputInv, HandOver
  PROVE  BufferInv' /\ CopiesSafe'
<1>1. /\ issue = "handover" /\ issue' \notin {"respond", "handover"}
      /\ Issuing /\ ~Issuing' /\ ~BeforeEngine /\ ~BeforeEngine'
      /\ UNCHANGED <<run, eventSet, bufferSet, events, completion, current,
                     consuming, copyingIn, released>>
      /\ next_set' = NextSet /\ next_buffer_binding_set' = NextBufferSet
  BY DEF HandOver, Issuing, BeforeEngine, completionVars, deviceVars,
         requestVars
<1>2. Pending' = Pending \cup {run}
  BY PromiseIssue DEF InputInv, CompletionInv, Promise!Issue
<1>3. EngineEnqueued' = EngineEnqueued
  BY <1>1, <1>2 DEF EngineEnqueued
<1>4. InputsInOrder' /\ InputRecorded' /\ ConsumedWhenReleased'
  BY <1>1, <1>3
     DEF InputInv, BufferInv, InputsInOrder, InputRecorded,
         ConsumedWhenReleased, InputReader
<1>5. Accounted'
  BY <1>1, <1>2 DEF InputInv, BufferInv, Accounted
<1>6. PreviousUsers'
  <2>1. /\ run \in Runs /\ eventSet[run] = next_set /\ run \in EngineEnqueued
        /\ bufferSet[run] = next_buffer_binding_set
        /\ \A k \in Pending : k <= run /\ k \in Nat
        /\ InputReader(next_set) \in Nat /\ run \in Nat
    BY <1>1, SetsTyped, DeviceTyped, PendingIsOlder
       DEF InputInv, CompletionInv, DeviceInv, BufferInv, EngineEnqueued
  <2>2. InputReader(next_set) >= run
    BY <2>1 DEF InputInv, BufferInv, InputRecorded
  <2>3. \A s \in EventSets : InputReader(s)' = InputReader(s)
    BY <1>1 DEF InputReader
  <2>4. \A j \in Pending' : j <= InputReader(next_set)
    BY <1>2, <2>1, <2>2
  <2>5. next_set \in EventSets /\ SetOfLastRun \in EventSets
    BY SetsTyped DEF InputInv, CompletionInv
  <2>6. TypeInv
    BY DEF InputInv, CompletionInv
  <2>7. CASE SeparateOutputStream
    <3>1. /\ SetOfLastRun' = next_set /\ PrevSet' = SetOfLastRun
          /\ NextBufferSet # next_buffer_binding_set
      BY <1>1, <2>6, <2>7, SetsAdvance
    <3>2. \A j \in Pending' : bufferSet[j] = NextBufferSet =>
            j <= InputReader(SetOfLastRun)
      BY <1>2, <2>1, <2>7, <3>1
         DEF InputInv, BufferInv, PreviousUsers, NoneAfter
    <3>3. /\ InputReader(PrevSet)' = InputReader(SetOfLastRun)
          /\ InputReader(SetOfLastRun)' = InputReader(next_set)
      BY <1>1, <3>1 DEF InputReader
    <3>4. QED
      BY <1>1, <2>4, <3>2, <3>3 DEF PreviousUsers, NoneAfter
  <2>8. CASE ~SeparateOutputStream
    <3>1. PrevSet' = next_set
      BY <1>1, <2>6, <2>8, SetsAdvance
    <3>2. InputReader(PrevSet)' = InputReader(next_set)
      BY <1>1, <3>1 DEF InputReader
    <3>3. QED
      BY <2>4, <2>8, <3>2 DEF PreviousUsers, NoneAfter
  <2>9. QED
    BY <2>7, <2>8
<1>7. CopiesSafe'
  BY <1>1 DEF InputInv, CopiesSafe
<1>8. QED
  BY <1>1, <1>4, <1>5, <1>6, <1>7 DEF InputInv, BufferInv

\* The slot of the payload in hand goes back when its inputs are consumed.
LEMMA SlotReleasedWhenConsumed ==
  ASSUME InputInv, completion = "input",
         EventsOf(current).ready_for_input \notin consuming
  PROVE  current \notin consuming
<1>1. current \in Runs /\ current \in Pending
  BY DEF InputInv, CompletionInv, OrderInv, TypeInv, TypeOK, Pending
<1>2. eventSet[current] \in EventSets
  BY <1>1, DeviceTyped DEF InputInv, CompletionInv
<1>3. InputReader(eventSet[current]) >= current
  BY <1>1 DEF InputInv, BufferInv, InputRecorded, EngineEnqueued
<1>4. InputReader(eventSet[current]) \notin consuming
  BY DEF InputReader, EventsOf
<1>5. \A k \in consuming : InputReader(eventSet[current]) < k
  BY <1>2, <1>4 DEF InputInv, BufferInv, InputsInOrder
<1>6. InputReader(eventSet[current]) \in Nat /\ current \in Nat
  BY <1>1, <1>2, SetsTyped DEF InputInv, CompletionInv, Runs
<1>7. QED
  BY <1>3, <1>5, <1>6

\* The engine consumes the inputs of the runs in their order.
LEMMA BufferConsumed ==
  ASSUME InputInv, NEW d \in Runs, InputsConsumed(d)
  PROVE  BufferInv' /\ CopiesSafe'
<1>1. /\ UNCHANGED <<issue, run, next_set, next_buffer_binding_set, eventSet,
                     bufferSet, events, completion, current, copyingIn,
                     released>>
      /\ Pending' = Pending
      /\ consuming' = consuming \ {d}
  BY DEF InputsConsumed, issueVars, completionVars, requestVars, Pending,
         Queued
<1>2. \A k \in consuming : d <= k
  BY DEF InputsConsumed, Executable, InputInv, CompletionInv, DeviceInv,
         StagesInOrder
<1>3. InputsInOrder'
  BY <1>1, <1>2, SetsTyped
     DEF InputInv, CompletionInv, BufferInv, InputsInOrder, BeforeEngine,
         InputReader, Runs
<1>4. InputRecorded' /\ ConsumedWhenReleased' /\ Accounted' /\ PreviousUsers'
  BY <1>1
     DEF InputInv, BufferInv, InputRecorded, ConsumedWhenReleased, Accounted,
         PreviousUsers, NoneAfter, InputReader, EngineEnqueued, Issuing,
         PrevSet, SetOfLastRun, NextBufferSet
<1>5. CopiesSafe'
  BY <1>1 DEF InputInv, CopiesSafe
<1>6. QED
  BY <1>1, <1>3, <1>4, <1>5 DEF InputInv, BufferInv, Issuing
-----------------------------------------------------------------------------
LEMMA StepBuffer == InputInv /\ [Next]_vars => BufferInv' /\ CopiesSafe'
<1> SUFFICES ASSUME InputInv, [Next]_vars PROVE BufferInv' /\ CopiesSafe'
  OBVIOUS
<1>a. /\ TypeInv /\ OrderInv /\ BufferInv /\ CopiesSafe /\ Accounted
      /\ next_set \in EventSets /\ eventSet \in [Runs -> EventSets]
      /\ PrevSet \in EventSets /\ SetOfLastRun \in EventSets
      /\ run \in Nat /\ EngineEnqueued \subseteq Runs
      /\ events \in [EventSets -> EventSetRecords]
      /\ completion \in {"output", "states", "statistics"} =>
           current \notin consuming
  <2>1. EngineEnqueued \subseteq Runs
    BY DeviceTyped DEF EngineEnqueued, Issuing, InputInv, CompletionInv
  <2>2. QED
    BY <2>1, SetsTyped, DeviceTyped
       DEF InputInv, CompletionInv, BufferInv, ConsumedWhenReleased
<1>b. ASSUME UNCHANGED <<queue, current>> PROVE Pending' = Pending
  BY <1>b DEF Pending, Queued
\* Steps that neither start nor end a use of an input buffer.
<1>c. ASSUME UNCHANGED <<run, next_set, next_buffer_binding_set, eventSet,
                         bufferSet, consuming>>,
             \A s \in EventSets : InputReader(s)' = InputReader(s),
             copyingIn' \subseteq copyingIn,
             Pending' \subseteq Pending, Issuing' => Issuing, Accounted',
             BeforeEngine' => BeforeEngine,
             EngineEnqueued' \subseteq EngineEnqueued,
             completion' \in {"output", "states", "statistics"} =>
               current' \notin consuming,
             \A j \in consuming : released'[j] = 0 => released[j] = 0
      PROVE  BufferInv' /\ CopiesSafe'
  <2>1. BufferInv'
    BY <1>a, <1>c, BufferUnchanged
  <2>2. CopiesSafe'
    BY <1>a, <1>c, SafeUnchanged
  <2>3. QED
    BY <2>1, <2>2
\* The issue thread's run fails.
<1>d. ASSUME Issuing, UNCHANGED <<run, queue, current>>,
             released' = [released EXCEPT ![run] = @ + 1]
      PROVE  /\ Accounted'
             /\ \A j \in consuming : released'[j] = 0 => released[j] = 0
  BY <1>a, <1>b, <1>d, AccountedFailed, ReleasedGrows, DeviceTyped
<1>1. CASE StartRun
  BY <1>1, BufferStartRun
<1>2. CASE RejectRun \/ InferShapesFails \/ LaunchFails
  <2>1. /\ Issuing /\ ~Issuing' /\ issue' = "failed"
        /\ UNCHANGED <<run, next_set, next_buffer_binding_set, eventSet,
                       bufferSet, events, consuming, copyingIn, queue,
                       completion, current>>
        /\ released' = [released EXCEPT ![run] = @ + 1]
    BY <1>2
       DEF RejectRun, InferShapesFails, LaunchFails, RequestsRespondWithError,
           FailAll, AnswerAndRelease, Issuing, completionVars, deviceVars
  <2>2. Pending' = Pending
    BY <1>b, <2>1
  <2>3. QED
    BY <1>a, <1>c, <1>d, <2>1, <2>2
       DEF InputReader, BeforeEngine, EngineEnqueued
<1>3. CASE \/ CreateResponses \/ WriteShapeInputs \/ ReleaseFailedRun
           \/ AwaitBarrier \/ AcquireSlot
  <2>1. /\ UNCHANGED <<run, next_set, next_buffer_binding_set, eventSet,
                       bufferSet, events, consuming, copyingIn, queue,
                       completion, current, released>>
        /\ Issuing' = Issuing /\ BeforeEngine' = BeforeEngine
        /\ issue' \notin {"respond", "handover"}
    BY <1>3
       DEF CreateResponses, WriteShapeInputs, ReleaseFailedRun, AwaitBarrier,
           AcquireSlot, Issuing, BeforeEngine, completionVars, deviceVars, requestVars
  <2>2. Pending' = Pending
    BY <1>b, <2>1
  <2>3. Accounted'
    BY <1>a, <2>1, <2>2, AccountedStays
  <2>4. QED
    BY <1>a, <1>c, <2>1, <2>2, <2>3 DEF InputReader, EngineEnqueued
<1>4. CASE CollectInputs \/ CollectInputsFails
  <2>1. /\ issue \in {"shapes", "collect"} /\ issue' \in {"enqueue", "failed"}
        /\ Issuing /\ BeforeEngine
        /\ UNCHANGED <<run, next_set, next_buffer_binding_set, eventSet,
                       bufferSet, events, consuming, queue, completion,
                       current>>
        /\ \/ UNCHANGED copyingIn
           \/ /\ issue = "collect" /\ InputBufferFree
              /\ copyingIn' = copyingIn \cup {run}
        /\ \/ UNCHANGED released /\ Issuing'
           \/ released' = [released EXCEPT ![run] = @ + 1]
    BY <1>4
       DEF CollectInputs, CollectInputsFails, CopyInputs, FailAll,
           AnswerAndRelease, Issuing, BeforeEngine, completionVars
  <2>2. Pending' = Pending
    BY <1>b, <2>1
  <2>3. /\ Accounted'
        /\ \A j \in consuming : released'[j] = 0 => released[j] = 0
    BY <1>a, <1>d, <2>1, <2>2, AccountedStays
  <2>4. BufferInv'
    <3>1. EngineEnqueued' \subseteq EngineEnqueued
      BY <2>1, <2>2 DEF EngineEnqueued
    <3>2. QED
      BY <1>a, <2>1, <2>2, <2>3, <3>1, BufferUnchanged
         DEF InputReader
  <2>5. CopiesSafe'
    BY <1>a, <2>1, <2>3, SafeUnchanged, SafeCopy
  <2>6. QED
    BY <2>4, <2>5
<1>5. CASE EnqueueRun
  BY <1>5, BufferEnqueueRun
<1>6. CASE RespondOutputs \/ RespondOutputsFails
  <2>1. /\ issue = "respond" /\ issue' \in {"handover", "failed"}
        /\ Issuing /\ ~BeforeEngine'
        /\ UNCHANGED <<run, next_set, next_buffer_binding_set, eventSet,
                       bufferSet, consuming, copyingIn, queue, completion,
                       current>>
        /\ \/ UNCHANGED events
           \/ events' = [events EXCEPT ![next_set].output_ready = run]
        /\ \/ UNCHANGED released /\ Issuing'
           \/ released' = [released EXCEPT ![run] = @ + 1]
    BY <1>6
       DEF RespondOutputs, RespondOutputsFails, CopyOutputs, FailAll,
           AnswerAndRelease, Issuing, BeforeEngine, completionVars
  <2>2. Pending' = Pending
    BY <1>b, <2>1
  <2>3. /\ Accounted'
        /\ \A j \in consuming : released'[j] = 0 => released[j] = 0
    BY <1>a, <1>d, <2>1, <2>2, AccountedStays
  <2>4. \A s \in EventSets : InputReader(s)' = InputReader(s)
    BY <1>a, <2>1 DEF InputReader, EventSetRecords
  <2>5. EngineEnqueued' \subseteq EngineEnqueued
    BY <2>1, <2>2 DEF EngineEnqueued
  <2>6. QED
    BY <1>a, <1>c, <2>1, <2>2, <2>3, <2>4, <2>5
<1>7. CASE HandOver
  BY <1>7, BufferHandOver
\* Steps of the completion thread and of the destructor.
<1>8. ASSUME UNCHANGED <<issueVars, events, consuming, copyingIn, released>>,
             Pending' = Pending,
             completion' \in {"output", "states", "statistics"} =>
               current' \notin consuming
      PROVE  BufferInv' /\ CopiesSafe'
  <2>1. /\ Issuing' = Issuing /\ BeforeEngine' = BeforeEngine
        /\ EngineEnqueued' = EngineEnqueued
    BY <1>8 DEF Issuing, BeforeEngine, EngineEnqueued, issueVars
  <2>2. Accounted'
    BY <1>a, <1>8, <2>1, AccountedStays DEF issueVars
  <2>3. QED
    BY <1>a, <1>c, <1>8, <2>1, <2>2 DEF issueVars, InputReader
<1>9. CASE GetPayload
  BY <1>8, <1>9, PromiseGetPayload
     DEF GetPayload, deviceVars, requestVars, InputInv, CompletionInv
<1>10. CASE ReleaseSlot
  BY <1>8, <1>10, <1>b, SlotReleasedWhenConsumed
     DEF ReleaseSlot, deviceVars, requestVars
<1>11. CASE AwaitOutput \/ UpdateStates
  BY <1>8, <1>11, <1>a, <1>b
     DEF AwaitOutput, UpdateStates, deviceVars, requestVars
<1>12. CASE UpdateStatesFails \/ SendResponses
  <2>1. /\ UNCHANGED <<issueVars, events, consuming, copyingIn, queue>>
        /\ current' = NullPayload /\ completion' \in {"get", "exited"}
        /\ released' = [released EXCEPT ![current] = @ + 1]
        /\ current \in Runs
    BY <1>12
       DEF UpdateStatesFails, SendResponses, FailAll, AnswerAndRelease,
           deviceVars, InputInv, CompletionInv, OrderInv, TypeInv, TypeOK
  <2>2. Pending' \subseteq Pending
    BY <2>1 DEF Pending, Queued, NullPayload, Runs
  <2>3. /\ Accounted'
        /\ \A j \in consuming : released'[j] = 0 => released[j] = 0
    BY <1>a, <2>1, AccountedFinished, ReleasedGrows
  <2>4. /\ Issuing' = Issuing /\ BeforeEngine' = BeforeEngine
        /\ EngineEnqueued' \subseteq EngineEnqueued
    BY <2>1, <2>2 DEF Issuing, BeforeEngine, EngineEnqueued, issueVars
  <2>5. QED
    BY <1>c, <2>1, <2>2, <2>3, <2>4 DEF issueVars, InputReader
<1>13. CASE \E k \in Runs : DeviceStep(k)
  <2>1. PICK d \in Runs : DeviceStep(d)
    BY <1>13
  <2>2. CASE InputsConsumed(d)
    BY <2>2, BufferConsumed
  <2>3. CASE InputCopied(d)
    <3>1. /\ UNCHANGED <<issueVars, events, consuming, released>>
          /\ UNCHANGED <<completion, current>>
          /\ copyingIn' \subseteq copyingIn /\ Pending' = Pending
      BY <2>3, <1>b DEF InputCopied, completionVars, requestVars
    <3>2. /\ Issuing' = Issuing /\ BeforeEngine' = BeforeEngine
          /\ EngineEnqueued' = EngineEnqueued
      BY <3>1 DEF Issuing, BeforeEngine, EngineEnqueued, issueVars
    <3>3. Accounted'
      BY <1>a, <3>1, <3>2, AccountedStays DEF issueVars
    <3>4. QED
      BY <1>a, <1>c, <3>1, <3>2, <3>3 DEF issueVars, InputReader
  <2>4. CASE Executed(d) \/ OutputCopied(d) \/ ShapeOutputCopied(d)
    BY <1>8, <2>4, <1>a, <1>b
       DEF Executed, OutputCopied, ShapeOutputCopied, completionVars,
           requestVars
  <2>5. QED
    BY <2>1, <2>2, <2>3, <2>4 DEF DeviceStep
<1>14. CASE TeardownStep
  <2>1. /\ UNCHANGED <<issueVars, events, consuming, copyingIn, released>>
        /\ UNCHANGED <<completion, current>>
    BY <1>14
       DEF TeardownStep, Destroy, PutNullPayload, JoinCompletionThread,
           completionVars, deviceVars, requestVars
  <2>2. Pending' = Pending
    <3>1. CASE PutNullPayload
      BY <3>1, <1>a, PromisePutNull DEF Promise!vars
    <3>2. CASE Destroy \/ JoinCompletionThread
      BY <3>2, <1>b DEF Destroy, JoinCompletionThread, completionVars
    <3>3. QED
      BY <1>14, <3>1, <3>2 DEF TeardownStep
  <2>3. QED
    BY <1>8, <1>a, <2>1, <2>2
<1>15. CASE UNCHANGED vars
  BY <1>8, <1>15, <1>a, <1>b DEF vars, completionVars, deviceVars, requestVars
<1>16. QED
  BY <1>1, <1>2, <1>3, <1>4, <1>5, <1>6, <1>7, <1>9, <1>10, <1>11, <1>12,
     <1>13, <1>14, <1>15
     DEF Next, IssueStep, CompletionStep, Terminated

LEMMA InputInvariant == Spec => []InputInv
<1>1. Init => InputInv
  BY InitTypeOK, InitOrder, InitDevice, InitSlots, InitBuffer
     DEF InputInv, CompletionInv, TypeInv, RunStarted, Init
<1>2. InputInv /\ [Next]_vars => InputInv'
  BY StepTypeInv, StepOrder, StepDevice, StepSlots, StepBuffer
     DEF InputInv, CompletionInv
<1>3. QED
  BY <1>1, <1>2, PTL DEF Spec

\* The memcpy of shape values waits for nothing.  Without eager batching it
\* need not: no earlier run that has not failed is still consuming its inputs.
LEMMA ShapeWritesSafe ==
  ASSUME ~EagerBatching, InputInv, issue = "collect",
         NEW j \in consuming, j < run, released[j] = 0
  PROVE  bufferSet[j] # bufferSet[run]
BY EarlierReadersDone DEF InputInv, InputBufferFree

\* No input buffer is written from which the engine may still read the inputs of
\* an earlier run that has not failed, with one stream for copies or two, unless
\* eager batching meets an engine with shape inputs.
THEOREM InputBuffersAreSafe ==
  ASSUME ~EagerBatching \/ ~ShapeInputs
  PROVE  Spec => []InputBufferSafe
<1>1. InputInv => InputBufferSafe
  <2> SUFFICES ASSUME InputInv, NEW j \in consuming, NEW k \in InputWriters,
                      j < k, released[j] = 0
               PROVE  bufferSet[j] # bufferSet[k]
    BY DEF InputBufferSafe
  <2>1. CASE k \in copyingIn
    BY <2>1 DEF InputInv, CopiesSafe
  <2>2. CASE ShapeInputs /\ issue = "collect" /\ k = run
    BY <2>2, ShapeWritesSafe
  <2>3. QED
    BY <2>1, <2>2 DEF InputWriters
<1>2. QED
  BY <1>1, InputInvariant, PTL

-----------------------------------------------------------------------------
(***************************************************************************)
(* Execution and copies are over when responses are sent.  The copies of   *)
(* shape outputs, on stream_ behind the execution and behind every event,  *)
(* are not (shape_outputs_not_awaited).                                    *)
(***************************************************************************)
\* The engine executes runs in their order, and both its events are recorded
\* together.
EngineInOrder ==
  \A s \in EventSets :
    /\ events[s].compute_output_start = InputReader(s)
    /\ InputReader(s) \notin executing =>
         \A k \in executing : InputReader(s) < k

LEMMA InitEngine == Init => EngineInOrder
BY DEF Init, EngineInOrder, InputReader

\* Steps that execute nothing and leave both events of the engine alone.
LEMMA EngineUnchanged ==
  ASSUME EngineInOrder, executing' = executing,
         \A s \in EventSets :
           /\ events'[s].ready_for_input = events[s].ready_for_input
           /\ events'[s].compute_output_start = events[s].compute_output_start
  PROVE  EngineInOrder'
BY DEF EngineInOrder, InputReader

\* Recording another event of a set.
LEMMA OtherEventsRecorded ==
  ASSUME TypeInv, NEW k,
         \/ events' = [events EXCEPT ![next_set].compute_input_start = k]
         \/ events' = [events EXCEPT ![next_set].output_ready = k]
  PROVE  \A s \in EventSets :
           /\ events'[s].ready_for_input = events[s].ready_for_input
           /\ events'[s].compute_output_start = events[s].compute_output_start
BY DeviceTyped DEF EventSetRecords

LEMMA EngineEnqueueRun ==
  ASSUME InputInv, EngineInOrder, EnqueueRun
  PROVE  EngineInOrder'
<1>1. /\ BeforeEngine /\ executing' = executing \cup {run}
      /\ run \in Nat /\ next_set \in EventSets
      /\ events \in [EventSets -> EventSetRecords]
  BY DeviceTyped DEF EnqueueRun, BeforeEngine, InputInv, CompletionInv
<1>2. events' = [events EXCEPT ![next_set] =
                   [events[next_set] EXCEPT !.ready_for_input = run,
                                            !.compute_output_start = run]]
  BY <1>1 DEF EnqueueRun
<1>3. /\ events'[next_set].ready_for_input = run
      /\ events'[next_set].compute_output_start = run
  BY <1>1, <1>2 DEF EventSetRecords
<1>4. \A s \in EventSets : s # next_set => events'[s] = events[s]
  BY <1>1, <1>2
<1>5. \A s \in EventSets : InputReader(s) < run
  BY <1>1 DEF InputInv, BufferInv, InputsInOrder
<1>6. QED
  BY <1>1, <1>3, <1>4, <1>5 DEF EngineInOrder, InputReader

LEMMA EngineExecuted ==
  ASSUME TypeInv, EngineInOrder, NEW d \in Runs, Executed(d)
  PROVE  EngineInOrder'
<1>1. /\ d \in executing /\ \A k \in executing : d <= k
      /\ executing' = executing \ {d} /\ events' = events
  BY DEF Executed, Executable
<1>2. executing \subseteq Nat /\ d \in Nat
  BY DEF TypeInv, TypeOK, Runs
<1>3. \A k \in executing' : d < k
  BY <1>1, <1>2
<1>4. QED
  BY <1>1, <1>3 DEF EngineInOrder, InputReader

LEMMA StepEngine == InputInv /\ EngineInOrder /\ [Next]_vars => EngineInOrder'
<1> SUFFICES ASSUME InputInv, EngineInOrder, [Next]_vars PROVE EngineInOrder'
  OBVIOUS
<1>a. TypeInv
  BY DEF InputInv, CompletionInv
<1>1. CASE StartRun
  BY <1>1, <1>a, OtherEventsRecorded, EngineUnchanged DEF StartRun, deviceVars
<1>2. CASE EnqueueRun
  BY <1>2, EngineEnqueueRun
<1>3. CASE RespondOutputs \/ RespondOutputsFails
  <2>1. /\ executing' = executing
        /\ \/ events' = [events EXCEPT ![next_set].output_ready = run]
           \/ events' = events
    BY <1>3 DEF RespondOutputs, RespondOutputsFails, CopyOutputs
  <2>2. QED
    BY <1>a, <2>1, OtherEventsRecorded, EngineUnchanged
<1>4. CASE \/ RejectRun \/ CreateResponses \/ WriteShapeInputs
           \/ CollectInputs \/ CollectInputsFails \/ InferShapesFails
           \/ LaunchFails \/ HandOver \/ ReleaseFailedRun
           \/ AwaitBarrier \/ AcquireSlot
  BY <1>4, EngineUnchanged
     DEF RejectRun, CreateResponses, WriteShapeInputs, CollectInputs,
         CollectInputsFails, InferShapesFails, LaunchFails, HandOver,
         ReleaseFailedRun, AwaitBarrier, AcquireSlot, deviceVars
<1>5. CASE CompletionStep \/ TeardownStep \/ UNCHANGED vars
  BY <1>5, EngineUnchanged
     DEF CompletionStep, GetPayload, ReleaseSlot, AwaitOutput, UpdateStates,
         UpdateStatesFails, SendResponses, TeardownStep, Destroy,
         PutNullPayload, JoinCompletionThread, vars, deviceVars
<1>6. CASE \E k \in Runs : DeviceStep(k)
  <2>1. PICK d \in Runs : DeviceStep(d)
    BY <1>6
  <2>2. CASE Executed(d)
    BY <1>a, <2>2, EngineExecuted
  <2>3. CASE \/ InputCopied(d) \/ InputsConsumed(d)
             \/ OutputCopied(d) \/ ShapeOutputCopied(d)
    BY <2>3, EngineUnchanged
       DEF InputCopied, InputsConsumed, OutputCopied, ShapeOutputCopied
  <2>4. QED
    BY <2>1, <2>2, <2>3 DEF DeviceStep
<1>7. QED
  BY <1>1, <1>2, <1>3, <1>4, <1>5, <1>6 DEF Next, IssueStep, Terminated

\* Responses are sent when compute_output_start_ of the event set has passed,
\* which the payload's run recorded, or a later one that executes after it.
LEMMA ResponsesAfterEngine ==
  ASSUME InputInv, EngineInOrder, SendResponses
  PROVE  current \notin copyingIn \cup consuming \cup executing \cup copyingOut
<1>1. current \in Pending /\ current \in Runs /\ current \notin copyingOut
  BY DEF SendResponses, InputInv, CompletionInv, OrderInv, TypeInv, TypeOK,
         DeviceInv, StagesInOrder, Pending
<1>2. eventSet[current] \in EventSets /\ executing \subseteq Nat
  BY <1>1, DeviceTyped DEF InputInv, CompletionInv, TypeInv, TypeOK, Runs
<1>3. InputReader(eventSet[current]) >= current
  BY <1>1 DEF InputInv, BufferInv, InputRecorded, EngineEnqueued
<1>4. InputReader(eventSet[current]) \notin executing
  BY <1>2 DEF SendResponses, EventsOf, EngineInOrder
<1>5. InputReader(eventSet[current]) \in Nat
  BY <1>2, SetsTyped DEF InputInv, CompletionInv
<1>6. current \notin executing
  <2> SUFFICES ASSUME current \in executing PROVE FALSE
    OBVIOUS
  <2>1. InputReader(eventSet[current]) < current
    BY <1>2, <1>4 DEF EngineInOrder
  <2>2. QED
    BY <1>2, <1>3, <1>5, <2>1
<1>7. QED
  BY <1>1, <1>6
     DEF InputInv, CompletionInv, DeviceInv, StagesInOrder, EngineEnqueued

\* When states are updated the responder's copies of the payload are done, and
\* when responses are sent its input copies and its execution are done too,
\* whichever run recorded the events that the completion thread waited for.
THEOREM DeviceWorkIsDone == Spec => ResponseAfterDeviceWork
<1>1. InputInv => (completion = "states" => current \notin copyingOut)
  BY DEF InputInv, CompletionInv, DeviceInv, StagesInOrder
<1>2. [Next]_vars /\ completion = "statistics" /\ completion' = "get"
        => SendResponses
  BY DEF Next, StartRun, IssueStep, RejectRun, CreateResponses,
         WriteShapeInputs, CollectInputs, CollectInputsFails, EnqueueRun,
         InferShapesFails, LaunchFails, RespondOutputs, RespondOutputsFails,
         HandOver, ReleaseFailedRun, AwaitBarrier, AcquireSlot,
         CompletionStep, GetPayload, ReleaseSlot, AwaitOutput, UpdateStates,
         UpdateStatesFails, DeviceStep, InputCopied, InputsConsumed, Executed,
         OutputCopied, ShapeOutputCopied, TeardownStep, Destroy,
         PutNullPayload, JoinCompletionThread, Terminated, vars,
         completionVars
<1>3. InputInv /\ EngineInOrder /\ [Next]_vars =>
        [/\ completion = "states" /\ completion' = "statistics" =>
              current \notin copyingOut
         /\ completion = "statistics" /\ completion' = "get" =>
              current \notin copyingIn \cup consuming \cup executing
                               \cup copyingOut]_vars
  BY <1>1, <1>2, ResponsesAfterEngine
<1>4. Init => EngineInOrder
  BY InitEngine
<1>5. InputInv /\ EngineInOrder /\ [Next]_vars => EngineInOrder'
  BY StepEngine
<1>6. QED
  BY <1>3, <1>4, <1>5, InputInvariant, PTL DEF Spec, ResponseAfterDeviceWork

-----------------------------------------------------------------------------
(***************************************************************************)
(* Output buffers.                                                         *)
(***************************************************************************)
\* With two buffer sets and one unit of the semaphore, at most the payload in
\* hand is older than what executes, and it has the other buffers.
OtherBuffers ==
  /\ Issuing => bufferSet[run] = next_buffer_binding_set
  /\ \A k \in executing : k <= run
  /\ queue # <<>> => /\ queue[1] = run
                    /\ bufferSet[run] # next_buffer_binding_set
  /\ current # NullPayload =>
       /\ queue = <<>> => bufferSet[current] # next_buffer_binding_set
       /\ \A k \in executing :
            k > current => bufferSet[k] # bufferSet[current]

OtherBuffersInv == life = "serving" => OtherBuffers

LEMMA InitOther == Init => OtherBuffersInv
BY DEF Init, OtherBuffersInv, OtherBuffers, Issuing

LEMMA OtherUnchanged ==
  ASSUME OtherBuffersInv, executing' \subseteq executing, Issuing' => Issuing,
         UNCHANGED <<run, next_buffer_binding_set, bufferSet, queue, current,
                     life>>
  PROVE  OtherBuffersInv'
BY DEF OtherBuffersInv, OtherBuffers

LEMMA StepOther ==
  ASSUME ~EagerBatching, SeparateOutputStream, InputInv, OtherBuffersInv,
         [Next]_vars
  PROVE  OtherBuffersInv'
<1> SUFFICES ASSUME life' = "serving" PROVE OtherBuffers'
  BY DEF OtherBuffersInv
<1>a. /\ run \in 0 .. MaxRuns /\ run \in Nat
      /\ bufferSet \in [Runs -> BufferSets]
      /\ next_buffer_binding_set \in BufferSets
      /\ queue \in Seq({NullPayload} \cup Runs)
      /\ current \in {NullPayload} \cup Runs
      /\ executing \subseteq Runs
      /\ Issuing => run \in Runs
  BY DEF InputInv, CompletionInv, TypeInv, TypeOK, RunStarted, Issuing
<1>b. life = "serving" =>
        /\ OtherBuffers
        /\ Len(queue) = 0 \/ Len(queue) = 1
        /\ issue \notin {"barrier", "acquire"} => queue = <<>>
  BY OneUnit DEF InputInv, CompletionInv, OtherBuffersInv
<1>c. current # NullPayload => current <= run /\ (Issuing => current < run)
  BY DEF InputInv, CompletionInv, OrderInv
<1>1. CASE StartRun
  <2>1. /\ life = "serving" /\ run < MaxRuns /\ run' = run + 1
        /\ bufferSet' = [bufferSet EXCEPT ![run'] = next_buffer_binding_set]
        /\ queue = <<>>
        /\ UNCHANGED <<next_buffer_binding_set, queue, current, executing>>
    BY <1>1, <1>b DEF StartRun, completionVars, deviceVars
  <2>2. run' \in Runs /\ run' \in Nat /\ run' > run
    BY <1>a, <2>1, BoundsAssumption DEF Runs
  <2>3. /\ bufferSet'[run'] = next_buffer_binding_set
        /\ \A k \in Runs : k <= run => bufferSet'[k] = bufferSet[k]
    BY <1>a, <2>1, <2>2 DEF Runs
  <2>4. \A k \in executing : k \in Runs /\ k <= run /\ k <= run'
    BY <1>a, <1>b, <2>1, <2>2 DEF OtherBuffers, Runs
  <2>5. current # NullPayload =>
          bufferSet'[current] = bufferSet[current]
    BY <1>a, <1>c, <2>3
  <2>6. QED
    BY <1>b, <2>1, <2>3, <2>4, <2>5 DEF OtherBuffers
<1>2. CASE EnqueueRun
  <2>1. /\ life = "serving" /\ Issuing /\ queue = <<>>
        /\ executing' = executing \cup {run}
        /\ UNCHANGED <<run, next_buffer_binding_set, bufferSet, queue, current>>
    BY <1>2, <1>b DEF EnqueueRun, Issuing, completionVars
  <2>2. QED
    BY <1>a, <1>b, <2>1 DEF OtherBuffers
<1>3. CASE HandOver
  <2>1. /\ life = "serving" /\ Issuing /\ ~Issuing' /\ queue = <<>>
        /\ queue' = Append(queue, run)
        /\ next_buffer_binding_set' = NextBufferSet
        /\ UNCHANGED <<run, bufferSet, current, executing>>
    BY <1>3, <1>b DEF HandOver, Issuing, completionVars, deviceVars
  <2>2. queue' = <<run>> /\ queue' # <<>>
    BY <2>1
  <2>3. bufferSet[run] # NextBufferSet
    <3>1. bufferSet[run] = next_buffer_binding_set
      BY <1>b, <2>1 DEF OtherBuffers
    <3>2. num_copy_streams = 2
      BY DEF num_copy_streams
    <3>3. QED
      BY <1>a, <3>1, <3>2 DEF NextBufferSet, BufferSets
  <2>4. QED
    BY <1>b, <2>1, <2>2, <2>3 DEF OtherBuffers
<1>4. CASE GetPayload
  <2>1. /\ life = "serving" /\ queue # <<>>
        /\ queue' = Tail(queue) /\ current' = Head(queue)
        /\ UNCHANGED <<run, next_buffer_binding_set, bufferSet, executing,
                       issue>>
    BY <1>4 DEF GetPayload, issueVars, deviceVars
  <2>2. /\ queue[1] = run /\ bufferSet[run] # next_buffer_binding_set
        /\ \A k \in executing : k <= run
    BY <1>b, <2>1 DEF OtherBuffers
  <2>3. queue' = <<>> /\ current' = run
    BY <1>a, <1>b, <2>1, <2>2
  <2>4. \A k \in executing : ~(k > run)
    BY <1>a, <2>2 DEF Runs
  <2>5. ~Issuing'
    BY <1>b, <2>1 DEF Issuing
  <2>6. QED
    BY <2>1, <2>2, <2>3, <2>4, <2>5 DEF OtherBuffers
<1>5. CASE \/ RejectRun \/ CreateResponses \/ WriteShapeInputs
           \/ CollectInputs \/ CollectInputsFails \/ InferShapesFails
           \/ LaunchFails \/ RespondOutputs \/ RespondOutputsFails
           \/ ReleaseFailedRun \/ AwaitBarrier \/ AcquireSlot
  BY <1>5, OtherUnchanged
     DEF RejectRun, CreateResponses, WriteShapeInputs, CollectInputs,
         CollectInputsFails, InferShapesFails, LaunchFails, RespondOutputs,
         RespondOutputsFails, ReleaseFailedRun, AwaitBarrier, AcquireSlot,
         Issuing, completionVars, deviceVars, OtherBuffersInv
<1>6. CASE ReleaseSlot \/ AwaitOutput \/ UpdateStates
  BY <1>6, OtherUnchanged
     DEF ReleaseSlot, AwaitOutput, UpdateStates, Issuing, issueVars,
         deviceVars, OtherBuffersInv
<1>7. CASE UpdateStatesFails \/ SendResponses
  BY <1>7, <1>b
     DEF UpdateStatesFails, SendResponses, Issuing, issueVars, deviceVars,
         OtherBuffers
<1>8. CASE \E k \in Runs : DeviceStep(k)
  BY <1>8, OtherUnchanged
     DEF DeviceStep, InputCopied, InputsConsumed, Executed, OutputCopied,
         ShapeOutputCopied, Issuing, issueVars, completionVars, OtherBuffersInv
<1>9. CASE TeardownStep
  BY <1>9 DEF TeardownStep, Destroy, PutNullPayload, JoinCompletionThread
<1>10. CASE UNCHANGED vars
  BY <1>10, OtherUnchanged
     DEF vars, issueVars, completionVars, deviceVars, Issuing, OtherBuffersInv
<1>11. QED
  BY <1>1, <1>2, <1>3, <1>4, <1>5, <1>6, <1>7, <1>8, <1>9, <1>10
     DEF Next, IssueStep, CompletionStep, Terminated

\* An execution that starts before older outputs are copied is of the run after
\* the payload in hand.
LEMMA OtherIsSafe ==
  ASSUME ~EagerBatching, InputInv, OtherBuffersInv
  PROVE  OutputBufferSafe
<1> SUFFICES ASSUME NEW j \in copyingOut, NEW k \in executing, j < k,
                    released[j] = 0
             PROVE  bufferSet[j] # bufferSet[k]
  BY DEF OutputBufferSafe
<1>1. /\ j \in Runs /\ k \in Runs /\ run \in Nat /\ j <= run
      /\ queue \in Seq({NullPayload} \cup Runs)
  BY DeviceTyped
     DEF InputInv, CompletionInv, DeviceInv, StagesInOrder, TypeInv, TypeOK
<1>2. life = "serving"
  <2> SUFFICES ASSUME life # "serving" PROVE FALSE
    OBVIOUS
  <2>1. j \in Pending
    BY <1>1 DEF InputInv, CompletionInv, OrderInv, BufferInv, Accounted, Issuing
  <2>2. QED
    BY <2>1
       DEF InputInv, CompletionInv, OrderInv, Pending, Queued, NullPayload, Runs
<1>3. OtherBuffers /\ (Len(queue) = 0 \/ Len(queue) = 1)
  BY <1>2, OneUnit DEF InputInv, CompletionInv, OtherBuffersInv
<1>4. k <= run /\ j # run
  BY <1>1, <1>3 DEF OtherBuffers, Runs
<1>5. j \in Pending
  BY <1>1, <1>4 DEF InputInv, BufferInv, Accounted
<1>6. j \notin Queued
  BY <1>3, <1>4 DEF OtherBuffers, Queued
<1>7. j = current /\ current # NullPayload
  BY <1>1, <1>5, <1>6 DEF Pending, NullPayload, Runs
<1>8. QED
  BY <1>1, <1>3, <1>7 DEF OtherBuffers, Runs

\* The engine never writes a buffer from which the outputs of an earlier run
\* that has not failed are still copied, unless eager batching and a stream of
\* its own for outputs are combined.
THEOREM OutputBuffersAreSafe ==
  ASSUME ~EagerBatching \/ ~SeparateOutputStream
  PROVE  Spec => []OutputBufferSafe
<1>1. CASE ~EagerBatching /\ SeparateOutputStream
  <2>1. Init => OtherBuffersInv
    BY InitOther
  <2>2. InputInv /\ OtherBuffersInv /\ [Next]_vars => OtherBuffersInv'
    BY <1>1, StepOther
  <2>3. InputInv /\ OtherBuffersInv => OutputBufferSafe
    BY <1>1, OtherIsSafe
  <2>4. QED
    BY <2>1, <2>2, <2>3, InputInvariant, PTL DEF Spec
<1>2. CASE ~SeparateOutputStream
  <2>1. TypeOK => OutputBufferSafe
    BY <1>2 DEF TypeOK, OutputBufferSafe, Executable, Runs
  <2>2. QED
    BY <2>1, TypeCorrect, PTL
<1>3. QED
  BY <1>1, <1>2

=============================================================================
