--------------------------- MODULE InstancePipeline ---------------------------
(***************************************************************************)
(* One ModelInstanceState at work: the issue thread that Triton calls      *)
(* Execute on (ProcessRequests and Run), the completion thread             *)
(* (ProcessResponse), the semaphore, the three CUDA event sets and the one *)
(* or two sets of binding buffers they share, and the CUDA streams whose   *)
(* work both threads wait for.                                             *)
(*                                                                         *)
(* A "run" is one call of ProcessRequests, numbered from 1.  Device work   *)
(* is kept as the set of runs whose work of a kind is issued but not yet   *)
(* done; a stream is a FIFO, so the work of a run is done only after that  *)
(* of the earlier runs on the same stream.  A CUDA event is the last run   *)
(* that recorded it (0: never recorded), which is what a wait or a         *)
(* synchronize captures.                                                   *)
(***************************************************************************)
EXTENDS Integers, Sequences

CONSTANTS
  EagerBatching,         \* optimization.eager_batching of the model
  SeparateOutputStream,  \* optimization.cuda.output_copy_stream
  UsesImplicitState,     \* the model has sequence states
  ShapeInputs,           \* the engine has shape tensors among its inputs
  ShapeOutputs,          \* the engine has shape tensors among its outputs
  Requests,              \* the positions of a batch of requests
  Faults,                \* the kinds of error that calls may return
  MaxRuns,               \* bound: the runs Triton starts
  MaxFaults              \* bound: the errors that calls return

FaultKinds == {"reject", "response", "input", "enqueue", "output", "state"}

ASSUME ConfigAssumption ==
  /\ EagerBatching \in BOOLEAN
  /\ SeparateOutputStream \in BOOLEAN
  /\ UsesImplicitState \in BOOLEAN
  /\ ShapeInputs \in BOOLEAN
  /\ ShapeOutputs \in BOOLEAN
ASSUME FaultsAssumption == Faults \subseteq FaultKinds
ASSUME BoundsAssumption == MaxRuns \in Nat /\ MaxFaults \in Nat

EVENT_SET_COUNT == 3
EventSets == 0 .. (EVENT_SET_COUNT - 1)

num_copy_streams == IF SeparateOutputStream THEN 2 ELSE 1
BufferSets == 0 .. (num_copy_streams - 1)

\* Mutant: run ahead by the event sets even without eager batching.
SemCountAlwaysAhead == EVENT_SET_COUNT

\* What InitSemaphore gives the semaphore.
SemCount == IF EagerBatching THEN EVENT_SET_COUNT ELSE 1

Runs == 1 .. MaxRuns
NullPayload == 0   \* the empty unique_ptr on the completion queue
NoRun == 0         \* an event that was never recorded

VARIABLES
  issue,         \* where the issue thread is in Execute
  run,           \* the run the issue thread last started
  semaphore,     \* count_ of semaphore_
  next_set, next_buffer_binding_set,
  barrier,       \* barrier_: "null", "pending" or "fulfilled"
  eventSet,      \* payload of a run: event_set_idx_
  bufferSet,     \* the binding buffers a run uses
  response,      \* payload of a run: responses_, per request
  queue,         \* completion_queue_
  completion,    \* where the completion thread is in ProcessResponse
  current,       \* the payload it holds
  events,        \* per event set, the last run recorded on each event
  copyingIn,     \* runs whose host-to-device copies are issued and not done
  consuming,     \* runs whose engine has not yet consumed its inputs
  executing,     \* runs whose engine execution is issued and not done
  copyingOut,    \* runs whose copies by the responder are issued and not done
  copyingShape,  \* runs whose copies of shape outputs are issued and not done
  waitOutput,    \* the output copy stream_ was told to wait for
  answers,       \* responses sent, per run and request
  released,      \* times Triton got the requests of a run back
  life,          \* "serving", then the steps of the destructor
  faultsLeft     \* errors that calls may still return

issueVars == <<issue, run, next_set, next_buffer_binding_set,
               eventSet, bufferSet>>
completionVars == <<completion, current>>
deviceVars == <<copyingIn, consuming, executing, copyingOut, copyingShape,
                waitOutput>>
requestVars == <<response, answers, released>>
vars == <<issueVars, completionVars, deviceVars, requestVars,
          semaphore, barrier, queue, events, life, faultsLeft>>

-----------------------------------------------------------------------------
\* The instance as Create leaves it: RegisterInstance has taken one unit of
\* the semaphore for the Execute call Triton may already make.
Init ==
  /\ issue = "ready"
  /\ run = 0
  /\ semaphore = SemCount - 1
  /\ next_set = 0
  /\ next_buffer_binding_set = 0
  /\ barrier = "null"
  /\ eventSet = [k \in Runs |-> 0]
  /\ bufferSet = [k \in Runs |-> 0]
  /\ response = [k \in Runs |-> [r \in Requests |-> "none"]]
  /\ queue = <<>>
  /\ completion = "get"
  /\ current = NullPayload
  /\ events = [e \in EventSets |->
                 [compute_input_start |-> NoRun, ready_for_input |-> NoRun,
                  compute_output_start |-> NoRun, output_ready |-> NoRun]]
  /\ copyingIn = {}
  /\ consuming = {}
  /\ executing = {}
  /\ copyingOut = {}
  /\ copyingShape = {}
  /\ waitOutput = [k \in Runs |-> NoRun]
  /\ answers = [k \in Runs |-> [r \in Requests |-> 0]]
  /\ released = [k \in Runs |-> 0]
  /\ life = "serving"
  /\ faultsLeft = MaxFaults

-----------------------------------------------------------------------------
(***************************************************************************)
(* Semaphore.                                                              *)
(***************************************************************************)
\* Mutant: a semaphore that is only on or off.
ReleaseBinary == semaphore' = 1

\* Mutant: the waiter is notified, the count is not raised.
ReleaseNotifyOnly == semaphore' = semaphore

Release == semaphore' = semaphore + 1

\* Mutant: a wakeup is taken for a unit.
AcquireSpurious == semaphore' = IF semaphore > 0 THEN semaphore - 1 ELSE 0

Acquire ==
  /\ semaphore > 0
  /\ semaphore' = semaphore - 1

-----------------------------------------------------------------------------
\* A call returns an error of this kind.
Fault(kind) ==
  /\ kind \in Faults
  /\ faultsLeft > 0
  /\ faultsLeft' = faultsLeft - 1

\* Errors of this kind for the requests of "bad" alone.
FaultOf(kind, bad) ==
  IF bad = {} THEN UNCHANGED faultsLeft ELSE Fault(kind)

-----------------------------------------------------------------------------
(***************************************************************************)
(* Responses of run k.                                                     *)
(***************************************************************************)
\* Mutant: errors are also sent for responses that are null.
LiveEvenIfNull(k) == Requests

Live(k) == {r \in Requests : response[k][r] = "live"}

\* RESPOND_AND_SET_NULL_IF_ERROR, for the requests of "bad".
RespondAndSetNull(k, bad) ==
  /\ answers' = [answers EXCEPT ![k] =
                   [r \in Requests |-> @[r] + IF r \in bad THEN 1 ELSE 0]]
  /\ response' = [response EXCEPT ![k] =
                   [r \in Requests |-> IF r \in bad THEN "null" ELSE @[r]]]

\* A response to every request that still has one to come; all are released.
AnswerAndRelease(k) ==
  /\ answers' = [answers EXCEPT ![k] =
                   [r \in Requests |-> @[r] + IF r \in Live(k) THEN 1 ELSE 0]]
  /\ released' = [released EXCEPT ![k] = @ + 1]

\* Mutant: the requests of a failed run are answered and kept.
FailAllKeepsRequests(k, bad) ==
  /\ answers' = [answers EXCEPT ![k] =
                   [r \in Requests |-> @[r] + IF r \in Live(k) THEN 1 ELSE 0]]
  /\ UNCHANGED <<response, released>>

\* FAIL_ALL_AND_RETURN_IF_ERROR, after the requests of "bad" had their errors.
FailAll(k, bad) ==
  /\ AnswerAndRelease(k)
  /\ response' = [response EXCEPT ![k] =
                   [r \in Requests |-> IF r \in bad THEN "null" ELSE @[r]]]

\* RequestsRespondWithError: answers and releases requests that have no
\* response object yet.
RequestsRespondWithError(k) ==
  /\ answers' = [answers EXCEPT ![k] = [r \in Requests |-> @[r] + 1]]
  /\ released' = [released EXCEPT ![k] = @ + 1]

-----------------------------------------------------------------------------
(***************************************************************************)
(* The issue thread.                                                       *)
(***************************************************************************)
\* Mutant: one promise serves every run.
BarrierMadeOnce ==
  IF UsesImplicitState /\ barrier = "null" THEN "pending" ELSE barrier

\* barrier_ at the start of Run.
NewBarrier == IF UsesImplicitState THEN "pending" ELSE barrier

\* Execute, ProcessRequests and the start of Run: a new barrier and payload,
\* and the event of the start of the input phase.
StartRun ==
  /\ issue = "ready"
  /\ life = "serving"
  /\ run < MaxRuns
  /\ run' = run + 1
  /\ eventSet' = [eventSet EXCEPT ![run + 1] = next_set]
  /\ bufferSet' = [bufferSet EXCEPT ![run + 1] = next_buffer_binding_set]
  /\ barrier' = NewBarrier
  /\ events' = [events EXCEPT ![next_set].compute_input_start = run + 1]
  /\ issue' = "validate"
  /\ UNCHANGED <<semaphore, next_set, next_buffer_binding_set, queue, life,
                 faultsLeft, completionVars, deviceVars, requestVars>>

\* A null request, a batch larger than allowed or unreadable shape values.
RejectRun ==
  /\ issue = "validate"
  /\ Fault("reject")
  /\ RequestsRespondWithError(run)
  /\ issue' = "failed"
  /\ UNCHANGED <<run, semaphore, next_set, next_buffer_binding_set, barrier,
                 eventSet, bufferSet, response, queue, events, life,
                 completionVars, deviceVars>>

\* A response per request; one that cannot be created is left null.
CreateResponses ==
  /\ issue = "validate"
  /\ \E bad \in SUBSET Requests :
       /\ FaultOf("response", bad)
       /\ response' = [response EXCEPT ![run] =
                         [r \in Requests |->
                            IF r \in bad THEN "null" ELSE "live"]]
  /\ issue' = IF ShapeInputs THEN "shapes" ELSE "collect"
  /\ UNCHANGED <<run, semaphore, next_set, next_buffer_binding_set, barrier,
                 eventSet, bufferSet, queue, events, answers, released, life,
                 completionVars, deviceVars>>

\* Run copies the values of shape inputs into their buffers itself, with a
\* memcpy that waits for nothing.  It does so as it meets them among the other
\* inputs; here they come first, when the collector has not waited yet.
WriteShapeInputs ==
  /\ issue = "shapes"
  /\ issue' = "collect"
  /\ UNCHANGED <<run, semaphore, next_set, next_buffer_binding_set, barrier,
                 eventSet, bufferSet, queue, events, life, faultsLeft,
                 completionVars, deviceVars, requestVars>>

\* The event set of the run that last used the buffer set about to be filled.
PrevSet ==
  (EVENT_SET_COUNT - (num_copy_streams % EVENT_SET_COUNT) + next_set)
    % EVENT_SET_COUNT

\* Mutant: copy without waiting for the previous user of the buffers.
InputBufferAssumedFree == TRUE

\* The collector synchronizes on prev_input_ready_event before its first copy.
InputBufferFree ==
  EagerBatching => events[PrevSet].ready_for_input \notin consuming

\* The collector's copies run on input_copy_stream_.
CopyInputs ==
  /\ InputBufferFree
  /\ copyingIn' = copyingIn \cup {run}

\* The loop over the inputs.  A single request may be answered with its own
\* error; an engine with shape inputs may have no others to copy.
CollectInputs ==
  /\ issue = "collect"
  /\ \E bad \in SUBSET Live(run) :
       /\ FaultOf("input", bad)
       /\ RespondAndSetNull(run, bad)
  /\ \/ CopyInputs
     \/ ShapeInputs /\ UNCHANGED copyingIn
  /\ issue' = "enqueue"
  /\ UNCHANGED <<run, semaphore, next_set, next_buffer_binding_set, barrier,
                 eventSet, bufferSet, queue, events, released, life,
                 completionVars, consuming, executing, copyingOut,
                 copyingShape, waitOutput>>

\* An input fails the whole batch, before or after others were copied.
CollectInputsFails ==
  /\ issue \in {"shapes", "collect"}
  /\ Fault("input")
  /\ \E bad \in SUBSET Live(run) : FailAll(run, bad)
  /\ \/ UNCHANGED copyingIn
     \/ issue = "collect" /\ CopyInputs
  /\ issue' = "failed"
  /\ UNCHANGED <<run, semaphore, next_set, next_buffer_binding_set, barrier,
                 eventSet, bufferSet, queue, events, life, completionVars,
                 consuming, executing, copyingOut, copyingShape, waitOutput>>

\* stream_ waits for the inputs (and, with a stream of its own for outputs,
\* for what was last recorded on output_ready_ of this event set), then runs
\* the engine, which signals ready_for_input_ when it has consumed the inputs.
EnqueueRun ==
  /\ issue = "enqueue"
  /\ waitOutput' = [waitOutput EXCEPT ![run] =
                      IF SeparateOutputStream
                      THEN events[next_set].output_ready ELSE NoRun]
  /\ consuming' = consuming \cup {run}
  /\ executing' = executing \cup {run}
  /\ events' = [events EXCEPT ![next_set].ready_for_input = run,
                              ![next_set].compute_output_start = run]
  /\ issue' = "respond"
  /\ UNCHANGED <<run, semaphore, next_set, next_buffer_binding_set, barrier,
                 eventSet, bufferSet, queue, life, faultsLeft, completionVars,
                 requestVars, copyingIn, copyingOut, copyingShape>>

\* All that stream_ was given is done: cudaStreamSynchronize(stream_) returns.
StreamDrained ==
  /\ executing = {}
  /\ run \notin copyingIn
  /\ copyingShape = {}
  /\ IF SeparateOutputStream
     THEN events[next_set].output_ready \notin copyingOut
     ELSE copyingOut = {}

\* inferShapes fails before anything is given to the engine.
InferShapesFails ==
  /\ issue = "enqueue"
  /\ Fault("enqueue")
  /\ FailAll(run, {})
  /\ issue' = "failed"
  /\ UNCHANGED <<run, semaphore, next_set, next_buffer_binding_set, barrier,
                 eventSet, bufferSet, queue, events, life, completionVars,
                 deviceVars>>

\* The graph launch or the enqueue fails, and stream_ is synchronized.
LaunchFails ==
  /\ issue = "enqueue"
  /\ Fault("enqueue")
  /\ StreamDrained
  /\ FailAll(run, {})
  /\ issue' = "failed"
  /\ UNCHANGED <<run, semaphore, next_set, next_buffer_binding_set, barrier,
                 eventSet, bufferSet, queue, events, life, completionVars,
                 deviceVars>>

\* The responder copies outputs on the output stream, which waits for the
\* execution, and records output_ready_ when it gave the stream something.
CopyOutputs ==
  \/ /\ copyingOut' = copyingOut \cup {run}
     /\ events' = [events EXCEPT ![next_set].output_ready = run]
  \/ UNCHANGED <<copyingOut, events>>

\* Run copies shape outputs itself, on stream_ when a response wants them in
\* device memory; no event is recorded after these copies.
CopyShapeOutputs ==
  \/ ShapeOutputs /\ copyingShape' = copyingShape \cup {run}
  \/ UNCHANGED copyingShape

\* The loop over the outputs.
RespondOutputs ==
  /\ issue = "respond"
  /\ \E bad \in SUBSET Live(run) :
       /\ FaultOf("output", bad)
       /\ RespondAndSetNull(run, bad)
  /\ CopyOutputs
  /\ CopyShapeOutputs
  /\ issue' = "handover"
  /\ UNCHANGED <<run, semaphore, next_set, next_buffer_binding_set, barrier,
                 eventSet, bufferSet, queue, released, life, completionVars,
                 copyingIn, consuming, executing, waitOutput>>

\* An output fails the whole batch, before or after others were copied; the
\* execution is not waited for.
RespondOutputsFails ==
  /\ issue = "respond"
  /\ Fault("output")
  /\ \E bad \in SUBSET Live(run) : FailAll(run, bad)
  /\ CopyOutputs
  /\ CopyShapeOutputs
  /\ issue' = "failed"
  /\ UNCHANGED <<run, semaphore, next_set, next_buffer_binding_set, barrier,
                 eventSet, bufferSet, queue, life, completionVars, copyingIn,
                 consuming, executing, waitOutput>>

\* Mutant: the event set index does not wrap around.
NextSetUnbounded == next_set + 1

\* Mutant: the event set is not advanced.
NextSetSame == next_set

NextSet == (next_set + 1) % EVENT_SET_COUNT

\* Mutant: the buffer set is not advanced.
NextBufferSetSame == next_buffer_binding_set

NextBufferSet == (next_buffer_binding_set + 1) % num_copy_streams

\* ProcessRequests after a good Run: the payload goes to the completion
\* thread and the next run gets the next event and buffer sets.
HandOver ==
  /\ issue = "handover"
  /\ next_set' = NextSet
  /\ queue' = Append(queue, run)
  /\ next_buffer_binding_set' = NextBufferSet
  /\ issue' = IF barrier = "null" THEN "acquire" ELSE "barrier"
  /\ UNCHANGED <<run, semaphore, barrier, eventSet, bufferSet, events, life,
                 faultsLeft, completionVars, deviceVars, requestVars>>

\* ProcessRequests after a failed Run: the slot is put back at once.
ReleaseFailedRun ==
  /\ issue = "failed"
  /\ Release
  /\ issue' = "acquire"
  /\ UNCHANGED <<run, next_set, next_buffer_binding_set, barrier, eventSet,
                 bufferSet, queue, events, life, faultsLeft, completionVars,
                 deviceVars, requestVars>>

\* barrier_->get_future().wait()
AwaitBarrier ==
  /\ issue = "barrier"
  /\ barrier = "fulfilled"
  /\ issue' = "acquire"
  /\ UNCHANGED <<run, semaphore, next_set, next_buffer_binding_set, barrier,
                 eventSet, bufferSet, queue, events, life, faultsLeft,
                 completionVars, deviceVars, requestVars>>

\* Execute ends with semaphore->Acquire().
AcquireSlot ==
  /\ issue = "acquire"
  /\ Acquire
  /\ issue' = "ready"
  /\ UNCHANGED <<run, next_set, next_buffer_binding_set, barrier, eventSet,
                 bufferSet, queue, events, life, faultsLeft, completionVars,
                 deviceVars, requestVars>>

-----------------------------------------------------------------------------
(***************************************************************************)
(* The completion thread, and the destructor that ends it.                 *)
(***************************************************************************)
GetPayload ==
  /\ completion = "get"
  /\ queue # <<>>
  /\ queue' = Tail(queue)
  /\ current' = Head(queue)
  /\ completion' = IF Head(queue) = NullPayload THEN "exited" ELSE "input"
  /\ UNCHANGED <<issueVars, semaphore, barrier, events, life, faultsLeft,
                 deviceVars, requestVars>>

\* Mutant: the completion thread takes the set the issue thread is at.
EventsOfIssueThread(k) == events[next_set]

\* The event set the completion thread reads for its payload.
EventsOf(k) == events[eventSet[k]]

\* The engine consumed the inputs: the slot goes back to the issue thread.
ReleaseSlot ==
  /\ completion = "input"
  /\ EventsOf(current).ready_for_input \notin consuming
  /\ Release
  /\ completion' = "output"
  /\ UNCHANGED <<issueVars, current, barrier, queue, events, life, faultsLeft,
                 deviceVars, requestVars>>

\* responder_->Finalize() and the wait for output_ready_, which an earlier run
\* recorded if this one's responder had nothing to copy.
AwaitOutput ==
  /\ completion = "output"
  /\ EventsOf(current).output_ready \notin copyingOut
  /\ completion' = "states"
  /\ UNCHANGED <<issueVars, current, semaphore, barrier, queue, events, life,
                 faultsLeft, deviceVars, requestVars>>

\* Mutant: requests go back to Triton before the payload is done with.
UpdateStatesReleasesEarly ==
  /\ completion = "states"
  /\ barrier' = IF barrier = "null" THEN barrier ELSE "fulfilled"
  /\ AnswerAndRelease(current)
  /\ completion' = "statistics"
  /\ UNCHANGED <<issueVars, current, semaphore, queue, events, life,
                 faultsLeft, deviceVars, response>>

\* All states are updated and the issue thread, if it waits, is told.
UpdateStates ==
  /\ completion = "states"
  /\ barrier' = IF barrier = "null" THEN barrier ELSE "fulfilled"
  /\ completion' = "statistics"
  /\ UNCHANGED <<issueVars, current, semaphore, queue, events, life,
                 faultsLeft, deviceVars, requestVars>>

\* An update fails: FAIL_ALL_AND_RETURN_IF_ERROR returns from the thread.
UpdateStatesFails ==
  /\ completion = "states"
  /\ UsesImplicitState
  /\ Fault("state")
  /\ FailAll(current, {})
  /\ completion' = "exited"
  /\ current' = NullPayload
  /\ UNCHANGED <<issueVars, semaphore, barrier, queue, events, life,
                 deviceVars>>

\* Timestamps are read from the event set, the responses that are left are
\* sent and every request is released.
SendResponses ==
  /\ completion = "statistics"
  /\ EventsOf(current).compute_output_start \notin executing
  /\ AnswerAndRelease(current)
  /\ completion' = "get"
  /\ current' = NullPayload
  /\ UNCHANGED <<issueVars, semaphore, barrier, queue, events, life,
                 faultsLeft, response, deviceVars>>

\* Triton finalizes an instance when it has all its requests back.
Destroy ==
  /\ life = "serving"
  /\ issue = "ready"
  /\ \A k \in Runs : k <= run => released[k] > 0
  /\ life' = "destroyed"
  /\ UNCHANGED <<issueVars, semaphore, barrier, queue, events, faultsLeft,
                 completionVars, deviceVars, requestVars>>

\* Buffers, streams and events are gone; the thread is told to exit ...
PutNullPayload ==
  /\ life = "destroyed"
  /\ queue' = Append(queue, NullPayload)
  /\ life' = "joining"
  /\ UNCHANGED <<issueVars, semaphore, barrier, events, faultsLeft,
                 completionVars, deviceVars, requestVars>>

\* ... and joined.
JoinCompletionThread ==
  /\ life = "joining"
  /\ completion = "exited"
  /\ life' = "joined"
  /\ UNCHANGED <<issueVars, semaphore, barrier, queue, events, faultsLeft,
                 completionVars, deviceVars, requestVars>>

-----------------------------------------------------------------------------
(***************************************************************************)
(* The device: streams are FIFO.                                           *)
(***************************************************************************)
InputCopied(k) ==
  /\ k \in copyingIn
  /\ \A j \in copyingIn : k <= j
  /\ copyingIn' = copyingIn \ {k}
  /\ UNCHANGED <<issueVars, semaphore, barrier, queue, events, life,
                 faultsLeft, completionVars, requestVars, consuming,
                 executing, copyingOut, copyingShape, waitOutput>>

\* The engine may be running k: what stream_ had before it is done.
Executable(k) ==
  /\ k \in executing
  /\ \A j \in executing \cup copyingShape : k <= j
  /\ k \notin copyingIn
  /\ waitOutput[k] \notin copyingOut
  /\ ~SeparateOutputStream => \A j \in copyingOut : k <= j

InputsConsumed(k) ==
  /\ Executable(k)
  /\ k \in consuming
  /\ consuming' = consuming \ {k}
  /\ UNCHANGED <<issueVars, semaphore, barrier, queue, events, life,
                 faultsLeft, completionVars, requestVars, copyingIn,
                 executing, copyingOut, copyingShape, waitOutput>>

Executed(k) ==
  /\ Executable(k)
  /\ k \notin consuming
  /\ executing' = executing \ {k}
  /\ UNCHANGED <<issueVars, semaphore, barrier, queue, events, life,
                 faultsLeft, completionVars, requestVars, copyingIn,
                 consuming, copyingOut, copyingShape, waitOutput>>

OutputCopied(k) ==
  /\ k \in copyingOut
  /\ \A j \in copyingOut : k <= j
  /\ k \notin executing
  /\ copyingOut' = copyingOut \ {k}
  /\ UNCHANGED <<issueVars, semaphore, barrier, queue, events, life,
                 faultsLeft, completionVars, requestVars, copyingIn,
                 consuming, executing, copyingShape, waitOutput>>

\* Shape outputs follow their execution on stream_.
ShapeOutputCopied(k) ==
  /\ k \in copyingShape
  /\ \A j \in copyingShape : k <= j
  /\ k \notin executing
  /\ copyingShape' = copyingShape \ {k}
  /\ UNCHANGED <<issueVars, semaphore, barrier, queue, events, life,
                 faultsLeft, completionVars, requestVars, copyingIn,
                 consuming, executing, copyingOut, waitOutput>>

-----------------------------------------------------------------------------
IssueStep ==
  \/ RejectRun \/ CreateResponses
  \/ WriteShapeInputs \/ CollectInputs \/ CollectInputsFails
  \/ EnqueueRun \/ InferShapesFails \/ LaunchFails
  \/ RespondOutputs \/ RespondOutputsFails
  \/ HandOver \/ ReleaseFailedRun \/ AwaitBarrier \/ AcquireSlot

CompletionStep ==
  \/ GetPayload \/ ReleaseSlot \/ AwaitOutput
  \/ UpdateStates \/ UpdateStatesFails \/ SendResponses

DeviceStep(k) ==
  \/ InputCopied(k) \/ InputsConsumed(k) \/ Executed(k)
  \/ OutputCopied(k) \/ ShapeOutputCopied(k)

TeardownStep == Destroy \/ PutNullPayload \/ JoinCompletionThread

\* The instance is gone.
Terminated == life = "joined" /\ UNCHANGED vars

Next ==
  \/ StartRun
  \/ IssueStep
  \/ CompletionStep
  \/ \E k \in Runs : DeviceStep(k)
  \/ TeardownStep
  \/ Terminated

Spec == Init /\ [][Next]_vars

\* Threads are scheduled and the device makes progress; Triton need not send
\* requests nor unload the model.
Fairness ==
  /\ WF_vars(IssueStep)
  /\ WF_vars(CompletionStep)
  /\ \A k \in Runs : WF_vars(DeviceStep(k))

FairSpec == Spec /\ Fairness

-----------------------------------------------------------------------------
(***************************************************************************)
(* Properties.                                                             *)
(***************************************************************************)
IssueSteps == {"ready", "validate", "shapes", "collect", "enqueue",
               "respond", "handover", "failed", "barrier", "acquire"}
CompletionSteps == {"get", "input", "output", "states", "statistics", "exited"}
EventSetRecords == [compute_input_start : {NoRun} \cup Runs,
                    ready_for_input : {NoRun} \cup Runs,
                    compute_output_start : {NoRun} \cup Runs,
                    output_ready : {NoRun} \cup Runs]

\* Every variable has its type.
TypeOK ==
  /\ issue \in IssueSteps
  /\ run \in 0 .. MaxRuns
  /\ semaphore \in Nat
  /\ next_set \in EventSets
  /\ next_buffer_binding_set \in BufferSets
  /\ barrier \in {"null", "pending", "fulfilled"}
  /\ eventSet \in [Runs -> EventSets]
  /\ bufferSet \in [Runs -> BufferSets]
  /\ response \in [Runs -> [Requests -> {"none", "live", "null"}]]
  /\ queue \in Seq({NullPayload} \cup Runs)
  /\ completion \in CompletionSteps
  /\ current \in {NullPayload} \cup Runs
  /\ events \in [EventSets -> EventSetRecords]
  /\ copyingIn \subseteq Runs
  /\ consuming \subseteq Runs
  /\ executing \subseteq Runs
  /\ copyingOut \subseteq Runs
  /\ copyingShape \subseteq Runs
  /\ waitOutput \in [Runs -> {NoRun} \cup Runs]
  /\ answers \in [Runs -> [Requests -> Nat]]
  /\ released \in [Runs -> Nat]
  /\ life \in {"serving", "destroyed", "joining", "joined"}
  /\ faultsLeft \in Nat

\* The issue thread holds a unit of the semaphore from Acquire until its run
\* is handed over or failed.
SlotsHeld == IF issue \in {"barrier", "acquire"} THEN 0 ELSE 1

\* Units that travel with a payload until its inputs are consumed.
SlotsInFlight == Len(queue) + IF completion = "input" THEN 1 ELSE 0

\* No unit of the semaphore is lost or made: neither the error paths of Run,
\* which release without a payload, nor the completion thread, which releases
\* before it is done with the payload, change their number.
SlotsConserved ==
  life = "serving" => semaphore + SlotsHeld + SlotsInFlight = SemCount

\* Handed-over runs whose payload the completion thread still needs.
Outstanding == Len(queue) + IF completion \in {"get", "exited"} THEN 0 ELSE 1

\* The issue thread is never further ahead of the completion thread than the
\* semaphore allows: the payload whose slot was released counts on top of it.
RunAheadBounded ==
  life = "serving" => Outstanding + SlotsHeld <= SemCount + 1

Issuing == issue \in {"validate", "shapes", "collect", "enqueue", "respond",
                      "handover"}
Queued == { k \in Runs : \E i \in 1 .. Len(queue) : queue[i] = k }
Pending == { k \in Runs : k \in Queued \/ k = current }
Released == { k \in Runs : released[k] > 0 }

\* Runs that own their event set: being issued, queued, or being completed.
RunsInUse == (IF Issuing THEN {run} ELSE {}) \cup Pending

\* "One group should be used for one request at any given moment": two runs in
\* use have different event sets.
EventSetExclusive ==
  \A j, k \in RunsInUse : j # k => eventSet[j] # eventSet[k]

\* The timestamps reported for a payload come from events its own run recorded.
StatisticsOfOwnRun ==
  completion = "statistics" =>
    /\ EventsOf(current).compute_input_start = current
    /\ EventsOf(current).compute_output_start = current

\* Runs that write input buffers: by copies on input_copy_stream_, or by the
\* memcpy of shape values that the issue thread has just done.
InputWriters ==
  copyingIn \cup IF ShapeInputs /\ issue = "collect" THEN {run} ELSE {}

\* "Use semaphore to prevent going too far ahead and overwriting resources
\* that are still in use": neither the collector nor Run itself writes an input
\* buffer from which the engine may still read the inputs of an earlier run
\* that has not failed.
InputBufferSafe ==
  \A j \in consuming, k \in InputWriters :
    j < k /\ released[j] = 0 => bufferSet[j] # bufferSet[k]

\* The engine does not write a buffer from which the responder still copies the
\* outputs of an earlier run that has not failed.
OutputBufferSafe ==
  \A j \in copyingOut, k \in executing :
    j < k /\ released[j] = 0 /\ Executable(k) => bufferSet[j] # bufferSet[k]

\* States are updated when the responder's copies of the payload are done, and
\* responses are sent when its inputs are copied and consumed and it is executed
\* too, although the events the thread waits for may have been recorded by a
\* later run, or, if the responder had nothing to copy, by an earlier one.
\* Copies of shape outputs are not among the work: see ComputeEndsAfterCopies.
ResponseAfterDeviceWork ==
  [][/\ completion = "states" /\ completion' = "statistics" =>
          current \notin copyingOut
     /\ completion = "statistics" /\ completion' = "get" =>
          current \notin copyingIn \cup consuming \cup executing
                           \cup copyingOut]_vars

\* "Compute ends when the output data copy is completed": responses are sent,
\* and compute_end_ns taken, when all outputs of the payload are copied, those
\* the responder copies and those Run copies itself.
ComputeEndsAfterCopies ==
  [][completion = "statistics" /\ completion' = "get" =>
       current \notin copyingOut \cup copyingShape]_vars

\* Each request is answered at most once and released at most once, and by the
\* time it is released it was answered, unless its response was null because
\* it could not be created.
AnsweredOnce ==
  \A k \in Runs :
    /\ released[k] <= 1
    /\ \A r \in Requests :
         /\ answers[k][r] <= 1
         /\ released[k] = 1 /\ answers[k][r] = 0 =>
              response[k][r] = "null" /\ "response" \in Faults

\* The promise the completion thread fulfils is the one the issue thread made
\* for the payload being completed, and nobody fulfilled it before.
BarrierOfPayload ==
  UsesImplicitState /\ completion \in {"input", "output", "states"} =>
    current = run /\ barrier = "pending" /\ issue = "barrier"

\* When the destructor frees the buffers and destroys streams and events, the
\* completion thread has no payload left that would make it use them.
NoPayloadAtDestruction ==
  life # "serving" => /\ completion \in {"get", "exited"}
                      /\ \A i \in 1 .. Len(queue) : queue[i] = NullPayload

-----------------------------------------------------------------------------
(***************************************************************************)
(* The promise to Triton.                                                  *)
(***************************************************************************)
Promise == INSTANCE OrderedExecution WITH
  accepted <- run, active <- Issuing, pending <- Pending, finished <- Released

\* The two threads, the semaphore, the events and the streams together finish
\* every run once, in order, and each eventually.
FinishesInOrder == Promise!FairSpec

\* Every run Triton starts is answered and its requests are returned.
EveryRunReleased == \A k \in Runs : run = k ~> released[k] > 0

\* Execute returns: the issue thread always gets its next slot.
ExecuteReturns == issue # "ready" ~> issue = "ready"

\* Whatever else fails, only a completion thread that has left its loop keeps
\* Execute from returning.
OnlyLostThreadBlocks ==
  issue # "ready" ~> issue = "ready" \/ completion = "exited"
=============================================================================
