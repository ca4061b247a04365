-------------------------- MODULE ExecutionArbitrator --------------------------
(***************************************************************************)
(* Which instance of a model executes the requests of a call of Execute,   *)
(* and whose semaphore the call waits for before it returns: the two       *)
(* arbitrators of ModelState, the semaphores of the instances they are     *)
(* given, and the backend threads of Triton that call Execute.             *)
(*                                                                         *)
(* InstancePipeline models what one instance does with the requests; here  *)
(* a run is either handed over, and its unit of the semaphore comes back   *)
(* some time later, or fails and puts the unit back at once.  What that    *)
(* module takes for granted is shown here: Execute enters an instance only *)
(* with a unit of that instance's semaphore, and one call at a time.       *)
(***************************************************************************)
EXTENDS Integers, Sequences

CONSTANTS
  Instances,     \* the instances of the model
  Devices,       \* GPU device ids
  DeviceOf,      \* the device of an instance
  MaxExecutions  \* bound: the calls of Execute

ASSUME PlacementAssumption ==
  Instances # {} /\ DeviceOf \in [Instances -> Devices]
ASSUME ExecutionsAssumption == MaxExecutions \in Nat

Policies == {"BLOCKING", "DEVICE_BLOCKING"}

VARIABLES
  policy,          \* the execution policy of the backend
  eager_batching,  \* optimization.eager_batching of the model
  arbitrator,      \* execution_arbitrator_: "instance" or "device"
  instances_,      \* of the device arbitrator, per device: its instances
  idx_,            \* and the position of the next to execute
  created,         \* instances whose semaphore exists
  registered,      \* instances whose initialization has registered them
  semaphore,       \* count_ of each instance's semaphore
  pc,              \* where a backend thread of Triton is in Execute
  curr_instance,
  waits,           \* the instance whose semaphore Execute is to acquire
  inFlight,        \* units that runs on an instance's completion queue hold
  executions,      \* calls of Execute so far
  owed             \* history: who executes before an instance does again

configVars == <<policy, eager_batching, arbitrator>>
listVars == <<instances_, idx_>>
threadVars == <<pc, curr_instance, waits>>
vars == <<configVars, listVars, threadVars, created, registered, semaphore,
          inFlight, executions, owed>>

-----------------------------------------------------------------------------
(***************************************************************************)
(* Triton's backend threads: one per instance, or one per device.  Both    *)
(* sets exist here; the policy decides which of them call Execute.         *)
(***************************************************************************)
Threads == Instances \X {"instance"} \cup Devices \X {"device"}

ThreadOf(i) == IF policy = "BLOCKING" THEN <<i, "instance">>
                                      ELSE <<DeviceOf[i], "device">>

\* The locals of Execute before they are set.
Unset == [t \in Threads |-> CHOOSE i \in Instances : TRUE]

\* Mutant: the policy of the backend is not looked at.
AnyArbitrator(p) == {"instance", "device"}

\* The arbitrators ModelState's constructor may choose: a model with sequence
\* batching gets the instance arbitrator in any case.
ArbitratorsFor(p) == IF p = "BLOCKING" THEN {"instance"}
                                       ELSE {"instance", "device"}

Init ==
  /\ policy \in Policies
  /\ eager_batching \in BOOLEAN
  /\ arbitrator \in ArbitratorsFor(policy)
  /\ instances_ = [d \in Devices |-> <<>>]
  /\ idx_ = [d \in Devices |-> 0]
  /\ created = {}
  /\ registered = {}
  /\ semaphore = [i \in Instances |-> 0]
  /\ pc = [t \in Threads |-> "idle"]
  /\ curr_instance = Unset
  /\ waits = Unset
  /\ inFlight = [i \in Instances |-> 0]
  /\ executions = 0
  /\ owed = [i \in Instances |-> {}]

-----------------------------------------------------------------------------
EVENT_SET_COUNT == 3

SemCount == IF eager_batching THEN EVENT_SET_COUNT ELSE 1

\* InitSemaphore, early in the initialization of an instance.
CreateInstance(i) ==
  /\ i \notin created
  /\ created' = created \cup {i}
  /\ semaphore' = [semaphore EXCEPT ![i] = SemCount]
  /\ UNCHANGED <<configVars, listVars, threadVars, registered, inFlight,
                 executions, owed>>

\* Whether registration takes a unit of the semaphore of the instance: each
\* instance is ready for its own next execution, or the first of a device is
\* for all of the device.
StartsReady(i) == arbitrator = "instance" \/ instances_[DeviceOf[i]] = <<>>

\* RegisterInstance, at the end of the initialization of an instance; it may
\* run beside other initializations and beside Execute.
RegisterInstance(i) ==
  /\ i \in created \ registered
  /\ registered' = registered \cup {i}
  /\ IF StartsReady(i)
     THEN semaphore[i] > 0 /\ semaphore' = [semaphore EXCEPT ![i] = @ - 1]
     ELSE UNCHANGED semaphore
  /\ IF arbitrator = "device"
     THEN instances_' = [instances_ EXCEPT ![DeviceOf[i]] = Append(@, i)]
     ELSE UNCHANGED instances_
  /\ UNCHANGED <<configVars, idx_, threadVars, created, inFlight, executions,
                 owed>>

\* Mutant: the index is not advanced.
NextIndexSame(d) == idx_[d]

NextIndex(d) == (idx_[d] + 1) % Len(instances_[d])

InstanceAt(d, idx) == instances_[d][idx + 1]

\* Mutant: Execute waits for the instance that executes.
WaitForCurrent(d) == InstanceAt(d, idx_[d])

\* The instance whose semaphore the device arbitrator returns.
NextInstance(d) == InstanceAt(d, NextIndex(d))

\* Execute has instance "current" execute: others that are registered for the
\* device come first from now on.
Executes(current) ==
  owed' = [j \in Instances |->
             IF j = current
             THEN {k \in registered : DeviceOf[k] = DeviceOf[j]} \ {j}
             ELSE owed[j] \ {current}]

\* Execute asks the arbitrator on behalf of instance i.
ExecutionState(i) ==
  LET t == ThreadOf(i)
      d == DeviceOf[i]
  IN
  /\ i \in registered
  /\ pc[t] = "idle"
  /\ executions < MaxExecutions
  /\ executions' = executions + 1
  /\ pc' = [pc EXCEPT ![t] = "process"]
  /\ \/ /\ arbitrator = "instance"
        /\ curr_instance' = [curr_instance EXCEPT ![t] = i]
        /\ waits' = [waits EXCEPT ![t] = i]
        /\ UNCHANGED <<idx_, owed>>
     \/ /\ arbitrator = "device"
        /\ curr_instance' = [curr_instance EXCEPT ![t] = InstanceAt(d, idx_[d])]
        /\ waits' = [waits EXCEPT ![t] = NextInstance(d)]
        /\ idx_' = [idx_ EXCEPT ![d] = NextIndex(d)]
        /\ Executes(InstanceAt(d, idx_[d]))
  /\ UNCHANGED <<configVars, instances_, created, registered, semaphore,
                 inFlight>>

\* ProcessRequests of the instance hands the run over or fails it.
ProcessRequests(t) ==
  /\ pc[t] = "process"
  /\ pc' = [pc EXCEPT ![t] = "acquire"]
  /\ \/ /\ inFlight' = [inFlight EXCEPT ![curr_instance[t]] = @ + 1]
        /\ UNCHANGED semaphore
     \/ /\ semaphore' = [semaphore EXCEPT ![curr_instance[t]] = @ + 1]
        /\ UNCHANGED inFlight
  /\ UNCHANGED <<configVars, listVars, curr_instance, waits, created,
                 registered, executions, owed>>

\* Mutant: Execute takes a unit without waiting for one.
AcquireNoWait(t) ==
  /\ pc[t] = "acquire"
  /\ semaphore' = [semaphore EXCEPT ![waits[t]] = @ - 1]
  /\ pc' = [pc EXCEPT ![t] = "idle"]
  /\ UNCHANGED <<configVars, listVars, curr_instance, waits, created,
                 registered, inFlight, executions, owed>>

\* Execute waits until the next execution may start, and returns.
Acquire(t) ==
  /\ pc[t] = "acquire"
  /\ semaphore[waits[t]] > 0
  /\ semaphore' = [semaphore EXCEPT ![waits[t]] = @ - 1]
  /\ pc' = [pc EXCEPT ![t] = "idle"]
  /\ curr_instance' = [curr_instance EXCEPT ![t] = Unset[t]]
  /\ waits' = [waits EXCEPT ![t] = Unset[t]]
  /\ UNCHANGED <<configVars, listVars, created, registered, inFlight,
                 executions, owed>>

\* Mutant: the waiter is notified, the count is not raised.
ReleaseNotifyOnly(i) ==
  /\ inFlight[i] > 0
  /\ inFlight' = [inFlight EXCEPT ![i] = @ - 1]
  /\ UNCHANGED <<configVars, listVars, threadVars, created, registered,
                 semaphore, executions, owed>>

\* The completion thread of an instance puts the unit of a run back.
Release(i) ==
  /\ inFlight[i] > 0
  /\ inFlight' = [inFlight EXCEPT ![i] = @ - 1]
  /\ semaphore' = [semaphore EXCEPT ![i] = @ + 1]
  /\ UNCHANGED <<configVars, listVars, threadVars, created, registered,
                 executions, owed>>

\* Nothing is left to do within the bound.
Quiescent ==
  /\ executions = MaxExecutions
  /\ registered = Instances
  /\ \A t \in Threads : pc[t] = "idle"
  /\ \A i \in Instances : inFlight[i] = 0
  /\ UNCHANGED vars

Next ==
  \/ \E i \in Instances :
       CreateInstance(i) \/ RegisterInstance(i) \/ ExecutionState(i) \/ Release(i)
  \/ \E t \in Threads : ProcessRequests(t) \/ Acquire(t)
  \/ Quiescent

Spec == Init /\ [][Next]_vars

\* Threads that are inside the backend run; Triton need not call.
Fairness ==
  /\ \A i \in Instances : WF_vars(Release(i))
  /\ \A t \in Threads : WF_vars(ProcessRequests(t)) /\ WF_vars(Acquire(t))

FairSpec == Spec /\ Fairness

-----------------------------------------------------------------------------
(***************************************************************************)
(* Properties.                                                             *)
(***************************************************************************)
\* Every variable has its type; an index is within the list it indexes.
TypeOK ==
  /\ policy \in Policies
  /\ eager_batching \in BOOLEAN
  /\ arbitrator \in {"instance", "device"}
  /\ instances_ \in [Devices -> Seq(Instances)]
  /\ idx_ \in [Devices -> Nat]
  /\ \A d \in Devices : idx_[d] < Len(instances_[d]) \/ idx_[d] = 0
  /\ created \subseteq Instances
  /\ registered \subseteq created
  /\ semaphore \in [Instances -> Nat]
  /\ pc \in [Threads -> {"idle", "process", "acquire"}]
  /\ curr_instance \in [Threads -> Instances]
  /\ waits \in [Threads -> Instances]
  /\ inFlight \in [Instances -> Nat]
  /\ executions \in Nat
  /\ owed \in [Instances -> SUBSET Instances]

\* The instance the next call of thread t on behalf of i will enter.
UpNext(i, t) ==
  IF arbitrator = "device"
  THEN instances_[DeviceOf[i]] # <<>> /\ InstanceAt(DeviceOf[i], idx_[DeviceOf[i]]) = i
  ELSE i \in registered

\* A unit of i's semaphore is held for a call of Execute: by the call that is
\* in i, or for the next call that will enter i.
HeldFor(i) ==
  LET t == ThreadOf(i)
  IN  \/ pc[t] = "process" /\ curr_instance[t] = i
      \/ /\ UpNext(i, t)
         /\ pc[t] = "idle" \/ waits[t] # i

\* Execute never enters an instance on another instance's unit: the units of
\* each semaphore are those free, those of runs in flight, and the one held
\* for the call that is in the instance or is the next to enter it.
SlotsOfOwnInstance ==
  \A i \in registered :
    semaphore[i] + inFlight[i] + (IF HeldFor(i) THEN 1 ELSE 0) = SemCount

\* No two calls of Execute are in the same instance.
OneCallPerInstance ==
  \A s, t \in Threads :
    s # t /\ pc[s] = "process" /\ pc[t] = "process" =>
      curr_instance[s] # curr_instance[t]

\* The device arbitrator goes round: an instance executes again only after all
\* that were registered for its device at its last execution have executed.
RoundRobin ==
  [][\A i \in Instances :
       (\E t \in Threads : pc[t] = "idle" /\ pc'[t] = "process"
                             /\ curr_instance'[t] = i)
       /\ arbitrator = "device" => owed[i] = {}]_vars

\* A call of Execute returns.
ExecuteReturns == \A t \in Threads : pc[t] # "idle" ~> pc[t] = "idle"
=============================================================================
