--------------------------- MODULE ArbitratorProofs ---------------------------
(***************************************************************************)
(* Theorems of ExecutionArbitrator, for any instances, devices, placement  *)
(* of instances on devices, policy and number of calls.                    *)
(***************************************************************************)
EXTENDS ExecutionArbitrator, TLAPS

-----------------------------------------------------------------------------
(***************************************************************************)
(* Types, and what the lists of the device arbitrator hold.                *)
(***************************************************************************)
\* A function changed at one point keeps its type if the new value has it.
LEMMA UpdateTyped ==
  ASSUME NEW D, NEW R, NEW f \in [D -> R], NEW k, NEW v, k \in D => v \in R
  PROVE  [f EXCEPT ![k] = v] \in [D -> R]
OBVIOUS

LEMMA SemCountTyped == SemCount \in 1 .. 3
BY DEF SemCount, EVENT_SET_COUNT

LEMMA UnsetTyped == Unset \in [Threads -> Instances]
BY PlacementAssumption DEF Unset

LEMMA ThreadOfTyped == \A i \in Instances : DeviceOf[i] \in Devices /\ ThreadOf(i) \in Threads
BY PlacementAssumption DEF ThreadOf, Threads

\* The lists hold registered instances of their device, and an instance that is
\* registered finds its device's list filled.
ListInv ==
  /\ \A d \in Devices : \A k \in 1 .. Len(instances_[d]) :
       instances_[d][k] \in registered /\ DeviceOf[instances_[d][k]] = d
  /\ arbitrator = "device" =>
       \A i \in registered : Len(instances_[DeviceOf[i]]) > 0

TypeInv == TypeOK /\ ListInv

Upcoming(d) == InstanceAt(d, idx_[d])

LEMMA IndexTyped ==
  ASSUME TypeInv, NEW d \in Devices, Len(instances_[d]) > 0
  PROVE  /\ Len(instances_[d]) \in Nat
         /\ idx_[d] \in 0 .. Len(instances_[d]) - 1
<1>1. instances_[d] \in Seq(Instances) /\ idx_[d] \in Nat
  BY DEF TypeInv, TypeOK
<1>2. Len(instances_[d]) \in Nat
  BY <1>1
<1>3. idx_[d] < Len(instances_[d]) \/ idx_[d] = 0
  BY DEF TypeInv, TypeOK
<1> QED
  BY <1>1, <1>2, <1>3

\* The instance up next for a device with instances is one of them.
LEMMA UpcomingTyped ==
  ASSUME TypeInv, NEW d \in Devices, Len(instances_[d]) > 0
  PROVE  /\ Upcoming(d) \in registered
         /\ Upcoming(d) \in Instances
         /\ DeviceOf[Upcoming(d)] = d
<1>1. idx_[d] + 1 \in 1 .. Len(instances_[d])
  BY IndexTyped
<1> QED
  BY <1>1 DEF TypeInv, TypeOK, ListInv, Upcoming, InstanceAt

LEMMA Remainder ==
  ASSUME NEW n \in Nat, NEW k \in 0 .. n - 1
  PROVE  (k + 1) % n \in 0 .. n - 1
OBVIOUS

LEMMA NextIndexTyped ==
  ASSUME TypeInv, NEW d \in Devices, Len(instances_[d]) > 0
  PROVE  NextIndex(d) \in 0 .. Len(instances_[d]) - 1
  BY IndexTyped, Remainder DEF NextIndex

LEMMA NextInstanceTyped ==
  ASSUME TypeInv, NEW d \in Devices, Len(instances_[d]) > 0
  PROVE  /\ NextInstance(d) \in registered
         /\ NextInstance(d) \in Instances
         /\ DeviceOf[NextInstance(d)] = d
<1>1. NextIndex(d) + 1 \in 1 .. Len(instances_[d])
  BY NextIndexTyped, IndexTyped
<1> QED
  BY <1>1 DEF TypeInv, TypeOK, ListInv, NextInstance, InstanceAt

-----------------------------------------------------------------------------
(***************************************************************************)
(* Every action keeps the types and the lists.                             *)
(***************************************************************************)
LEMMA InitTypeInv == Init => TypeInv
BY UnsetTyped DEF Init, TypeInv, TypeOK, ListInv, Policies, ArbitratorsFor

LEMMA CreateInstanceTypeInv ==
  ASSUME TypeInv, NEW i \in Instances, CreateInstance(i)
  PROVE  TypeInv'
<1>1. semaphore' \in [Instances -> Nat]
  BY SemCountTyped, UpdateTyped DEF TypeInv, TypeOK, CreateInstance
<1>2. TypeOK'
  BY <1>1 DEF TypeInv, TypeOK, CreateInstance, configVars, listVars, threadVars
<1>3. ListInv'
  BY DEF TypeInv, ListInv, CreateInstance, configVars, listVars
<1> QED
  BY <1>2, <1>3 DEF TypeInv

LEMMA ProcessRequestsTypeInv ==
  ASSUME TypeInv, NEW t \in Threads, ProcessRequests(t)
  PROVE  TypeInv'
<1>1. pc' \in [Threads -> {"idle", "process", "acquire"}]
  BY DEF TypeInv, TypeOK, ProcessRequests
<1>2. semaphore' \in [Instances -> Nat] /\ inFlight' \in [Instances -> Nat]
  <2>1. /\ semaphore \in [Instances -> Nat] /\ inFlight \in [Instances -> Nat]
        /\ curr_instance[t] \in Instances
    BY DEF TypeInv, TypeOK
  <2>2. /\ semaphore[curr_instance[t]] + 1 \in Nat
        /\ inFlight[curr_instance[t]] + 1 \in Nat
    BY <2>1
  <2>3. \/ /\ inFlight' = [inFlight EXCEPT ![curr_instance[t]] = inFlight[curr_instance[t]] + 1]
           /\ semaphore' = semaphore
        \/ /\ semaphore' = [semaphore EXCEPT ![curr_instance[t]] = semaphore[curr_instance[t]] + 1]
           /\ inFlight' = inFlight
    BY DEF ProcessRequests
  <2> QED
    BY <2>1, <2>2, <2>3, UpdateTyped
<1>3. TypeOK'
  BY <1>1, <1>2 DEF TypeInv, TypeOK, ProcessRequests, configVars, listVars
<1>4. ListInv'
  BY DEF TypeInv, ListInv, ProcessRequests, configVars, listVars
<1> QED
  BY <1>3, <1>4 DEF TypeInv

LEMMA AcquireTypeInv ==
  ASSUME TypeInv, NEW t \in Threads, Acquire(t)
  PROVE  TypeInv'
<1>1. pc' \in [Threads -> {"idle", "process", "acquire"}]
  BY DEF TypeInv, TypeOK, Acquire
<1>2. semaphore' \in [Instances -> Nat]
  BY DEF TypeInv, TypeOK, Acquire
<1>3. curr_instance' \in [Threads -> Instances] /\ waits' \in [Threads -> Instances]
  BY UnsetTyped DEF TypeInv, TypeOK, Acquire
<1>4. TypeOK'
  BY <1>1, <1>2, <1>3 DEF TypeInv, TypeOK, Acquire, configVars, listVars
<1>5. ListInv'
  BY DEF TypeInv, ListInv, Acquire, configVars, listVars
<1> QED
  BY <1>4, <1>5 DEF TypeInv

LEMMA ReleaseTypeInv ==
  ASSUME TypeInv, NEW i \in Instances, Release(i)
  PROVE  TypeInv'
<1>1. semaphore' \in [Instances -> Nat] /\ inFlight' \in [Instances -> Nat]
  BY DEF TypeInv, TypeOK, Release
<1>2. TypeOK'
  BY <1>1 DEF TypeInv, TypeOK, Release, configVars, listVars, threadVars
<1>3. ListInv'
  BY DEF TypeInv, ListInv, Release, configVars, listVars
<1> QED
  BY <1>2, <1>3 DEF TypeInv

\* Registration appends to the list of one device.
LEMMA RegisterInstanceLists ==
  ASSUME TypeInv, NEW i \in Instances, RegisterInstance(i), NEW d \in Devices
  PROVE  /\ instances_'[d] \in Seq(Instances)
         /\ Len(instances_'[d]) \in Nat
         /\ Len(instances_'[d]) >= Len(instances_[d])
         /\ \A k \in 1 .. Len(instances_[d]) : instances_'[d][k] = instances_[d][k]
         /\ \A k \in 1 .. Len(instances_'[d]) :
              k \in 1 .. Len(instances_[d]) \/ (instances_'[d][k] = i /\ DeviceOf[i] = d)
<1>1. instances_ \in [Devices -> Seq(Instances)] /\ instances_[d] \in Seq(Instances)
  BY DEF TypeInv, TypeOK
<1>2. CASE instances_'[d] = instances_[d]
  BY <1>1, <1>2
<1>3. CASE d = DeviceOf[i] /\ instances_'[d] = Append(instances_[d], i)
  BY <1>1, <1>3
<1>4. instances_'[d] = instances_[d]
        \/ (d = DeviceOf[i] /\ instances_'[d] = Append(instances_[d], i))
  BY <1>1, ThreadOfTyped DEF RegisterInstance
<1> QED
  BY <1>2, <1>3, <1>4

LEMMA RegisterInstanceTypeInv ==
  ASSUME TypeInv, NEW i \in Instances, RegisterInstance(i)
  PROVE  TypeInv'
<1>1. semaphore' \in [Instances -> Nat]
  <2>1. semaphore \in [Instances -> Nat] /\ semaphore[i] \in Nat
    BY DEF TypeInv, TypeOK
  <2>2. CASE StartsReady(i)
    <3>1. semaphore[i] - 1 \in Nat /\ semaphore' = [semaphore EXCEPT ![i] = semaphore[i] - 1]
      BY <2>1, <2>2 DEF RegisterInstance
    <3> QED
      BY <2>1, <3>1, UpdateTyped
  <2>3. CASE ~StartsReady(i)
    BY <2>1, <2>3 DEF RegisterInstance
  <2> QED
    BY <2>2, <2>3
<1>2. instances_' \in [Devices -> Seq(Instances)]
  <2>1. instances_ \in [Devices -> Seq(Instances)]
    BY DEF TypeInv, TypeOK
  <2>2. Append(instances_[DeviceOf[i]], i) \in Seq(Instances)
    BY <2>1, ThreadOfTyped
  <2>3. \/ instances_' = instances_
        \/ instances_' = [instances_ EXCEPT ![DeviceOf[i]] = Append(instances_[DeviceOf[i]], i)]
    BY DEF RegisterInstance
  <2> QED
    BY <2>1, <2>2, <2>3, UpdateTyped
<1>3. \A d \in Devices : idx_'[d] < Len(instances_'[d]) \/ idx_'[d] = 0
  <2> TAKE d \in Devices
  <2>1. idx_' = idx_ /\ idx_[d] \in Nat /\ Len(instances_[d]) \in Nat
    BY DEF TypeInv, TypeOK, RegisterInstance
  <2>2. idx_[d] < Len(instances_[d]) \/ idx_[d] = 0
    BY DEF TypeInv, TypeOK
  <2> QED
    BY <2>1, <2>2, RegisterInstanceLists
<1>4. registered' \subseteq created' /\ created' = created
  BY DEF TypeInv, TypeOK, RegisterInstance
<1>5. TypeOK'
  BY <1>1, <1>2, <1>3, <1>4 DEF TypeInv, TypeOK, RegisterInstance, configVars, threadVars
<1>6. ListInv'
  <2>1. registered' = registered \cup {i} /\ arbitrator' = arbitrator
    BY DEF RegisterInstance, configVars
  <2>2. ASSUME NEW d \in Devices, NEW k \in 1 .. Len(instances_'[d])
        PROVE  instances_'[d][k] \in registered' /\ DeviceOf[instances_'[d][k]] = d
    <3>1. CASE k \in 1 .. Len(instances_[d])
      BY <2>1, <3>1, RegisterInstanceLists DEF TypeInv, ListInv
    <3>2. CASE instances_'[d][k] = i /\ DeviceOf[i] = d
      BY <2>1, <3>2
    <3> QED
      BY <3>1, <3>2, RegisterInstanceLists
  <2>3. ASSUME arbitrator = "device", NEW j \in registered'
        PROVE  Len(instances_'[DeviceOf[j]]) > 0
    <3>1. j \in Instances /\ DeviceOf[j] \in Devices
      BY <2>1, ThreadOfTyped DEF TypeInv, TypeOK
    <3>2. instances_[DeviceOf[j]] \in Seq(Instances)
      BY <3>1 DEF TypeInv, TypeOK
    <3>3. CASE j = i
      <4>1. instances_'[DeviceOf[i]] = Append(instances_[DeviceOf[i]], i)
        BY <2>3, <3>1, <3>3 DEF TypeInv, TypeOK, RegisterInstance
      <4> QED
        BY <4>1, <3>2, <3>3
    <3>4. CASE j \in registered
      <4>1. Len(instances_[DeviceOf[j]]) > 0
        BY <2>3, <3>4 DEF TypeInv, ListInv
      <4> QED
        BY <4>1, <3>1, <3>2, RegisterInstanceLists
    <3> QED
      BY <2>1, <3>3, <3>4
  <2> QED
    BY <2>1, <2>2, <2>3 DEF ListInv
<1> QED
  BY <1>5, <1>6 DEF TypeInv

LEMMA ExecutionStateTypeInv ==
  ASSUME TypeInv, NEW i \in Instances, ExecutionState(i)
  PROVE  TypeInv'
<1>1. ThreadOf(i) \in Threads /\ DeviceOf[i] \in Devices
  BY ThreadOfTyped
<1>2. pc' \in [Threads -> {"idle", "process", "acquire"}] /\ executions' \in Nat
  BY <1>1 DEF TypeInv, TypeOK, ExecutionState
<1>3. /\ curr_instance' \in [Threads -> Instances] /\ waits' \in [Threads -> Instances]
      /\ idx_' \in [Devices -> Nat]
      /\ \A d \in Devices : idx_'[d] < Len(instances_[d]) \/ idx_'[d] = 0
      /\ owed' \in [Instances -> SUBSET Instances]
  <2>1. CASE arbitrator = "instance"
    BY <2>1, <1>1 DEF TypeInv, TypeOK, ExecutionState
  <2>2. CASE arbitrator = "device"
    <3>1. Len(instances_[DeviceOf[i]]) > 0
      BY <2>2 DEF TypeInv, ListInv, ExecutionState
    <3>2. /\ Upcoming(DeviceOf[i]) \in Instances
          /\ NextInstance(DeviceOf[i]) \in Instances
          /\ NextIndex(DeviceOf[i]) \in 0 .. Len(instances_[DeviceOf[i]]) - 1
      BY <1>1, <3>1, UpcomingTyped, NextInstanceTyped, NextIndexTyped
    <3>3. Len(instances_[DeviceOf[i]]) \in Nat
      BY <1>1, <3>1, IndexTyped
    <3>4. /\ curr_instance' = [curr_instance EXCEPT ![ThreadOf(i)] = Upcoming(DeviceOf[i])]
          /\ waits' = [waits EXCEPT ![ThreadOf(i)] = NextInstance(DeviceOf[i])]
          /\ idx_' = [idx_ EXCEPT ![DeviceOf[i]] = NextIndex(DeviceOf[i])]
          /\ Executes(Upcoming(DeviceOf[i]))
      BY <2>2 DEF ExecutionState, Upcoming
    <3>5. owed' \in [Instances -> SUBSET Instances]
      BY <3>4 DEF Executes, TypeInv, TypeOK
    <3>0. /\ idx_ \in [Devices -> Nat]
          /\ \A d \in Devices : idx_[d] < Len(instances_[d]) \/ idx_[d] = 0
          /\ NextIndex(DeviceOf[i]) \in Nat
          /\ NextIndex(DeviceOf[i]) < Len(instances_[DeviceOf[i]])
      BY <3>2, <3>3 DEF TypeInv, TypeOK
    <3>6. idx_' \in [Devices -> Nat]
      BY <3>0, <3>4, UpdateTyped
    <3>7. \A d \in Devices : idx_'[d] < Len(instances_[d]) \/ idx_'[d] = 0
      <4> TAKE d \in Devices
      <4>1. idx_'[d] = IF d = DeviceOf[i] THEN NextIndex(DeviceOf[i]) ELSE idx_[d]
        BY <3>0, <3>4
      <4> QED
        BY <3>0, <4>1
    <3> QED
      BY <3>2, <3>4, <3>5, <3>6, <3>7, <1>1 DEF TypeInv, TypeOK
  <2> QED
    BY <2>1, <2>2 DEF ExecutionState
<1>4. TypeOK'
  BY <1>2, <1>3 DEF TypeInv, TypeOK, ExecutionState, configVars
<1>5. ListInv'
  BY DEF TypeInv, ListInv, ExecutionState, configVars
<1> QED
  BY <1>4, <1>5 DEF TypeInv

LEMMA NextTypeInv ==
  ASSUME TypeInv, [Next]_vars
  PROVE  TypeInv'
<1>1. CASE UNCHANGED vars
  BY <1>1 DEF TypeInv, TypeOK, ListInv, vars, configVars, listVars, threadVars
<1>2. CASE Quiescent
  BY <1>1, <1>2 DEF Quiescent
<1> QED
  BY <1>1, <1>2, CreateInstanceTypeInv, RegisterInstanceTypeInv,
     ExecutionStateTypeInv, ReleaseTypeInv, ProcessRequestsTypeInv,
     AcquireTypeInv DEF Next

\* Every variable has its type in every state, and no list of a device is read
\* past its end.
THEOREM ArbitratorTypeCorrect == Spec => []TypeOK
<1>1. Spec => []TypeInv
  BY InitTypeInv, NextTypeInv, PTL DEF Spec
<1> QED
  BY <1>1, PTL DEF TypeInv

-----------------------------------------------------------------------------
(***************************************************************************)
(* The thread that is in an instance is the thread of that instance.       *)
(***************************************************************************)
\* A busy thread has entered a registered instance it is the thread of, and will
\* wait for that instance or, with the device arbitrator, for the one up next.
CallInv ==
  /\ arbitrator \in ArbitratorsFor(policy)
  /\ \A t \in Threads : pc[t] # "idle" =>
       /\ curr_instance[t] \in registered
       /\ ThreadOf(curr_instance[t]) = t
       /\ arbitrator = "instance" => waits[t] = curr_instance[t]
       /\ arbitrator = "device" => waits[t] = Upcoming(DeviceOf[curr_instance[t]])

LEMMA DeviceThreads ==
  ASSUME CallInv, arbitrator = "device"
  PROVE  \A i \in Instances : ThreadOf(i) = <<DeviceOf[i], "device">>
BY DEF CallInv, ArbitratorsFor, ThreadOf

LEMMA SameDevice ==
  ASSUME CallInv, arbitrator = "device", NEW i \in Instances, NEW j \in Instances
  PROVE  ThreadOf(i) = ThreadOf(j) <=> DeviceOf[i] = DeviceOf[j]
<1>1. ThreadOf(i) = <<DeviceOf[i], "device">> /\ ThreadOf(j) = <<DeviceOf[j], "device">>
  BY DeviceThreads
<1> QED
  BY <1>1

LEMMA InitCallInv == Init => CallInv
BY DEF Init, CallInv

\* ThreadOf depends on the policy only, which no action changes.
LEMMA ThreadOfConstant ==
  ASSUME policy' = policy
  PROVE  \A i \in Instances : ThreadOf(i)' = ThreadOf(i)
BY DEF ThreadOf

\* What is up next stays so while the list grows.
LEMMA UpcomingKept ==
  ASSUME TypeInv, NEW i \in Instances, RegisterInstance(i), NEW d \in Devices,
         Len(instances_[d]) > 0
  PROVE  Upcoming(d)' = Upcoming(d)
<1>1. idx_' = idx_
  BY DEF RegisterInstance
<1>2. idx_[d] + 1 \in 1 .. Len(instances_[d])
  BY IndexTyped
<1>3. instances_'[d][idx_[d] + 1] = instances_[d][idx_[d] + 1]
  BY <1>2, RegisterInstanceLists
<1> QED
  BY <1>1, <1>3 DEF Upcoming, InstanceAt

\* An action that leaves the threads, the lists and the policy alone.
LEMMA QuietCallInv ==
  ASSUME TypeInv, CallInv, UNCHANGED <<configVars, listVars, threadVars>>,
         registered \subseteq registered'
  PROVE  CallInv'
<1>1. \A d : Upcoming(d)' = Upcoming(d)
  BY DEF Upcoming, InstanceAt, listVars
<1>2. \A t \in Threads : pc[t] # "idle" => curr_instance[t] \in Instances
  BY DEF TypeInv, TypeOK
<1>3. \A i \in Instances : ThreadOf(i)' = ThreadOf(i)
  BY ThreadOfConstant DEF configVars
<1> QED
  BY <1>1, <1>2, <1>3 DEF CallInv, configVars, threadVars

LEMMA RegisterInstanceCallInv ==
  ASSUME TypeInv, CallInv, NEW i \in Instances, RegisterInstance(i)
  PROVE  CallInv'
<1>1. /\ policy' = policy /\ arbitrator' = arbitrator /\ pc' = pc
      /\ curr_instance' = curr_instance /\ waits' = waits
      /\ registered' = registered \cup {i}
  BY DEF RegisterInstance, configVars, threadVars
<1>2. ASSUME NEW t \in Threads, pc[t] # "idle"
      PROVE  /\ curr_instance[t] \in registered'
             /\ ThreadOf(curr_instance[t])' = t
             /\ arbitrator = "instance" => waits[t] = curr_instance[t]
             /\ arbitrator = "device" => waits[t] = Upcoming(DeviceOf[curr_instance[t]])'
  <2> DEFINE c == curr_instance[t]
  <2>1. /\ c \in registered /\ ThreadOf(c) = t
        /\ arbitrator = "instance" => waits[t] = c
        /\ arbitrator = "device" => waits[t] = Upcoming(DeviceOf[c])
    BY <1>2 DEF CallInv
  <2>2. c \in Instances /\ DeviceOf[c] \in Devices
    BY ThreadOfTyped DEF TypeInv, TypeOK
  <2>3. ThreadOf(c)' = ThreadOf(c)
    BY <1>1, <2>2, ThreadOfConstant
  <2>4. ASSUME arbitrator = "device"
        PROVE  Upcoming(DeviceOf[c])' = Upcoming(DeviceOf[c])
    <3>1. Len(instances_[DeviceOf[c]]) > 0
      BY <2>1, <2>4 DEF TypeInv, ListInv
    <3>2. \A d \in Devices : Len(instances_[d]) > 0 => Upcoming(d)' = Upcoming(d)
      BY UpcomingKept
    <3>3. PICK d \in Devices : d = DeviceOf[c]
      BY <2>2
    <3>4. Upcoming(d)' = Upcoming(d)
      BY <3>1, <3>2, <3>3
    <3> QED
      BY <3>3, <3>4, <1>1 DEF Upcoming, InstanceAt
  <2> QED
    BY <1>1, <2>1, <2>3, <2>4
<1> QED
  BY <1>1, <1>2 DEF CallInv

\* ExecutionState of i, with what it gives the thread of i; "d" is its device.
LEMMA ExecutionStateCall ==
  ASSUME TypeInv, CallInv, NEW i \in Instances, ExecutionState(i)
  PROVE  /\ i \in registered /\ pc[ThreadOf(i)] = "idle"
         /\ ThreadOf(i) \in Threads /\ DeviceOf[i] \in Devices
         /\ pc' = [pc EXCEPT ![ThreadOf(i)] = "process"]
         /\ UNCHANGED <<policy, arbitrator, instances_, registered, semaphore, inFlight>>
         /\ \E c, w \in Instances :
              /\ curr_instance' = [curr_instance EXCEPT ![ThreadOf(i)] = c]
              /\ waits' = [waits EXCEPT ![ThreadOf(i)] = w]
              /\ c \in registered /\ ThreadOf(c) = ThreadOf(i)
              /\ arbitrator = "instance" => c = i /\ w = i /\ idx_' = idx_
              /\ arbitrator = "device" =>
                   /\ c = Upcoming(DeviceOf[i]) /\ DeviceOf[c] = DeviceOf[i]
                   /\ w = Upcoming(DeviceOf[i])'
                   /\ w \in registered /\ DeviceOf[w] = DeviceOf[i]
                   /\ \A d \in Devices : d # DeviceOf[i] => Upcoming(d)' = Upcoming(d)
<1>1. /\ i \in registered /\ pc[ThreadOf(i)] = "idle"
      /\ pc' = [pc EXCEPT ![ThreadOf(i)] = "process"]
      /\ UNCHANGED <<policy, arbitrator, instances_, registered, semaphore, inFlight>>
  BY DEF ExecutionState, configVars
<1>2. ThreadOf(i) \in Threads /\ DeviceOf[i] \in Devices
  BY ThreadOfTyped
<1>3. CASE arbitrator = "instance"
  BY <1>1, <1>2, <1>3 DEF ExecutionState
<1>4. CASE arbitrator = "device"
  <2>1. Len(instances_[DeviceOf[i]]) > 0
    BY <1>1, <1>4 DEF TypeInv, ListInv
  <2>2. /\ curr_instance' = [curr_instance EXCEPT ![ThreadOf(i)] = Upcoming(DeviceOf[i])]
        /\ waits' = [waits EXCEPT ![ThreadOf(i)] = NextInstance(DeviceOf[i])]
        /\ idx_' = [idx_ EXCEPT ![DeviceOf[i]] = NextIndex(DeviceOf[i])]
    BY <1>4 DEF ExecutionState, Upcoming
  <2>3. /\ Upcoming(DeviceOf[i]) \in registered /\ Upcoming(DeviceOf[i]) \in Instances
        /\ DeviceOf[Upcoming(DeviceOf[i])] = DeviceOf[i]
        /\ NextInstance(DeviceOf[i]) \in registered /\ NextInstance(DeviceOf[i]) \in Instances
        /\ DeviceOf[NextInstance(DeviceOf[i])] = DeviceOf[i]
    BY <1>2, <2>1, UpcomingTyped, NextInstanceTyped
  <2>4. ThreadOf(Upcoming(DeviceOf[i])) = ThreadOf(i)
    BY <1>4, <2>3, SameDevice
  <2>5. idx_ \in [Devices -> Nat]
    BY DEF TypeInv, TypeOK
  <2>6. idx_'[DeviceOf[i]] = NextIndex(DeviceOf[i])
    BY <1>2, <2>2, <2>5
  <2>7. NextInstance(DeviceOf[i]) = Upcoming(DeviceOf[i])'
    BY <1>1, <2>6 DEF NextInstance, Upcoming, InstanceAt
  <2>8. ASSUME NEW d \in Devices, d # DeviceOf[i]
        PROVE  Upcoming(d)' = Upcoming(d)
    <3>1. idx_'[d] = idx_[d]
      BY <2>2, <2>5, <2>8
    <3> QED
      BY <1>1, <3>1 DEF Upcoming, InstanceAt
  <2> QED
    BY <1>1, <1>2, <1>4, <2>2, <2>3, <2>4, <2>7, <2>8
<1> QED
  BY <1>3, <1>4 DEF ExecutionState

LEMMA ExecutionStateCallInv ==
  ASSUME TypeInv, CallInv, NEW i \in Instances, ExecutionState(i)
  PROVE  CallInv'
<1> DEFINE t0 == ThreadOf(i)
<1>1. /\ t0 \in Threads /\ DeviceOf[i] \in Devices
      /\ pc' = [pc EXCEPT ![t0] = "process"]
      /\ policy' = policy /\ arbitrator' = arbitrator /\ registered' = registered
      /\ pc[t0] = "idle"
  BY ExecutionStateCall
<1>2. PICK c, w \in Instances :
        /\ curr_instance' = [curr_instance EXCEPT ![t0] = c]
        /\ waits' = [waits EXCEPT ![t0] = w]
        /\ c \in registered /\ ThreadOf(c) = t0
        /\ arbitrator = "instance" => c = i /\ w = i /\ idx_' = idx_
        /\ arbitrator = "device" =>
             /\ c = Upcoming(DeviceOf[i]) /\ DeviceOf[c] = DeviceOf[i]
             /\ w = Upcoming(DeviceOf[i])'
             /\ w \in registered /\ DeviceOf[w] = DeviceOf[i]
             /\ \A d \in Devices : d # DeviceOf[i] => Upcoming(d)' = Upcoming(d)
  BY ExecutionStateCall
<1>3. /\ pc \in [Threads -> {"idle", "process", "acquire"}]
      /\ curr_instance \in [Threads -> Instances] /\ waits \in [Threads -> Instances]
  BY DEF TypeInv, TypeOK
<1>4. \A j \in Instances : ThreadOf(j)' = ThreadOf(j)
  BY <1>1, ThreadOfConstant
<1>5. ASSUME NEW t \in Threads, pc'[t] # "idle"
      PROVE  \E k \in Instances :
               /\ curr_instance'[t] = k
               /\ k \in registered /\ ThreadOf(k) = t
               /\ arbitrator = "instance" => waits'[t] = k
               /\ arbitrator = "device" => waits'[t] = Upcoming(DeviceOf[k])'
  <2>1. CASE t = t0
    <3>1. curr_instance'[t] = c /\ waits'[t] = w
      BY <1>1, <1>2, <1>3, <2>1
    <3>2. arbitrator = "device" => w = Upcoming(DeviceOf[c])'
      BY <1>2 DEF Upcoming
    <3> QED
      BY <1>2, <2>1, <3>1, <3>2
  <2>2. CASE t # t0
    <3>1. PICK k \in Instances : k = curr_instance[t]
      BY <1>3
    <3>2. curr_instance'[t] = k /\ waits'[t] = waits[t] /\ pc'[t] = pc[t]
      BY <1>1, <1>2, <1>3, <2>2, <3>1
    <3>3. /\ k \in registered /\ ThreadOf(k) = t
          /\ arbitrator = "instance" => waits[t] = k
          /\ arbitrator = "device" => waits[t] = Upcoming(DeviceOf[k])
      BY <1>5, <3>1, <3>2 DEF CallInv
    <3>4. ASSUME arbitrator = "device"
          PROVE  Upcoming(DeviceOf[k])' = Upcoming(DeviceOf[k])
      <4>1. DeviceOf[k] # DeviceOf[i] /\ DeviceOf[k] \in Devices
        BY <2>2, <3>3, <3>4, SameDevice, ThreadOfTyped
      <4> QED
        BY <1>2, <3>4, <4>1
    <3> QED
      BY <3>2, <3>3, <3>4
  <2> QED
    BY <2>1, <2>2
<1>6. arbitrator' \in ArbitratorsFor(policy')
  BY <1>1 DEF CallInv
<1> QED
  BY <1>1, <1>4, <1>5, <1>6 DEF CallInv

LEMMA ProcessRequestsCallInv ==
  ASSUME TypeInv, CallInv, NEW t0 \in Threads, ProcessRequests(t0)
  PROVE  CallInv'
<1>1. /\ policy' = policy /\ arbitrator' = arbitrator /\ registered' = registered
      /\ instances_' = instances_ /\ idx_' = idx_
      /\ curr_instance' = curr_instance /\ waits' = waits
      /\ pc' = [pc EXCEPT ![t0] = "acquire"] /\ pc[t0] = "process"
  BY DEF ProcessRequests, configVars, listVars
<1>2. \A t \in Threads : pc'[t] # "idle" => pc[t] # "idle"
  BY <1>1 DEF TypeInv, TypeOK
<1>3. \A t \in Threads : curr_instance[t] \in Instances
  BY DEF TypeInv, TypeOK
<1>4. \A j \in Instances : ThreadOf(j)' = ThreadOf(j)
  BY <1>1, ThreadOfConstant
<1> QED
  BY <1>1, <1>2, <1>3, <1>4 DEF CallInv, Upcoming, InstanceAt

LEMMA AcquireCallInv ==
  ASSUME TypeInv, CallInv, NEW t0 \in Threads, Acquire(t0)
  PROVE  CallInv'
<1>1. /\ policy' = policy /\ arbitrator' = arbitrator /\ registered' = registered
      /\ instances_' = instances_ /\ idx_' = idx_
      /\ curr_instance' = [curr_instance EXCEPT ![t0] = Unset[t0]]
      /\ waits' = [waits EXCEPT ![t0] = Unset[t0]]
      /\ pc' = [pc EXCEPT ![t0] = "idle"]
  BY DEF Acquire, configVars, listVars
<1>2. \A t \in Threads : pc'[t] # "idle" =>
        /\ pc[t] # "idle" /\ curr_instance'[t] = curr_instance[t] /\ waits'[t] = waits[t]
  BY <1>1 DEF TypeInv, TypeOK
<1>3. \A t \in Threads : curr_instance[t] \in Instances
  BY DEF TypeInv, TypeOK
<1>4. \A j \in Instances : ThreadOf(j)' = ThreadOf(j)
  BY <1>1, ThreadOfConstant
<1> QED
  BY <1>1, <1>2, <1>3, <1>4 DEF CallInv, Upcoming, InstanceAt

LEMMA NextCallInv ==
  ASSUME TypeInv, CallInv, [Next]_vars
  PROVE  CallInv'
<1>1. CASE UNCHANGED vars
  BY <1>1, QuietCallInv DEF vars
<1>2. CASE Quiescent
  BY <1>1, <1>2 DEF Quiescent
<1>3. ASSUME NEW i \in Instances, CreateInstance(i) \/ Release(i)
      PROVE  CallInv'
  BY <1>3, QuietCallInv DEF CreateInstance, Release
<1> QED
  BY <1>1, <1>2, <1>3, RegisterInstanceCallInv, ExecutionStateCallInv,
     ProcessRequestsCallInv, AcquireCallInv DEF Next

\* No two calls of Execute are in the same instance: a thread that is in an
\* instance is the thread of that instance, and an instance has one.
THEOREM OneCall == Spec => []OneCallPerInstance
<1>1. TypeInv /\ CallInv => OneCallPerInstance
  BY DEF CallInv, OneCallPerInstance
<1>2. Spec => [](TypeInv /\ CallInv)
  BY InitTypeInv, InitCallInv, NextTypeInv, NextCallInv, PTL DEF Spec
<1> QED
  BY <1>1, <1>2, PTL

-----------------------------------------------------------------------------
(***************************************************************************)
(* Each unit of an instance's semaphore is free, with a run in flight, or  *)
(* held for a call that is in the instance or enters it next.              *)
(***************************************************************************)
\* A unit is held for an instance whose thread is idle if it is up next, for the
\* instance its thread is in until the requests are processed, and for every
\* other instance of a busy thread if each instance waits for itself.
Held(i) ==
  LET t == ThreadOf(i)
  IN  IF pc[t] = "idle" THEN arbitrator = "instance" \/ Upcoming(DeviceOf[i]) = i
      ELSE IF curr_instance[t] = i THEN pc[t] = "process"
      ELSE arbitrator = "instance"

Unit(held) == IF held THEN 1 ELSE 0

\* SlotsOfOwnInstance does not hold of an instance that is not registered: no run
\* of it is in flight, and all units of its semaphore are free.
SlotsInv ==
  \A i \in Instances :
    /\ i \in registered => semaphore[i] + inFlight[i] + Unit(Held(i)) = SemCount
    /\ i \notin registered =>
         inFlight[i] = 0 /\ (i \in created => semaphore[i] = SemCount)

LEMMA UnitTyped == ASSUME NEW b \in BOOLEAN PROVE Unit(b) \in 0 .. 1
BY DEF Unit

LEMMA HeldTyped == ASSUME NEW i PROVE Held(i) \in BOOLEAN
BY DEF Held

\* In a reachable state a unit is held exactly for the instances of HeldFor.
LEMMA HeldIsHeldFor ==
  ASSUME TypeInv, CallInv, NEW i \in registered
  PROVE  HeldFor(i) <=> Held(i)
<1> DEFINE t == ThreadOf(i)
<1>1. /\ i \in Instances /\ t \in Threads /\ DeviceOf[i] \in Devices
      /\ arbitrator \in {"instance", "device"}
      /\ pc[t] \in {"idle", "process", "acquire"}
  BY ThreadOfTyped DEF TypeInv, TypeOK
<1>2. ASSUME arbitrator = "device"
      PROVE  UpNext(i, t) <=> Upcoming(DeviceOf[i]) = i
  <2>1. Len(instances_[DeviceOf[i]]) > 0
    BY <1>2 DEF TypeInv, ListInv
  <2>2. instances_[DeviceOf[i]] # <<>>
    BY <2>1
  <2> QED
    BY <1>2, <2>2 DEF UpNext, Upcoming
<1>3. ASSUME arbitrator = "instance"
      PROVE  UpNext(i, t)
  BY <1>3 DEF UpNext
<1>4. ASSUME pc[t] # "idle"
      PROVE  /\ arbitrator = "instance" => waits[t] = curr_instance[t]
             /\ arbitrator = "device" => waits[t] = Upcoming(DeviceOf[i])
  <2>1. PICK k \in registered : k = curr_instance[t]
    BY <1>1, <1>4 DEF CallInv
  <2>2. k \in Instances
    BY DEF TypeInv, TypeOK
  <2>3. /\ ThreadOf(k) = t
        /\ arbitrator = "instance" => waits[t] = k
        /\ arbitrator = "device" => waits[t] = Upcoming(DeviceOf[k])
    BY <1>1, <1>4, <2>1 DEF CallInv
  <2>4. arbitrator = "device" => DeviceOf[k] = DeviceOf[i]
    BY <1>1, <2>2, <2>3, SameDevice
  <2> QED
    BY <2>1, <2>3, <2>4
<1>5. HeldFor(i) <=> \/ pc[t] = "process" /\ curr_instance[t] = i
                     \/ UpNext(i, t) /\ (pc[t] = "idle" \/ waits[t] # i)
  BY DEF HeldFor
<1> HIDE DEF t
<1>6. Held(i) <=>
        IF pc[t] = "idle" THEN arbitrator = "instance" \/ Upcoming(DeviceOf[i]) = i
        ELSE IF curr_instance[t] = i THEN pc[t] = "process"
        ELSE arbitrator = "instance"
  BY DEF Held, t
<1>7. CASE arbitrator = "device"
  BY <1>1, <1>2, <1>4, <1>5, <1>6, <1>7
<1>8. CASE arbitrator = "instance"
  BY <1>1, <1>3, <1>4, <1>5, <1>6, <1>8
<1> QED
  BY <1>1, <1>7, <1>8

LEMMA InitSlotsInv == Init => SlotsInv
BY DEF Init, SlotsInv

\* Held of the next state, of a step that leaves policy and arbitrator alone.
LEMMA HeldNext ==
  ASSUME policy' = policy, arbitrator' = arbitrator, NEW i \in Instances
  PROVE  Held(i)' <=>
           LET t == ThreadOf(i)
           IN  IF pc'[t] = "idle" THEN arbitrator = "instance" \/ Upcoming(DeviceOf[i])' = i
               ELSE IF curr_instance'[t] = i THEN pc'[t] = "process"
               ELSE arbitrator = "instance"
BY ThreadOfConstant DEF Held

\* An action that leaves the threads, the lists and the policy alone.
LEMMA QuietHeld ==
  ASSUME UNCHANGED <<configVars, listVars, threadVars>>, NEW i \in Instances
  PROVE  Held(i)' = Held(i) /\ SemCount' = SemCount
<1>1. Upcoming(DeviceOf[i])' = Upcoming(DeviceOf[i])
  BY DEF Upcoming, InstanceAt, listVars
<1>2. SemCount' = SemCount
  BY DEF SemCount, configVars
<1> QED
  BY <1>1, <1>2, ThreadOfConstant DEF Held, configVars, threadVars

LEMMA QuietSlotsInv ==
  ASSUME SlotsInv,
         UNCHANGED <<configVars, listVars, threadVars, created, registered, semaphore, inFlight>>
  PROVE  SlotsInv'
BY QuietHeld DEF SlotsInv

LEMMA CreateInstanceSlotsInv ==
  ASSUME TypeInv, SlotsInv, NEW j \in Instances, CreateInstance(j)
  PROVE  SlotsInv'
<1>1. /\ UNCHANGED <<configVars, listVars, threadVars>>
      /\ registered' = registered /\ inFlight' = inFlight
      /\ created' = created \cup {j} /\ j \notin created
      /\ semaphore' = [semaphore EXCEPT ![j] = SemCount]
  BY DEF CreateInstance
<1>2. j \notin registered /\ semaphore \in [Instances -> Nat]
  BY <1>1 DEF TypeInv, TypeOK
<1>3. SemCount' = SemCount
  BY <1>1, QuietHeld
<1>4. \A i \in Instances : Held(i)' = Held(i)
  BY <1>1, QuietHeld
<1>5. \A i \in Instances : semaphore'[i] = IF i = j THEN SemCount ELSE semaphore[i]
  BY <1>1, <1>2
<1> QED
  BY <1>1, <1>2, <1>3, <1>4, <1>5 DEF SlotsInv

LEMMA ReleaseSlotsInv ==
  ASSUME TypeInv, SlotsInv, NEW j \in Instances, Release(j)
  PROVE  SlotsInv'
<1>1. /\ UNCHANGED <<configVars, listVars, threadVars>>
      /\ registered' = registered /\ created' = created
      /\ inFlight[j] > 0
      /\ inFlight' = [inFlight EXCEPT ![j] = inFlight[j] - 1]
      /\ semaphore' = [semaphore EXCEPT ![j] = semaphore[j] + 1]
  BY DEF Release
<1>2. semaphore \in [Instances -> Nat] /\ inFlight \in [Instances -> Nat]
  BY DEF TypeInv, TypeOK
<1>3. SemCount' = SemCount
  BY <1>1, QuietHeld
<1>4. \A i \in Instances : Held(i)' = Held(i)
  BY <1>1, QuietHeld
<1>5. j \in registered
  BY <1>1 DEF SlotsInv
<1>6. \A i \in Instances :
        /\ i # j => semaphore'[i] = semaphore[i] /\ inFlight'[i] = inFlight[i]
        /\ i = j => semaphore'[i] = semaphore[i] + 1 /\ inFlight'[i] = inFlight[i] - 1
  BY <1>1, <1>2
<1>7. ASSUME NEW i \in registered
      PROVE  semaphore'[i] + inFlight'[i] + Unit(Held(i)) = SemCount
  <2>1. i \in Instances /\ semaphore[i] \in Nat /\ inFlight[i] \in Nat
    BY <1>2 DEF TypeInv, TypeOK
  <2>2. Unit(Held(i)) \in 0 .. 1
    BY UnitTyped, HeldTyped
  <2>3. semaphore[i] + inFlight[i] + Unit(Held(i)) = SemCount
    BY <2>1 DEF SlotsInv
  <2> QED
    BY <1>6, <2>1, <2>2, <2>3
<1> QED
  BY <1>1, <1>3, <1>4, <1>5, <1>6, <1>7 DEF SlotsInv

\* Registration puts a unit aside exactly if the instance is now up next.
LEMMA RegisterInstanceSlotsInv ==
  ASSUME TypeInv, CallInv, SlotsInv, NEW j \in Instances, RegisterInstance(j)
  PROVE  SlotsInv'
<1> DEFINE t0 == ThreadOf(j)
           d0 == DeviceOf[j]
<1>1. /\ policy' = policy /\ arbitrator' = arbitrator /\ eager_batching' = eager_batching
      /\ pc' = pc /\ curr_instance' = curr_instance /\ waits' = waits
      /\ registered' = registered \cup {j} /\ created' = created
      /\ j \in created /\ j \notin registered
      /\ inFlight' = inFlight /\ idx_' = idx_
  BY DEF RegisterInstance, configVars, threadVars
<1>2. /\ semaphore \in [Instances -> Nat] /\ inFlight \in [Instances -> Nat]
      /\ registered \subseteq Instances
      /\ arbitrator \in {"instance", "device"}
      /\ t0 \in Threads /\ d0 \in Devices
  BY ThreadOfTyped DEF TypeInv, TypeOK
<1>3. SemCount' = SemCount /\ SemCount \in 1 .. 3
  BY <1>1, SemCountTyped DEF SemCount
<1>4. /\ StartsReady(j) => semaphore' = [semaphore EXCEPT ![j] = semaphore[j] - 1]
      /\ ~StartsReady(j) => semaphore' = semaphore
  BY DEF RegisterInstance
<1>5. \A i \in Instances : i # j => semaphore'[i] = semaphore[i]
  BY <1>2, <1>4
<1>6. ASSUME NEW i \in registered
      PROVE  Held(i)' = Held(i)
  <2>1. i \in Instances /\ DeviceOf[i] \in Devices
    BY <1>2, ThreadOfTyped
  <2>2. ASSUME arbitrator = "device"
        PROVE  Upcoming(DeviceOf[i])' = Upcoming(DeviceOf[i])
    <3>1. Len(instances_[DeviceOf[i]]) > 0
      BY <2>2 DEF TypeInv, ListInv
    <3> QED
      BY <2>1, <3>1, UpcomingKept
  <2> QED
    BY <1>1, <1>2, <2>1, <2>2, HeldNext DEF Held
<1>7. ASSUME pc[t0] # "idle"
      PROVE  /\ curr_instance[t0] # j
             /\ arbitrator = "device" => Len(instances_[d0]) > 0
  <2>1. PICK c \in registered : c = curr_instance[t0] /\ ThreadOf(c) = t0
    BY <1>2, <1>7 DEF CallInv
  <2>2. arbitrator = "device" => DeviceOf[c] = d0
    BY <1>2, <2>1, SameDevice
  <2> QED
    BY <1>1, <2>1, <2>2 DEF TypeInv, ListInv
<1>8. semaphore[j] = SemCount /\ inFlight[j] = 0
  BY <1>1 DEF SlotsInv
<1>9. semaphore'[j] + inFlight'[j] + Unit(Held(j)') = SemCount
  <2>1. CASE arbitrator = "instance"
    <3>1. Held(j)'
      BY <1>1, <1>7, <2>1, HeldNext
    <3>2. semaphore'[j] = semaphore[j] - 1
      BY <1>2, <1>4, <2>1 DEF StartsReady
    <3> QED
      BY <1>1, <1>3, <1>8, <3>1, <3>2 DEF Unit
  <2>2. CASE arbitrator = "device" /\ instances_[d0] = <<>>
    <3>1. pc[t0] = "idle"
      BY <1>7, <2>2
    <3>2. instances_ \in [Devices -> Seq(Instances)]
      BY DEF TypeInv, TypeOK
    <3>3. instances_'[d0] = Append(<<>>, j)
      BY <1>2, <2>2, <3>2 DEF RegisterInstance
    <3>4. idx_[d0] = 0
      BY <1>2, <2>2 DEF TypeInv, TypeOK
    <3>5. Upcoming(d0)' = j
      BY <1>1, <3>3, <3>4 DEF Upcoming, InstanceAt
    <3>6. Held(j)'
      BY <1>1, <3>1, <3>5, HeldNext
    <3>7. semaphore'[j] = semaphore[j] - 1
      BY <1>2, <1>4, <2>2 DEF StartsReady
    <3> QED
      BY <1>1, <1>3, <1>8, <3>6, <3>7 DEF Unit
  <2>3. CASE arbitrator = "device" /\ instances_[d0] # <<>>
    <3>1. Len(instances_[d0]) > 0
      BY <1>2, <2>3 DEF TypeInv, TypeOK
    <3>2. Upcoming(d0)' = Upcoming(d0) /\ Upcoming(d0) \in registered
      BY <1>2, <3>1, UpcomingKept, UpcomingTyped
    <3>3. ~Held(j)'
      BY <1>1, <1>7, <2>3, <3>2, HeldNext
    <3>4. semaphore'[j] = semaphore[j]
      BY <1>4, <2>3 DEF StartsReady
    <3> QED
      BY <1>1, <1>3, <1>8, <3>3, <3>4 DEF Unit
  <2> QED
    BY <1>2, <2>1, <2>2, <2>3
<1>10. ASSUME NEW i \in registered
       PROVE  semaphore'[i] + inFlight'[i] + Unit(Held(i)') = SemCount
  BY <1>1, <1>2, <1>5, <1>6 DEF SlotsInv
<1>11. ASSUME NEW i \in Instances, i \notin registered'
       PROVE  inFlight'[i] = 0 /\ (i \in created' => semaphore'[i] = SemCount)
  BY <1>1, <1>5, <1>11 DEF SlotsInv
<1> QED
  BY <1>1, <1>3, <1>9, <1>10, <1>11 DEF SlotsInv

\* A call enters the instance that a unit is held for.
LEMMA ExecutionStateSlotsInv ==
  ASSUME TypeInv, CallInv, SlotsInv, NEW j \in Instances, ExecutionState(j)
  PROVE  SlotsInv'
<1> DEFINE t0 == ThreadOf(j)
<1>1. /\ t0 \in Threads /\ DeviceOf[j] \in Devices
      /\ pc' = [pc EXCEPT ![t0] = "process"] /\ pc[t0] = "idle"
      /\ policy' = policy /\ arbitrator' = arbitrator /\ registered' = registered
      /\ semaphore' = semaphore /\ inFlight' = inFlight
      /\ instances_' = instances_
  BY ExecutionStateCall
<1>2. eager_batching' = eager_batching /\ created' = created
  BY DEF ExecutionState, configVars
<1>3. PICK c, w \in Instances :
        /\ curr_instance' = [curr_instance EXCEPT ![t0] = c]
        /\ waits' = [waits EXCEPT ![t0] = w]
        /\ c \in registered /\ ThreadOf(c) = t0
        /\ arbitrator = "instance" => c = j /\ w = j /\ idx_' = idx_
        /\ arbitrator = "device" =>
             /\ c = Upcoming(DeviceOf[j]) /\ DeviceOf[c] = DeviceOf[j]
             /\ w = Upcoming(DeviceOf[j])'
             /\ w \in registered /\ DeviceOf[w] = DeviceOf[j]
             /\ \A d \in Devices : d # DeviceOf[j] => Upcoming(d)' = Upcoming(d)
  BY ExecutionStateCall
<1>4. /\ pc \in [Threads -> {"idle", "process", "acquire"}]
      /\ curr_instance \in [Threads -> Instances]
      /\ arbitrator \in {"instance", "device"}
  BY DEF TypeInv, TypeOK
<1>5. ASSUME NEW i \in Instances
      PROVE  Held(i)' = Held(i)
  <2>1. ThreadOf(i) \in Threads /\ DeviceOf[i] \in Devices
    BY ThreadOfTyped
  <2>2. CASE ThreadOf(i) = t0
    <3>1. pc'[ThreadOf(i)] = "process" /\ curr_instance'[ThreadOf(i)] = c
      BY <1>1, <1>3, <1>4, <2>2
    <3>2. arbitrator = "device" => Upcoming(DeviceOf[i]) = c
      BY <1>3, <2>2, SameDevice
    <3>3. Held(i) <=> arbitrator = "instance" \/ c = i
      BY <1>1, <1>4, <2>2, <3>2 DEF Held
    <3>4. Held(i)' <=> arbitrator = "instance" \/ c = i
      BY <1>1, <3>1, HeldNext
    <3> QED
      BY <3>3, <3>4 DEF Held
  <2>3. CASE ThreadOf(i) # t0
    <3>1. /\ pc'[ThreadOf(i)] = pc[ThreadOf(i)]
          /\ curr_instance'[ThreadOf(i)] = curr_instance[ThreadOf(i)]
      BY <1>1, <1>3, <1>4, <2>1, <2>3
    <3>2. arbitrator = "device" => Upcoming(DeviceOf[i])' = Upcoming(DeviceOf[i])
      BY <1>3, <2>1, <2>3, SameDevice
    <3> QED
      BY <1>1, <1>4, <3>1, <3>2, HeldNext DEF Held
  <2> QED
    BY <2>2, <2>3
<1>6. SemCount' = SemCount
  BY <1>2 DEF SemCount
<1> QED
  BY <1>1, <1>2, <1>5, <1>6 DEF SlotsInv

\* The unit of the call in an instance goes to its run, or back.
LEMMA ProcessRequestsSlotsInv ==
  ASSUME TypeInv, CallInv, SlotsInv, NEW t0 \in Threads, ProcessRequests(t0)
  PROVE  SlotsInv'
<1>1. /\ policy' = policy /\ arbitrator' = arbitrator /\ eager_batching' = eager_batching
      /\ registered' = registered /\ created' = created
      /\ instances_' = instances_ /\ idx_' = idx_
      /\ curr_instance' = curr_instance
      /\ pc' = [pc EXCEPT ![t0] = "acquire"] /\ pc[t0] = "process"
  BY DEF ProcessRequests, configVars, listVars
<1>2. /\ pc \in [Threads -> {"idle", "process", "acquire"}]
      /\ semaphore \in [Instances -> Nat] /\ inFlight \in [Instances -> Nat]
      /\ registered \subseteq Instances /\ curr_instance[t0] \in Instances
  BY DEF TypeInv, TypeOK
<1>3. PICK k \in registered : k = curr_instance[t0] /\ ThreadOf(k) = t0
  BY <1>1 DEF CallInv
<1>4. \A i \in Instances :
        /\ i # k => semaphore'[i] = semaphore[i] /\ inFlight'[i] = inFlight[i]
        /\ i = k => semaphore'[i] + inFlight'[i] = semaphore[i] + inFlight[i] + 1
  <2>1. CASE /\ inFlight' = [inFlight EXCEPT ![curr_instance[t0]] = @ + 1]
             /\ UNCHANGED semaphore
    BY <1>2, <1>3, <2>1
  <2>2. CASE /\ semaphore' = [semaphore EXCEPT ![curr_instance[t0]] = @ + 1]
             /\ UNCHANGED inFlight
    BY <1>2, <1>3, <2>2
  <2> QED
    BY <2>1, <2>2 DEF ProcessRequests
<1>5. Held(k) /\ ~Held(k)'
  <2>1. pc'[t0] = "acquire" /\ curr_instance'[t0] = k
    BY <1>1, <1>2, <1>3
  <2> QED
    BY <1>1, <1>2, <1>3, <2>1, HeldNext DEF Held
<1>6. ASSUME NEW i \in Instances, i # k
      PROVE  Held(i)' = Held(i)
  <2>1. Upcoming(DeviceOf[i])' = Upcoming(DeviceOf[i])
    BY <1>1 DEF Upcoming, InstanceAt
  <2>2. CASE ThreadOf(i) = t0
    <3>1. pc'[t0] = "acquire" /\ curr_instance'[t0] = k
      BY <1>1, <1>2, <1>3
    <3> QED
      BY <1>1, <1>3, <1>6, <2>2, <3>1, HeldNext DEF Held
  <2>3. CASE ThreadOf(i) # t0
    <3>1. pc'[ThreadOf(i)] = pc[ThreadOf(i)]
      BY <1>1, <1>2, <2>3, ThreadOfTyped
    <3> QED
      BY <1>1, <2>1, <3>1, HeldNext DEF Held
  <2> QED
    BY <2>2, <2>3
<1>7. SemCount' = SemCount
  BY <1>1 DEF SemCount
<1>8. semaphore'[k] + inFlight'[k] + Unit(Held(k)') = SemCount
  <2>1. semaphore[k] + inFlight[k] + 1 = SemCount
    BY <1>2, <1>5 DEF SlotsInv, Unit
  <2>2. Unit(Held(k)') = 0
    BY <1>5 DEF Unit
  <2>3. semaphore'[k] + inFlight'[k] = SemCount
    BY <1>2, <1>4, <2>1
  <2> QED
    BY <2>1, <2>2, <2>3, SemCountTyped
<1> QED
  BY <1>1, <1>2, <1>4, <1>6, <1>7, <1>8 DEF SlotsInv

\* Execute takes the unit of the instance that is up next for its thread.
LEMMA AcquireSlotsInv ==
  ASSUME TypeInv, CallInv, SlotsInv, NEW t0 \in Threads, Acquire(t0)
  PROVE  SlotsInv'
<1>1. /\ policy' = policy /\ arbitrator' = arbitrator /\ eager_batching' = eager_batching
      /\ registered' = registered /\ created' = created /\ inFlight' = inFlight
      /\ instances_' = instances_ /\ idx_' = idx_
      /\ curr_instance' = [curr_instance EXCEPT ![t0] = Unset[t0]]
      /\ pc' = [pc EXCEPT ![t0] = "idle"] /\ pc[t0] = "acquire"
  BY DEF Acquire, configVars, listVars
<1>2. /\ pc \in [Threads -> {"idle", "process", "acquire"}]
      /\ semaphore \in [Instances -> Nat] /\ inFlight \in [Instances -> Nat]
      /\ curr_instance \in [Threads -> Instances]
      /\ registered \subseteq Instances /\ arbitrator \in {"instance", "device"}
  BY DEF TypeInv, TypeOK
<1>3. PICK k \in registered :
        /\ k = curr_instance[t0] /\ ThreadOf(k) = t0
        /\ arbitrator = "instance" => waits[t0] = k
        /\ arbitrator = "device" => waits[t0] = Upcoming(DeviceOf[k])
  BY <1>1 DEF CallInv
<1>4. k \in Instances /\ DeviceOf[k] \in Devices
  BY <1>2, <1>3, ThreadOfTyped
<1>5. arbitrator = "device" =>
        /\ Upcoming(DeviceOf[k]) \in registered
        /\ DeviceOf[Upcoming(DeviceOf[k])] = DeviceOf[k]
  <2> SUFFICES ASSUME arbitrator = "device"
               PROVE  /\ Upcoming(DeviceOf[k]) \in registered
                      /\ DeviceOf[Upcoming(DeviceOf[k])] = DeviceOf[k]
    OBVIOUS
  <2>1. Len(instances_[DeviceOf[k]]) > 0
    BY <1>3 DEF TypeInv, ListInv
  <2> QED
    BY <1>4, <2>1, UpcomingTyped
<1>6. PICK w \in registered : w = waits[t0]
  BY <1>2, <1>3, <1>5
<1>7. w \in Instances /\ ThreadOf(w) = t0
  <2>1. w \in Instances
    BY <1>2
  <2>2. CASE arbitrator = "instance"
    BY <1>3, <1>6, <2>1, <2>2
  <2>3. CASE arbitrator = "device"
    BY <1>3, <1>4, <1>5, <1>6, <2>1, <2>3, SameDevice
  <2> QED
    BY <1>2, <2>1, <2>2, <2>3
<1>8. semaphore[w] > 0 /\ semaphore' = [semaphore EXCEPT ![w] = semaphore[w] - 1]
  BY <1>6 DEF Acquire
<1>9. \A i \in Instances : Upcoming(DeviceOf[i])' = Upcoming(DeviceOf[i])
  BY <1>1 DEF Upcoming, InstanceAt
<1>10. ASSUME NEW i \in Instances, ThreadOf(i) = t0
       PROVE  /\ Held(i) <=> arbitrator = "instance" /\ i # k
              /\ Held(i)' <=> arbitrator = "instance" \/ Upcoming(DeviceOf[i]) = i
  <2>1. Held(i) <=> arbitrator = "instance" /\ i # k
    BY <1>1, <1>3, <1>10 DEF Held
  <2>2. pc'[ThreadOf(i)] = "idle"
    BY <1>1, <1>2, <1>10
  <2> QED
    BY <1>1, <1>9, <2>1, <2>2, HeldNext
<1>11. ~Held(w) /\ Held(w)'
  <2>1. CASE arbitrator = "instance"
    BY <1>3, <1>6, <1>7, <1>10, <2>1
  <2>2. CASE arbitrator = "device"
    <3>1. w = Upcoming(DeviceOf[k]) /\ DeviceOf[w] = DeviceOf[k]
      BY <1>3, <1>5, <1>6, <2>2
    <3> QED
      BY <1>7, <1>10, <2>2, <3>1
  <2> QED
    BY <1>2, <2>1, <2>2
<1>12. ASSUME NEW i \in Instances, i # w
       PROVE  Unit(Held(i)') = Unit(Held(i))
  <2>1. CASE ThreadOf(i) = t0
    <3>1. CASE arbitrator = "instance"
      <4>1. Held(i) /\ Held(i)'
        BY <1>3, <1>6, <1>10, <1>12, <2>1, <3>1
      <4> QED
        BY <4>1 DEF Unit
    <3>2. CASE arbitrator = "device"
      <4>1. DeviceOf[i] = DeviceOf[k]
        BY <1>3, <1>4, <2>1, <3>2, SameDevice
      <4>2. Upcoming(DeviceOf[i]) = w
        BY <1>3, <1>6, <3>2, <4>1
      <4>3. ~Held(i) /\ ~Held(i)'
        BY <1>10, <1>12, <2>1, <3>2, <4>2
      <4> QED
        BY <4>3 DEF Unit
    <3> QED
      BY <1>2, <3>1, <3>2
  <2>2. CASE ThreadOf(i) # t0
    <3>1. /\ pc'[ThreadOf(i)] = pc[ThreadOf(i)]
          /\ curr_instance'[ThreadOf(i)] = curr_instance[ThreadOf(i)]
      BY <1>1, <1>2, <2>2, ThreadOfTyped
    <3>2. Held(i)' = Held(i)
      BY <1>1, <1>9, <3>1, HeldNext DEF Held
    <3> QED
      BY <3>2
  <2> QED
    BY <2>1, <2>2
<1>13. SemCount' = SemCount
  BY <1>1 DEF SemCount
<1>14. \A i \in Instances :
         /\ i # w => semaphore'[i] = semaphore[i]
         /\ i = w => semaphore'[i] = semaphore[i] - 1
  BY <1>2, <1>8
<1>15. semaphore'[w] + inFlight'[w] + Unit(Held(w)') = SemCount
  <2>1. semaphore[w] + inFlight[w] + 0 = SemCount
    BY <1>7, <1>11 DEF SlotsInv, Unit
  <2>2. Unit(Held(w)') = 1
    BY <1>11 DEF Unit
  <2> QED
    BY <1>1, <1>2, <1>7, <1>14, <2>1, <2>2
<1> QED
  BY <1>1, <1>2, <1>6, <1>12, <1>13, <1>14, <1>15 DEF SlotsInv

LEMMA NextSlotsInv ==
  ASSUME TypeInv, CallInv, SlotsInv, [Next]_vars
  PROVE  SlotsInv'
<1>1. CASE UNCHANGED vars
  BY <1>1, QuietSlotsInv DEF vars
<1>2. CASE Quiescent
  BY <1>1, <1>2 DEF Quiescent
<1> QED
  BY <1>1, <1>2, CreateInstanceSlotsInv, RegisterInstanceSlotsInv,
     ExecutionStateSlotsInv, ReleaseSlotsInv, ProcessRequestsSlotsInv,
     AcquireSlotsInv DEF Next

\* Execute never enters an instance on another instance's unit: of each
\* registered instance, the units free, in flight and held are all there are.
THEOREM OwnUnits == Spec => []SlotsOfOwnInstance
<1>1. ASSUME TypeInv, CallInv, SlotsInv, NEW i \in registered
      PROVE  semaphore[i] + inFlight[i] + (IF HeldFor(i) THEN 1 ELSE 0) = SemCount
  <2>1. i \in Instances
    BY <1>1 DEF TypeInv, TypeOK
  <2>2. semaphore[i] + inFlight[i] + Unit(Held(i)) = SemCount
    BY <1>1, <2>1 DEF SlotsInv
  <2>3. HeldFor(i) <=> Held(i)
    BY <1>1, HeldIsHeldFor
  <2> QED
    BY <2>2, <2>3 DEF Unit
<1>2. TypeInv /\ CallInv /\ SlotsInv => SlotsOfOwnInstance
  BY <1>1 DEF SlotsOfOwnInstance
<1>3. Spec => [](TypeInv /\ CallInv /\ SlotsInv)
  BY InitTypeInv, InitCallInv, InitSlotsInv, NextTypeInv, NextCallInv, NextSlotsInv,
     PTL DEF Spec
<1> QED
  BY <1>2, <1>3, PTL

-----------------------------------------------------------------------------
(***************************************************************************)
(* The round of the device arbitrator.                                     *)
(***************************************************************************)
\* Positions of a list after the first c come first, then the first c again:
\* p is executed before q.
Earlier(c, p, q) == IF p > c THEN q > p \/ q <= c ELSE p < q /\ q <= c

\* An instance is at one position of the list of its device, and those that
\* execute before it does again come before it in the round from the index on.
RoundInv ==
  /\ \A d \in Devices : \A p, q \in 1 .. Len(instances_[d]) :
       instances_[d][p] = instances_[d][q] => p = q
  /\ arbitrator = "device" =>
       \A i \in registered : \E p \in 1 .. Len(instances_[DeviceOf[i]]) :
         instances_[DeviceOf[i]][p] = i
  /\ \A j \in Instances : \A k \in owed[j] : \E d \in Devices :
       \E p, q \in 1 .. Len(instances_[d]) :
         instances_[d][p] = k /\ instances_[d][q] = j /\ Earlier(idx_[d], p, q)

LEMMA InitRoundInv == Init => RoundInv
BY DEF Init, RoundInv

LEMMA QuietRoundInv ==
  ASSUME RoundInv, UNCHANGED <<arbitrator, instances_, idx_, registered, owed>>
  PROVE  RoundInv'
BY DEF RoundInv

\* The round goes on by one position: the one before is last, the others keep
\* their order.
LEMMA EarlierNext ==
  ASSUME NEW n \in Nat, NEW c \in 0 .. n - 1, NEW p \in 1 .. n, NEW q \in 1 .. n,
         p # c + 1
  PROVE  /\ q = c + 1 => Earlier((c + 1) % n, p, q)
         /\ q # c + 1 /\ Earlier(c, p, q) => Earlier((c + 1) % n, p, q)
<1>1. (c + 1) % n = IF c + 1 = n THEN 0 ELSE c + 1
  OBVIOUS
<1> DEFINE next == (c + 1) % n
<1>2. next = IF c + 1 = n THEN 0 ELSE c + 1
  BY <1>1
<1> HIDE DEF next
<1>3. /\ q = c + 1 => Earlier(next, p, q)
      /\ q # c + 1 /\ Earlier(c, p, q) => Earlier(next, p, q)
  BY <1>2 DEF Earlier
<1> QED
  BY <1>3 DEF next

LEMMA RegisterInstanceRoundInv ==
  ASSUME TypeInv, RoundInv, NEW i \in Instances, RegisterInstance(i)
  PROVE  RoundInv'
<1>1. /\ i \notin registered /\ registered' = registered \cup {i}
      /\ UNCHANGED <<idx_, owed, arbitrator>>
  BY DEF RegisterInstance, configVars
<1>2. ASSUME NEW d \in Devices,
             NEW p \in 1 .. Len(instances_'[d]), NEW q \in 1 .. Len(instances_'[d]),
             instances_'[d][p] = instances_'[d][q]
      PROVE  p = q
  <2>1. \A k \in 1 .. Len(instances_[d]) :
          instances_[d][k] # i /\ instances_'[d][k] = instances_[d][k]
    BY <1>1, RegisterInstanceLists DEF TypeInv, ListInv
  <2>2. instances_[d] \in Seq(Instances)
    BY DEF TypeInv, TypeOK
  <2>3. instances_'[d] = instances_[d] \/ instances_'[d] = Append(instances_[d], i)
    BY <2>2, ThreadOfTyped DEF TypeInv, TypeOK, RegisterInstance
  <2>4. CASE p \in 1 .. Len(instances_[d]) /\ q \in 1 .. Len(instances_[d])
    BY <1>2, <2>1, <2>4 DEF RoundInv
  <2>5. CASE ~(p \in 1 .. Len(instances_[d]) /\ q \in 1 .. Len(instances_[d]))
    <3> DEFINE old == instances_[d]
               new == instances_'[d]
               m == Len(old)
    <3>1. m \in Nat /\ Len(new) \in {m, m + 1}
      BY <2>2, <2>3
    <3>2. Len(new) = m + 1
      BY <2>5, <3>1
    <3>3. new[m + 1] = i
      BY <2>2, <2>3, <3>1, <3>2
    <3>4. /\ p \in 1 .. m + 1 /\ q \in 1 .. m + 1 /\ new[p] = new[q]
          /\ \A k \in 1 .. m : new[k] # i
      BY <1>2, <2>1, <3>2
    <3>5. ~(p \in 1 .. m /\ q \in 1 .. m)
      BY <2>5
    <3> HIDE DEF old, new, m
    <3> QED
      BY <3>1, <3>3, <3>4, <3>5
  <2> QED
    BY <2>4, <2>5
<1>3. ASSUME arbitrator = "device", NEW j \in registered'
      PROVE  \E p \in 1 .. Len(instances_'[DeviceOf[j]]) : instances_'[DeviceOf[j]][p] = j
  <2>1. j \in Instances /\ DeviceOf[j] \in Devices
    BY <1>1, ThreadOfTyped DEF TypeInv, TypeOK
  <2>2. instances_[DeviceOf[j]] \in Seq(Instances)
    BY <2>1 DEF TypeInv, TypeOK
  <2>3. CASE j = i
    <3>1. instances_'[DeviceOf[i]] = Append(instances_[DeviceOf[i]], i)
      BY <1>3, <2>1, <2>3 DEF TypeInv, TypeOK, RegisterInstance
    <3> QED
      BY <2>2, <2>3, <3>1
  <2>4. CASE j \in registered
    <3>1. PICK p \in 1 .. Len(instances_[DeviceOf[j]]) : instances_[DeviceOf[j]][p] = j
      BY <1>3, <2>4 DEF RoundInv
    <3>2. /\ Len(instances_'[DeviceOf[j]]) \in Nat /\ Len(instances_[DeviceOf[j]]) \in Nat
          /\ Len(instances_'[DeviceOf[j]]) >= Len(instances_[DeviceOf[j]])
          /\ instances_'[DeviceOf[j]][p] = instances_[DeviceOf[j]][p]
      BY <2>1, <2>2, RegisterInstanceLists
    <3> QED
      BY <3>1, <3>2
  <2> QED
    BY <1>1, <2>3, <2>4
<1>4. ASSUME NEW j \in Instances, NEW k \in owed[j]
      PROVE  \E d \in Devices : \E p, q \in 1 .. Len(instances_'[d]) :
               /\ instances_'[d][p] = k /\ instances_'[d][q] = j
               /\ Earlier(idx_[d], p, q)
  <2>1. PICK d \in Devices : \E p, q \in 1 .. Len(instances_[d]) :
               instances_[d][p] = k /\ instances_[d][q] = j /\ Earlier(idx_[d], p, q)
    BY <1>4 DEF RoundInv
  <2>2. /\ Len(instances_'[d]) \in Nat /\ Len(instances_[d]) \in Nat
        /\ Len(instances_'[d]) >= Len(instances_[d])
        /\ \A p \in 1 .. Len(instances_[d]) : instances_'[d][p] = instances_[d][p]
    <3>1. instances_[d] \in Seq(Instances)
      BY DEF TypeInv, TypeOK
    <3> QED
      BY <3>1, RegisterInstanceLists
  <2> QED
    BY <2>1, <2>2
<1> QED
  BY <1>1, <1>2, <1>3, <1>4 DEF RoundInv

\* What the device arbitrator does for instance i.
LEMMA ExecutionStateRound ==
  ASSUME TypeInv, NEW i \in Instances, ExecutionState(i), arbitrator = "device",
         NEW d, d = DeviceOf[i]
  PROVE  /\ d \in Devices
         /\ Len(instances_[d]) \in Nat /\ idx_[d] \in 0 .. Len(instances_[d]) - 1
         /\ Upcoming(d) = instances_[d][idx_[d] + 1]
         /\ DeviceOf[Upcoming(d)] = d
         /\ UNCHANGED <<arbitrator, instances_, registered>>
         /\ idx_'[d] = (idx_[d] + 1) % Len(instances_[d])
         /\ \A b \in Devices : b # d => idx_'[b] = idx_[b]
         /\ curr_instance' = [curr_instance EXCEPT ![ThreadOf(i)] = Upcoming(d)]
         /\ Executes(Upcoming(d))
<1>1. d \in Devices
  BY ThreadOfTyped
<1>2. Len(instances_[d]) > 0
  BY DEF TypeInv, ListInv, ExecutionState
<1>3. /\ idx_' = [idx_ EXCEPT ![d] = NextIndex(d)] /\ idx_ \in [Devices -> Nat]
      /\ curr_instance' = [curr_instance EXCEPT ![ThreadOf(i)] = Upcoming(d)]
      /\ Executes(Upcoming(d))
      /\ UNCHANGED <<arbitrator, instances_, registered>>
  BY DEF ExecutionState, Upcoming, configVars, TypeInv, TypeOK
<1>4. Upcoming(d) = instances_[d][idx_[d] + 1]
  BY DEF Upcoming, InstanceAt
<1> QED
  BY <1>1, <1>2, <1>3, <1>4, IndexTyped, UpcomingTyped DEF NextIndex

LEMMA ExecutionStateRoundInv ==
  ASSUME TypeInv, RoundInv, NEW i \in Instances, ExecutionState(i)
  PROVE  RoundInv'
<1>1. CASE arbitrator = "instance"
  BY <1>1, QuietRoundInv DEF ExecutionState, configVars
<1>2. CASE arbitrator = "device"
  <2> DEFINE d0 == DeviceOf[i]
             n == Len(instances_[d0])
             c == idx_[d0]
             current == Upcoming(d0)
  <2>1. /\ d0 \in Devices /\ n \in Nat /\ c \in 0 .. n - 1
        /\ current = instances_[d0][c + 1] /\ DeviceOf[current] = d0
        /\ UNCHANGED <<arbitrator, instances_, registered>>
        /\ idx_'[d0] = (c + 1) % n
        /\ \A b \in Devices : b # d0 => idx_'[b] = idx_[b]
        /\ Executes(current)
    BY <1>2, ExecutionStateRound
  <2>2. registered \subseteq Instances
    BY DEF TypeInv, TypeOK
  <2> HIDE DEF d0, current
  <2>3. ASSUME NEW j \in Instances, NEW k \in owed'[j]
        PROVE  \E d \in Devices : \E p, q \in 1 .. Len(instances_[d]) :
                 instances_[d][p] = k /\ instances_[d][q] = j /\ Earlier(idx_'[d], p, q)
    <3>1. CASE j = current
      <4>1. k \in registered /\ DeviceOf[k] = d0 /\ k # current
        BY <2>1, <2>3, <3>1 DEF Executes
      <4>2. PICK p \in 1 .. n : instances_[d0][p] = k
        BY <1>2, <4>1 DEF RoundInv
      <4>3. p # c + 1 /\ c + 1 \in 1 .. n
        BY <2>1, <4>1, <4>2
      <4>4. Earlier((c + 1) % n, p, c + 1)
        BY <2>1, <4>2, <4>3, EarlierNext
      <4> QED
        BY <2>1, <3>1, <4>2, <4>3, <4>4
    <3>2. CASE j # current
      <4>1. k \in owed[j] /\ k # current
        BY <2>1, <2>3, <3>2 DEF Executes
      <4>2. PICK d \in Devices : \E p, q \in 1 .. Len(instances_[d]) :
                 instances_[d][p] = k /\ instances_[d][q] = j /\ Earlier(idx_[d], p, q)
        BY <4>1 DEF RoundInv
      <4>3. CASE d # d0
        BY <2>1, <4>2, <4>3
      <4>4. CASE d = d0
        <5>1. PICK p \in 1 .. n, q \in 1 .. n :
                 instances_[d0][p] = k /\ instances_[d0][q] = j /\ Earlier(c, p, q)
          BY <4>2, <4>4
        <5>2. p # c + 1 /\ q # c + 1
          BY <2>1, <3>2, <4>1, <5>1
        <5>3. Earlier((c + 1) % n, p, q)
          BY <2>1, <5>1, <5>2, EarlierNext
        <5> QED
          BY <2>1, <5>1, <5>3
      <4> QED
        BY <4>3, <4>4
    <3> QED
      BY <3>1, <3>2
  <2> QED
    BY <2>1, <2>3 DEF RoundInv
<1> QED
  BY <1>1, <1>2 DEF ExecutionState

LEMMA NextRoundInv ==
  ASSUME TypeInv, RoundInv, [Next]_vars
  PROVE  RoundInv'
<1>1. CASE UNCHANGED vars \/ Quiescent
  BY <1>1, QuietRoundInv DEF vars, Quiescent, configVars, listVars
<1>2. ASSUME NEW i \in Instances, CreateInstance(i) \/ Release(i)
      PROVE  RoundInv'
  BY <1>2, QuietRoundInv DEF CreateInstance, Release, configVars, listVars
<1>3. ASSUME NEW t \in Threads, ProcessRequests(t) \/ Acquire(t)
      PROVE  RoundInv'
  BY <1>3, QuietRoundInv DEF ProcessRequests, Acquire, configVars, listVars
<1> QED
  BY <1>1, <1>2, <1>3, RegisterInstanceRoundInv, ExecutionStateRoundInv DEF Next

\* Execute of DeviceBlockingArbitrator goes round the instances of a device,
\* although instances are registered while others execute: none executes again
\* before all have that were registered when it executed last.
THEOREM ArbitratorGoesRound == Spec => RoundRobin
<1> DEFINE Step == \A i \in Instances :
                     (\E t \in Threads : pc[t] = "idle" /\ pc'[t] = "process"
                                           /\ curr_instance'[t] = i)
                     /\ arbitrator = "device" => owed[i] = {}
<1>1. TypeInv /\ RoundInv /\ [Next]_vars => [Step]_vars
  <2> SUFFICES ASSUME TypeInv, RoundInv, Next, arbitrator = "device",
                      NEW i \in Instances, NEW t \in Threads,
                      pc[t] = "idle", pc'[t] = "process", curr_instance'[t] = i,
                      NEW k \in owed[i]
               PROVE  FALSE
    OBVIOUS
  <2>0. /\ pc \in [Threads -> {"idle", "process", "acquire"}]
        /\ curr_instance \in [Threads -> Instances]
    BY DEF TypeInv, TypeOK
  <2>1. PICK j \in Instances : ExecutionState(j)
    <3>1. ~\E j \in Instances : CreateInstance(j) \/ RegisterInstance(j) \/ Release(j)
      BY DEF CreateInstance, RegisterInstance, Release, threadVars
    <3>2. ~\E u \in Threads : ProcessRequests(u) \/ Acquire(u)
      BY <2>0 DEF ProcessRequests, Acquire
    <3>3. ~Quiescent
      BY DEF Quiescent, vars, threadVars
    <3> QED
      BY <3>1, <3>2, <3>3 DEF Next
  <2> DEFINE d0 == DeviceOf[j]
             n == Len(instances_[d0])
             c == idx_[d0]
  <2>2. /\ d0 \in Devices /\ n \in Nat /\ c \in 0 .. n - 1
        /\ Upcoming(d0) = instances_[d0][c + 1] /\ DeviceOf[Upcoming(d0)] = d0
        /\ curr_instance' = [curr_instance EXCEPT ![ThreadOf(j)] = Upcoming(d0)]
    BY <2>1, ExecutionStateRound
  <2>3. t = ThreadOf(j)
    BY <2>0, <2>1 DEF ExecutionState
  <2>4. i = instances_[d0][c + 1] /\ DeviceOf[i] = d0
    BY <2>0, <2>2, <2>3
  <2>5. PICK d \in Devices : \E p, q \in 1 .. Len(instances_[d]) :
               instances_[d][p] = k /\ instances_[d][q] = i /\ Earlier(idx_[d], p, q)
    BY DEF RoundInv
  <2>6. d = d0
    BY <2>4, <2>5 DEF TypeInv, ListInv
  <2>7. PICK p \in 1 .. n, q \in 1 .. n : instances_[d0][q] = i /\ Earlier(c, p, q)
    BY <2>5, <2>6
  <2>8. q = c + 1
    <3>1. c + 1 \in 1 .. n
      BY <2>2
    <3> QED
      BY <2>2, <2>4, <2>7, <3>1 DEF RoundInv
  <2> QED
    BY <2>2, <2>7, <2>8 DEF Earlier
<1>2. Spec => [][Step]_vars
  BY <1>1, InitTypeInv, InitRoundInv, NextTypeInv, NextRoundInv, PTL DEF Spec
<1> QED
  BY <1>2 DEF RoundRobin

=============================================================================
