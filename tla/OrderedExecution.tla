--------------------------- MODULE OrderedExecution ---------------------------
(***************************************************************************)
(* What a model instance promises Triton, without threads, events or       *)
(* buffers: runs are accepted one at a time; a run either fails while it   *)
(* is being issued or becomes pending; pending runs are finished in the    *)
(* order they were accepted; and every run is finished exactly once.       *)
(***************************************************************************)
EXTENDS Integers

CONSTANT Runs   \* an initial segment of 1, 2, 3 ...

VARIABLES
  accepted,   \* runs accepted so far
  active,     \* whether the last accepted run is being issued
  pending,    \* runs that are issued and not finished
  finished    \* runs whose requests are answered and returned

vars == <<accepted, active, pending, finished>>

Init ==
  /\ accepted = 0
  /\ active = FALSE
  /\ pending = {}
  /\ finished = {}

Accept ==
  /\ ~active
  /\ accepted + 1 \in Runs
  /\ accepted' = accepted + 1
  /\ active' = TRUE
  /\ UNCHANGED <<pending, finished>>

Fail ==
  /\ active
  /\ active' = FALSE
  /\ finished' = finished \cup {accepted}
  /\ UNCHANGED <<accepted, pending>>

Issue ==
  /\ active
  /\ active' = FALSE
  /\ pending' = pending \cup {accepted}
  /\ UNCHANGED <<accepted, finished>>

Finish(k) ==
  /\ k \in pending
  /\ \A j \in pending : k <= j
  /\ k \notin finished
  /\ pending' = pending \ {k}
  /\ finished' = finished \cup {k}
  /\ UNCHANGED <<accepted, active>>

Next == Accept \/ Fail \/ Issue \/ \E k \in Runs : Finish(k)

Spec == Init /\ [][Next]_vars

\* A run that is being issued gets issued or fails, and pending runs finish.
FairSpec ==
  /\ Spec
  /\ WF_vars(Fail \/ Issue)
  /\ WF_vars(\E k \in Runs : Finish(k))
=============================================================================
