---------------------------- MODULE MCCudaGraphs ----------------------------
(***************************************************************************)
(* An instance of CudaGraphs: a plain and a ragged input, two profiles of  *)
(* which one holds larger batches and the other larger shapes.             *)
(***************************************************************************)
EXTENDS CudaGraphs

MCInputs == <<"plain", "ragged">>
Bound(batch, own) == [batch |-> batch, own |-> own]
MCProfiles ==
  << [min |-> Bound(1, <<1, 1>>), opt |-> Bound(2, <<2, 3>>), max |-> Bound(3, <<3, 3>>)],
     [min |-> Bound(1, <<2, 1>>), opt |-> Bound(1, <<3, 1>>), max |-> Bound(2, <<4, 3>>)] >>

Given(batch, shapes) ==
  [batch |-> batch, shapes |-> shapes,
   lower_batch |-> batch, lower_shapes |-> shapes, bounded |-> FALSE]
Bounded(batch, shapes, lower_batch, lower_shapes) ==
  [batch |-> batch, shapes |-> shapes,
   lower_batch |-> lower_batch, lower_shapes |-> lower_shapes, bounded |-> TRUE]

\* No graph spec (the defaults), exact specs, bounded ones that overlap so that
\* the order of keys matters, two of the same key, and specs that are refused.
MCConfigurations ==
  { << >>,
    << Given(2, <<1, 1>>), Given(1, <<3, 3>>) >>,
    << Bounded(2, <<2, 1>>, 1, <<1, 1>>), Bounded(3, <<1, 3>>, 1, <<1, 1>>) >>,
    << Bounded(3, <<3, 3>>, 2, <<1, 2>>), Given(3, <<1, 3>>), Bounded(2, <<3, 3>>, 2, <<2, 3>>) >>,
    << Bounded(3, <<3, 3>>, 3, <<2, 2>>), Bounded(3, <<3, 3>>, 1, <<1, 1>>) >>,
    << Given(2, <<1>>) >>,
    << Given(2, << >>) >>,
    << Bounded(2, <<2, 2>>, 3, <<1, 1>>) >>,
    << Bounded(2, <<2, 2>>, 1, <<3, 1>>) >> }

\* The same for a model that does not batch.
UnbatchedConfigurations ==
  { << >>, << Given(0, <<1, 3>>) >>, << Bounded(0, <<2, 2>>, 0, <<1, 1>>) >> }

Totals == IF MaxBatchSize = 0 THEN {1} ELSE 1 .. 3
MCBatches == [batch : Totals, own : {<<p, r>> : p \in 1 .. 4, r \in {1, 3}}]

=============================================================================
