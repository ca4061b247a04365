----------------------------- MODULE MCArbitrator -----------------------------
(* ExecutionArbitrator with three instances on two devices. *)
EXTENDS ExecutionArbitrator, TLC

CONSTANTS i1, i2, i3, gpu0, gpu1

ThreeOnTwo == i1 :> gpu0 @@ i2 :> gpu0 @@ i3 :> gpu1
=============================================================================
