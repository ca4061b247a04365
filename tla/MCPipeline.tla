------------------------------ MODULE MCPipeline ------------------------------
(* InstancePipeline on small instances. *)
EXTENDS InstancePipeline, TLC

NoFaults == {}
AllFaults == FaultKinds
RunFaults == FaultKinds \ {"state"}
DeviceFaults == {"input", "enqueue", "output"}
StateFaults == {"state"}
=============================================================================
