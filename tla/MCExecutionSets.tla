-------------------------- MODULE MCExecutionSets --------------------------
(* Two plans over two target resources for TLC. *)
EXTENDS ExecutionSets

CONSTANTS primary, replica, pgbot, prometheus, i0, i1

BothByPgbot == <<<<primary, pgbot>>, <<replica, pgbot>>>>
ReplicaByPrometheus == <<<<replica, prometheus>>>>
TwoPlans == {BothByPgbot, ReplicaByPrometheus}
SetsOfTwoRevisions ==
  {<<1, BothByPgbot>>, <<1, ReplicaByPrometheus>>, <<2, ReplicaByPrometheus>>}

AllInstances == {i0, i1} \cup Readings
=============================================================================
