------------------------------ MODULE NodeHealth ------------------------------
(***************************************************************************)
(* What HealthConfig promises about the place of a node, without locks,    *)
(* requests, probes or time: a run of FailureThreshold failures, and       *)
(* nothing short of it, takes the node out; a run of SuccessThreshold      *)
(* successes brings it back; one outcome of the other sort ends a run.     *)
(* HealthPool, Failover and ProbeSchedule implement this module, so that   *)
(* each sees the same node (their HealthSpec).                             *)
(***************************************************************************)
EXTENDS Integers

CONSTANTS
  Nodes,             \* the nodes of the pool
  FailureThreshold,  \* HealthConfig.FailureThreshold
  SuccessThreshold   \* HealthConfig.SuccessThreshold

VARIABLES
  up,  \* the nodes in their place
  run  \* outcomes of one sort in a row, up to their threshold: successes
       \* counted above zero, failures below

vars == <<up, run>>

Init == up = Nodes /\ run = [n \in Nodes |-> 0]

Lesser(a, b) == IF a < b THEN a ELSE b

\* markSuccess.
Success(n) ==
  LET streak == IF run[n] < 0 THEN 0 ELSE run[n]
  IN /\ run' = [run EXCEPT ![n] = Lesser(streak + 1, SuccessThreshold)]
     /\ up' = IF run'[n] = SuccessThreshold THEN up \cup {n} ELSE up

\* markFailure.
Failure(n) ==
  LET streak == IF run[n] > 0 THEN 0 ELSE -run[n]
  IN /\ run' = [run EXCEPT ![n] = -Lesser(streak + 1, FailureThreshold)]
     /\ up' = IF run'[n] = -FailureThreshold THEN up \ {n} ELSE up

Next == \E n \in Nodes : Success(n) \/ Failure(n)

Spec == Init /\ [][Next]_vars
=============================================================================
