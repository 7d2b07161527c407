---------------------------- MODULE MCExecutionLane ----------------------------
(* TLC instances of ExecutionLane: requests whose kinds and parameters are    *)
(* chosen in Init.                                                            *)
EXTENDS ExecutionLane, TLC

Symmetry == Permutations(Requests)
=============================================================================
