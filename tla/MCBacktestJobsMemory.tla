------------------------- MODULE MCBacktestJobsMemory -------------------------
(* TLC instances of BacktestJobsMemory: one job, a few requests whose kinds  *)
(* are chosen in Init.                                                       *)
EXTENDS BacktestJobsMemory, TLC

Symmetry == Permutations(Requests)
=============================================================================
