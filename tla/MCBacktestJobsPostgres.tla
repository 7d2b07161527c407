------------------------ MODULE MCBacktestJobsPostgres ------------------------
(* TLC instances of BacktestJobsPostgres: one job, a few requests whose kinds *)
(* are chosen in Init, one crash.                                             *)
EXTENDS BacktestJobsPostgres, TLC

Symmetry == Permutations(Requests)
=============================================================================
