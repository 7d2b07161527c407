-------------------------- MODULE MCStrategyRepository --------------------------
(* TLC instances of StrategyRepository.  There are fewer requests than the    *)
(* bounds on ids and versions, so that no bound is ever reached.              *)
EXTENDS StrategyRepository, TLC

ASSUME BoundsSuffice == /\ Cardinality(Requests) < MaxStrategies
                        /\ Cardinality(Requests) + 1 < MaxVersions
=============================================================================
