----------------------------- MODULE StrategySpecs -----------------------------
(***************************************************************************)
(* What happens to a strategy specification between the editor and a       *)
(* backtest, as functions of the payload:                                  *)
(*   packages/strategy_spec      models.py, resolver.py, microstructure.py,*)
(*                               models_v2.py, migration.py                *)
(*   packages/strategy_validation validators.py                            *)
(*   packages/strategy_compiler  compiler.py, artifact_bundle.py           *)
(*   packages/pipeline           service.py                                *)
(*                                                                         *)
(* A classic payload is a record                                           *)
(*   text     "clean", "forbidden" (a forbidden reference) or "code"       *)
(*   risk     "missing", "bad" (a limit out of its bounds) or "good"       *)
(*   flags    the validation flags that are true                           *)
(*   range    the start and the end of the data range                      *)
(*   blocks   which of all and any its one rule block defines              *)
(*   clauses  the clauses of the block, each [ops, operands]               *)
(*   indicators  the types of its indicators                               *)
(*   version  "1.0.0" or a text that is no such number                     *)
(* and a microstructure payload a record of its features and its limits.   *)
(***************************************************************************)
EXTENDS Naturals, Sequences, FiniteSets, SequencesExt, Ordering

Flags == {"bar_close_only", "no_lookahead_required", "requires_backtest_before_shadow"}
Crossings == {"crossed_above", "crossed_below"}
\* A date: text that is none, or an instant with or without a time zone.
Junk == [at |-> 0, zoned |-> FALSE]

(***************************************************************************)
(* The classic model (models.py).  crossed_above and crossed_below take    *)
(* lists of text, so a number among their operands is a type error.        *)
(***************************************************************************)
RuleClause(c) == /\ Cardinality(c.ops) = 1
                 /\ c.ops \subseteq Crossings => \A i \in DOMAIN c.operands : c.operands[i] # "number"
RuleBlock(p) == Cardinality(p.blocks) = 1
RiskBlock(p) == p.risk = "good"
StrategySpec(p) == /\ p.family = "classic_v1"
                   /\ RuleBlock(p) /\ RiskBlock(p)
                   /\ \A i \in DOMAIN p.clauses : RuleClause(p.clauses[i])

(***************************************************************************)
(* The microstructure model and its health check (microstructure.py).      *)
(* A feature is [required, failClosed, maxStale (0: not set), listed].     *)
(* A health record is [known, missing, stale, age (-1: None), synthetic].  *)
(***************************************************************************)
MicrostructureFeatureRef(f) == f.listed
StrategySpecMicrostructureV1(p) == /\ p.family = "microstructure_v1"
                                   /\ p.features # {} /\ \A f \in p.features : MicrostructureFeatureRef(f)
                                   /\ p.risk = "good" /\ p.version = "1.0.0"
\* validate_source_health, for one required feature.  A record marked stale
\* whose age is None passes when the feature sets a limit.
Violations(f, h) ==
  {v \in {"unknown", "missing", "stale", "synthetic"} :
     \/ v = "unknown" /\ ~h.known /\ f.failClosed
     \/ v = "missing" /\ h.known /\ h.missing /\ f.failClosed
     \/ v = "stale" /\ h.known /\ h.stale /\ (f.maxStale = 0 \/ h.age > f.maxStale)
     \/ v = "synthetic" /\ h.known /\ h.synthetic /\ f.failClosed}
HealthViolations(features, health) ==
  UNION {Violations(f, health[f]) : f \in {g \in features : g.required}}

(***************************************************************************)
(* Validation (validators.py).  "raises" is the TypeError of comparing a   *)
(* date that has a time zone with one that has none.                       *)
(***************************************************************************)
RangeErrors(p) ==
  LET start == p.range[1]  end == p.range[2] IN
  IF start = Junk \/ end = Junk THEN {"not a date"}
  ELSE IF start.zoned # end.zoned THEN {"raises"}
  ELSE IF start.at >= end.at THEN {"start not before end"} ELSE {}
\* Faulty: only the first operand is looked up.
ClauseErrors_first(c) ==
  IF Len(c.operands) # 2 THEN {"not two operands"} ELSE IF c.operands[1] = "unknown" THEN {"unknown operand"} ELSE {}
ClauseErrors(c) ==
  IF Len(c.operands) # 2 THEN {"not two operands"}
  ELSE IF \E i \in 1..2 : c.operands[i] = "unknown" THEN {"unknown operand"} ELSE {}
SchemaErrors(p) ==
  IF StrategySpec(p) THEN RangeErrors(p) \cup UNION {ClauseErrors(c) : c \in ToSet(p.clauses)} ELSE {"schema"}
validate_strategy_spec(p) ==
  (IF p.text = "clean" THEN {} ELSE {"forbidden text"})
  \cup (IF p.risk = "missing" THEN {"risk block missing"} ELSE {})
  \cup (Flags \ p.flags)
  \cup SchemaErrors(p)

(***************************************************************************)
(* The evaluator of the compiled rule graph reads operands[0] and [1] of   *)
(* every clause and looks a text up among the indicators and prices.       *)
(***************************************************************************)
EvaluatorReads(p) == \A c \in ToSet(p.clauses) : Len(c.operands) >= 2 /\ "unknown" \notin {c.operands[1], c.operands[2]}

(***************************************************************************)
(* The compiler.  A hash is written as the pair it is computed from.       *)
(***************************************************************************)
parse_strategy_spec(p) == IF p.family = "microstructure_v1" THEN StrategySpecMicrostructureV1(p) ELSE StrategySpec(p)
CompileFails == [profile |-> "none"]
\* A microstructure specification compiles to a preview whatever the profile
\* asked for, but its hash is computed over the profile asked for.
compile_strategy_spec(p, profile) ==
  IF ~parse_strategy_spec(p) \/ (p.family = "classic_v1" /\ profile \notin {"backtest", "signal_preview_only"})
  THEN CompileFails
  ELSE [profile |-> IF p.family = "microstructure_v1" THEN "signal_preview_only" ELSE profile,
        output_mode |-> IF p.family = "classic_v1" /\ profile = "backtest" THEN "backtest_signal_observation" ELSE "signal_preview_only",
        compile_hash |-> <<profile, p>>]
\* The feature graph of the bundle.
FeatureGraph(p) ==
  IF p.family = "microstructure_v1"
  THEN [required |-> {f \in p.features : f.required}, optional |-> {f \in p.features : ~f.required},
        failClosed |-> {f \in p.features : f.required /\ f.failClosed}]
  ELSE [required |-> p.indicators, optional |-> {}, failClosed |-> {}]
\* The risk contract reads position_size_pct, which only a classic block has.
BundleRisk(p) == IF p.family = "classic_v1" THEN p.risk ELSE "none"
\* scan_generated_artifact reads the artifacts the payload was copied into.
StaticScan(p) == p.text = "clean"
compile_strategy_spec_bundle(p, profile) ==
  IF ~parse_strategy_spec(p) THEN CompileFails ELSE
  [compile_hash |-> <<profile, p>>, graph |-> FeatureGraph(p), risk |-> BundleRisk(p), scan |-> StaticScan(p),
   profile |-> IF p.family = "classic_v1" THEN profile ELSE "signal_preview_only"]
\* FullArtifactBundle.compute_bundle_hash: the manifest without its time and
\* its own hash.
BundleHash(m) == [spec |-> m.spec, ir |-> m.ir, profile |-> m.profile]
FullArtifactBundle(p, profile, now) ==
  LET m == [spec |-> p, ir |-> FeatureGraph(p), profile |-> profile, created_at |-> now, artifact_hash |-> "" ]
  IN [manifest |-> m, artifact_hash |-> BundleHash(m)]

(***************************************************************************)
(* Migration to the second schema: every clause with operands becomes a    *)
(* comparison, whatever its operator, its block and its rule.              *)
(***************************************************************************)
FeatureGroup(indicator) == IF indicator = "VWAP" THEN "vwap" ELSE "trades"
MigratedConditions(p) == Kept(p.clauses, {i \in DOMAIN p.clauses : p.clauses[i].operands # <<>>})
migrate_v1_to_v2(p) ==
  IF p.version # "1.0.0" \/ p.indicators = {} THEN [outcome |-> "invalid"]
  ELSE [outcome |-> "v2", features |-> {FeatureGroup(i) : i \in p.indicators},
        conditions |-> [i \in DOMAIN MigratedConditions(p) |-> [primitive |-> "compare", operands |-> MigratedConditions(p)[i].operands]]]

(***************************************************************************)
(* The pipeline: validate, compile, create_job, run_backtest.  A step is   *)
(* "succeeded", "failed" or "skipped"; validation that raises ends it.     *)
(***************************************************************************)
Steps(n, last) == [i \in 1..4 |-> IF i < n THEN "succeeded" ELSE IF i = n THEN last ELSE "skipped"]
\* Faulty: a report with errors is recorded and the pipeline goes on.
run_pipeline_regardless(p) ==
  IF compile_strategy_spec(p, "backtest") = CompileFails THEN [steps |-> Steps(2, "failed"), success |-> FALSE]
  ELSE [steps |-> Steps(4, "succeeded"), success |-> TRUE]
run_pipeline(p) ==
  LET errors == validate_strategy_spec(p) IN
  CASE "raises" \in errors -> [steps |-> <<>>, success |-> FALSE]
    [] "raises" \notin errors /\ errors # {} -> [steps |-> Steps(1, "failed"), success |-> FALSE]
    [] errors = {} /\ compile_strategy_spec(p, "backtest") = CompileFails -> [steps |-> Steps(2, "failed"), success |-> FALSE]
    [] OTHER -> [steps |-> Steps(4, "succeeded"), success |-> TRUE]
\* request_pipeline_promotion: only the result of a pipeline that succeeded.
pipeline_promotion(result) == IF result.success THEN "requested" ELSE "blocked"
===============================================================================
