------------------------------ MODULE ReleaseGate ------------------------------
(***************************************************************************)
(* packages/promotions/gate.py (PromotionGate.evaluate) next to the table  *)
(* of evidence_policy.py that says what each level requires, and the       *)
(* evidence summary of services/api/routes/evidence_summary.py.            *)
(* An evidence set is the set of the references it holds, with the mark    *)
(* "synthetic" for a backtest on synthetic data.                           *)
(***************************************************************************)
EXTENDS Naturals, Sequences, Ordering

Levels == {"draft", "validated", "compiled", "backtested_synthetic", "backtested_catalog",
           "shadow_signal_preview", "paper_ready", "live_candidate_external_only"}
EvidenceKinds == {"validation", "compile", "replay", "backtest", "dataset", "review", "data_tester"}
NeedsCompile == Levels \ {"draft", "validated", "live_candidate_external_only"}

\* Whether the evidence has what an entry of the policy names; "real" is a
\* backtest that is not synthetic.
Provides(evidence, kind) ==
  IF kind = "real" THEN "backtest" \in evidence /\ "synthetic" \notin evidence ELSE kind \in evidence

\* Faulty: a preview is granted without a validation result.
evaluate_unvalidated(evidence, level) ==
  CASE level = "live_candidate_external_only" -> "LIVE_READINESS_OUT_OF_SCOPE"
    [] level \in NeedsCompile /\ "compile" \notin evidence -> "COMPILE_ARTIFACT_MISSING"
    [] level \in {"backtested_catalog", "shadow_signal_preview"} /\ "backtest" \notin evidence -> "BACKTEST_RESULT_MISSING"
    [] level = "backtested_catalog" /\ "synthetic" \in evidence -> "SYNTHETIC"
    [] OTHER -> "allowed"
\* PromotionGate.evaluate: the first missing piece in the order of its tests.
evaluate(evidence, level) ==
  IF level = "live_candidate_external_only" THEN "LIVE_READINESS_OUT_OF_SCOPE"
  ELSE IF level \in NeedsCompile /\ "compile" \notin evidence THEN "COMPILE_ARTIFACT_MISSING"
  ELSE IF level = "shadow_signal_preview" /\ "validation" \notin evidence THEN "VALIDATION_RESULT_MISSING"
  ELSE IF level \in {"backtested_catalog", "shadow_signal_preview"} /\ "backtest" \notin evidence THEN "BACKTEST_RESULT_MISSING"
  ELSE IF level = "backtested_catalog" /\ "synthetic" \in evidence THEN "SYNTHETIC_BACKTEST_CANNOT_SATISFY_CATALOG"
  ELSE "allowed"

\* REQUIRED_EVIDENCE; "real" stands for a backtest that is not synthetic.
RequiredEvidence(level) ==
  CASE level = "draft" -> {}
    [] level \in {"validated", "compiled"} -> {"validation", "compile"}
    [] level = "backtested_synthetic" -> {"validation", "compile", "replay", "backtest"}
    [] level = "backtested_catalog" -> {"validation", "compile", "replay", "real", "dataset"}
    [] level = "shadow_signal_preview" -> {"validation", "compile", "backtest"}
    [] level = "paper_ready" -> {"validation", "compile", "real", "data_tester", "review"}
    [] OTHER -> {"validation", "compile", "real", "data_tester", "exec_tester", "reconciliation", "review"}

(***************************************************************************)
(* The evidence summary of a strategy, from the jobs of its latest version *)
(* in the order the service lists them.  A job is [status, hash, mine].    *)
(***************************************************************************)
\* _normalize_replay_status on the stage and the status of a job.
ReplayStatus(job) ==
  CASE job.status \in {"failed", "cancel_requested"} -> "failed"
    [] job.status = "succeeded" -> "passed"
    [] OTHER -> "running"
ReplayEvent(status) ==
  CASE status = "failed" -> "replay_failed" [] status = "passed" -> "replay_completed" [] OTHER -> "replay_started"
OwnJobs(jobs) == Kept(jobs, {i \in DOMAIN jobs : jobs[i].mine})
evidence_summary(strategyStatus, flags, jobs) ==
  LET own == OwnJobs(jobs)
      hashed == SelectSeq(own, LAMBDA j : j.hash)
  IN [validation |-> IF flags = {} THEN "missing" ELSE IF FALSE \in flags THEN "failed" ELSE "passed",
      compile |-> IF hashed # <<>> THEN "passed"
                  ELSE IF strategyStatus \in {"backtested", "approved", "execution_ready"} THEN "status_only" ELSE "missing",
      replay |-> IF own = <<>> THEN "missing" ELSE ReplayStatus(own[Len(own)]),
      promotion |-> IF strategyStatus \in {"approved", "execution_ready"} THEN "status_only" ELSE "missing",
      audit |-> [i \in DOMAIN own |-> ReplayEvent(ReplayStatus(own[i]))]]
===============================================================================
