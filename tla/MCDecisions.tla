------------------------------ MODULE MCDecisions ------------------------------
(***************************************************************************)
(* The parts of the Builder that decide something from what they are given *)
(* (how a stream entry is shown, whether a specification is valid and what *)
(* becomes of it, which release level the evidence allows, what the        *)
(* evidence summary and a report say), asked one question per behaviour,   *)
(* and the four small state machines that share no state with anything     *)
(* else: the rule graph, the drafts of the language model, the start of    *)
(* the API and the schema migrations.                                      *)
(***************************************************************************)
EXTENDS TradeHudRecords, StrategySpecs, ReleaseGate, RuleGraph, BacktestReport, AiDrafts, Startup, Migrations
VARIABLES part, input, answer
askVars == <<input, answer>>
mcVars == <<part, askVars, ruleVars, draftVars, startVars, migrationVars>>

(***************************************************************************)
(* Stream entries: for each stream the fields its parser reads, by the     *)
(* kind of their values; an entry differs from the usual one in at most    *)
(* two fields, or in its envelope.                                         *)
(***************************************************************************)
Field(numbers, texts, words) ==
  [f \in numbers |-> {"number", "zero", "absent", "odd"}] ++ [f \in texts |-> {"odd", "absent"}] ++ [f \in words |-> {"word", "odd", "absent"}]
Sizes == [size |-> {"number", "absent"}]
Lists(fs) == [f \in fs |-> Containers]
Values ==
  [book_top |-> Field({"bid", "bid_price", "ask", "ask_price", "bid_size", "ask_size", "mid_price", "spread", "spread_bps", "microprice", "ts_event_ns"}, {"instrument_id", "symbol"}, {}),
   book_l2 |-> Lists({"bid_depth_top5", "ask_depth_top5", "bids", "asks"}) ++ Sizes
               ++ Field({"best_bid", "best_ask", "spread", "spread_bps", "microprice", "top5_imbalance", "ts_event_ns"}, {"checksum", "instrument_id", "symbol"}, {}),
   trade |-> [side |-> {"BUY", "SELL", "odd", "absent"}, flags |-> {"absent", "long_liq", "short_liq", "large", "sweep"},
              liq_side |-> {"absent", "long_liq", "short_liq", "odd"}]
             ++ [f \in {"force_order", "large", "sweep"} |-> {"absent", "yes"}]
             ++ Field({"price", "qty", "notional", "ts_event_ns"}, {"trade_id", "symbol"}, {"aggressor"}),
   account |-> Field({"balance", "equity", "available_margin", "margin_used", "unrealized_pnl", "realized_pnl", "ts_event_ns", "bundle_ts_ns"}, {"venue", "currency", "account_id", "strategy_id"}, {}),
   positions |-> Lists({"positions"}) ++ Field({"qty", "entry_price", "mark_price", "unrealized_pnl", "realized_pnl", "margin", "ts_event_ns"}, {"symbol", "venue"}, {"side"}),
   open_orders |-> Lists({"orders"}) ++ Field({"price", "qty", "filled_qty", "ts_event_ns"}, {"order_id", "client_order_id", "symbol", "venue", "order_type", "status"}, {"side"}),
   signal |-> Field({"confidence_score", "target_hint", "invalidation_hint", "size_hint", "ts_event_ns"},
                    {"signal_id", "symbol", "feature_hash", "context_hash", "policy_hash", "graph_trace_hash", "preview_note"}, {"direction"}),
   gate |-> Field({"confidence_delta", "size_modifier", "target_hint", "invalidation_hint", "ts_event_ns"},
                  {"decision_id", "reason_code", "gate_decision_hash", "source_signal_hash", "first_blocking_gate"}, {"decision"}),
   trade_action |-> Field({"price", "qty", "ts_event_ns"}, {"action_id", "created_by", "action", "trade_action_hash", "source_gate_decision_hash"}, {"side"}),
   execution |-> Field({"avg_fill_price", "filled_qty", "submit_ts_ns", "ack_ts_ns", "fill_ts_ns", "submit_to_ack_us", "ack_to_fill_us", "ts_event_ns"},
                       {"report_id", "client_order_id", "trade_action_hash", "symbol", "exchange_order_id", "rejection_reason"}, {"status", "side"}),
   quant_levels |-> Lists({"levels"}) ++ Field({"price", "ts_event_ns"}, {"symbol"}, {"kind"}),
   tick_to_trade |-> Field({"tick_receive_ts_ns", "signal_ts_ns", "gate_ts_ns", "execution_ts_ns", "total_tick_to_trade_us",
                            "tick_to_signal_us", "signal_to_gate_us", "gate_to_execution_us", "ts_event_ns"}, {"trace_id"}, {}),
   runtime_health |-> Field({"heartbeat_ns", "age_ms", "ts_event_ns"}, {"reason", "stale", "missing"}, {"lane", "status"})]
Usual(values) ==
  CHOOSE v \in {"number", "word", "[]", "BUY", "odd", "absent"} :
    v \in values /\ \A w \in {"number", "word", "[]", "BUY"} \cap values : v = w
UsualEntry(s) == [f \in DOMAIN Values[s] |-> Usual(Values[s][f])]

(***************************************************************************)
(* Specifications, evidence sets and jobs.                                 *)
(***************************************************************************)
Dates == {Junk} \cup [at : 1..2, zoned : BOOLEAN]
Operands == {<<>>, <<"known">>, <<"known", "known">>, <<"known", "unknown">>, <<"unknown", "known">>, <<"known", "number">>, <<"known", "known", "unknown">>}
RuleClauses == [ops : {{"crossed_above"}, {"gt"}, {}, {"gt", "lt"}}, operands : Operands]
Usable == [ops |-> {"crossed_below"}, operands |-> <<"known", "known">>]
Classic ==
  [family : {"classic_v1"}, text : {"clean", "forbidden"}, risk : {"missing", "bad", "good"}, flags : {Flags, Flags \ {"no_lookahead_required"}},
   range : {<<d, [at |-> 2, zoned |-> TRUE]>> : d \in Dates},
   blocks : {{"all"}, {"any"}, {}}, clauses : {<<>>} \cup {<<c>> : c \in RuleClauses} \cup {<<Usable, c>> : c \in RuleClauses},
   indicators : {{}, {"EMA"}, {"EMA", "VWAP"}}, version : {"1.0.0", "one"}]
Features == [required : BOOLEAN, failClosed : BOOLEAN, maxStale : {0, 2}, listed : BOOLEAN]
Micro ==
  [family : {"microstructure_v1"}, text : {"clean", "forbidden"}, risk : {"bad", "good"}, flags : {Flags}, version : {"1.0.0", "one"},
   features : {F \in SUBSET Features : Cardinality(F) \in {1, 2}}]
HealthRecords == [known : BOOLEAN, missing : BOOLEAN, stale : BOOLEAN, age : {-1, 1, 2, 3}, synthetic : BOOLEAN]
Jobs == [status : {"created", "running", "succeeded", "failed", "cancel_requested"}, hash : BOOLEAN, mine : BOOLEAN]

Equities == -1..4

AskRecord == \E s \in DOMAIN Values : \E f, g \in DOMAIN Values[s], wrap \in Containers :
  \E a \in Values[s][f], b \in Values[s][g] :
    /\ wrap # "absent" => f = g /\ a = UsualEntry(s)[f] /\ b = a
    /\ input = [stream |-> s, wrap |-> wrap, fields |-> [UsualEntry(s) EXCEPT ![f] = a, ![g] = b]]
Pose ==
  \/ part = "record" /\ AskRecord
  \/ part = "spec" /\ (input \in Classic \/ input \in Micro)
  \/ part = "health" /\ \E f \in {g \in Features : g.listed}, h \in HealthRecords : input = [feature |-> f, health |-> h]
  \/ part = "gate" /\ \E evidence \in SUBSET (EvidenceKinds \cup {"synthetic"}), level \in Levels : input = [evidence |-> evidence, level |-> level]
  \/ part = "summary" /\ \E status \in {"draft", "backtested", "approved"}, flags \in SUBSET BOOLEAN, n \in 0..2 :
       \E jobs \in [1..n -> Jobs] : input = [status |-> status, flags |-> flags, jobs |-> jobs]
  \/ part = "report" /\ \E n \in 0..4 : input \in [1..n -> {Odd} \cup {<<v>> : v \in Equities}]
  \/ part \in {"rules", "drafts", "start", "migrations"} /\ input = <<>>

MCInit ==
  /\ part \in {"record", "spec", "health", "gate", "summary", "report", "rules", "drafts", "start", "migrations"}
  /\ Pose /\ answer = <<>>
  /\ (part # "rules" => block = [form |-> "all", clauses |-> <<>>]) /\ RuleInit
  /\ (part # "drafts" => provider = "fixture" /\ auditStore = "memory") /\ DraftInit
  /\ part # "start" => settings = [builder_env |-> "", app_env |-> "", token |-> "none", dev |-> FALSE, public |-> FALSE, cors |-> "none",
                                   limiter |-> "none", redis_url |-> FALSE, database |-> "none", audit_file |-> FALSE, demo |-> FALSE]
  /\ StartInit
  /\ MigrationInit

AnswerSpec(p) ==
  [errors |-> validate_strategy_spec(p), compiled |-> compile_strategy_spec(p, "backtest"),
   bundle |-> compile_strategy_spec_bundle(p, "backtest"), pipeline |-> run_pipeline(p),
   promotion |-> pipeline_promotion(run_pipeline(p)),
   hashes |-> IF parse_strategy_spec(p) THEN {FullArtifactBundle(p, "backtest", now).artifact_hash : now \in 1..2} ELSE {},
   migrated |-> IF p.family = "classic_v1" /\ StrategySpec(p) THEN migrate_v1_to_v2(p) ELSE [outcome |-> "none"]]
Decide ==
  /\ answer = <<>>
  /\ \/ part = "record" /\ answer' = <<Parse(input)>>
     \/ part = "spec" /\ answer' = <<AnswerSpec(input)>>
     \/ part = "health" /\ answer' = <<HealthViolations({input.feature}, [f \in {input.feature} |-> input.health])>>
     \/ part = "gate" /\ answer' = <<evaluate(input.evidence, input.level)>>
     \/ part = "summary" /\ answer' = <<evidence_summary(input.status, input.flags, input.jobs)>>
     \/ part = "report" /\ answer' = <<build_report_summary(input)>>
  /\ UNCHANGED input
MCNext ==
  /\ UNCHANGED part
  /\ \/ Decide /\ UNCHANGED <<ruleVars, draftVars, startVars, migrationVars>>
     \/ part = "rules" /\ RuleNext /\ UNCHANGED <<askVars, draftVars, startVars, migrationVars>>
     \/ part = "drafts" /\ DraftNext /\ UNCHANGED <<askVars, ruleVars, startVars, migrationVars>>
     \/ part = "start" /\ StartNext /\ UNCHANGED <<askVars, ruleVars, draftVars, migrationVars>>
     \/ part = "migrations" /\ MigrationNext /\ UNCHANGED <<askVars, ruleVars, draftVars, startVars>>
MCSpec == MCInit /\ [][MCNext]_mcVars
-------------------------------------------------------------------------------
Answered(p) == part = p /\ answer # <<>>
Answer == answer[1]
\* The state machines keep their types, and a parser answers with one of its
\* four outcomes.
TypeOK == /\ RuleTypeOK /\ DraftTypeOK /\ MigrationTypeOK
          /\ Answered("record") => Answer.outcome \in {"record", "dropped", "empty", "raised"}

Sources(f) == CASE f = "equity" -> {"equity", "balance"} [] f = "ts_event_ns" -> {"ts_event_ns", "bundle_ts_ns"}
                [] f = "bid_price" -> {"bid", "bid_price"} [] f = "ask_price" -> {"ask", "ask_price"} [] OTHER -> {f}
ZeroFilled == {"filled_qty", "tick_to_signal_us", "signal_to_gate_us", "gate_to_execution_us"} \cup (IF input.stream = "book_l2" THEN {"spread"} ELSE {})
\* A zero on the screen was sent as a zero: what a sender left out or sent as
\* no number never reads as zero, except in the fields whose parser says
\* `or 0` (to_optional_float and the parsers; normalizer.py forbids it).
ShownZeroWasSent ==
  Answered("record") /\ Answer.outcome = "record" =>
    \A f \in DOMAIN Answer.shown \ ZeroFilled :
      Answer.shown[f] = "zero" => \E g \in Sources(f) \cap DOMAIN input.fields : input.fields[g] = "zero"

Evidence ==
  [book_top |-> {"bid_price", "ask_price", "ts_event_ns"}, trade |-> {"price", "qty", "ts_event_ns"},
   signal |-> {"confidence_score", "ts_event_ns"}, gate |-> {"decision", "ts_event_ns"},
   trade_action |-> {"action", "price", "qty", "trade_action_hash", "source_gate_decision_hash", "ts_event_ns"},
   execution |-> {"status", "submit_ts_ns", "ts_event_ns"},
   tick_to_trade |-> {"tick_receive_ts_ns", "signal_ts_ns", "gate_ts_ns", "execution_ts_ns", "total_tick_to_trade_us", "ts_event_ns"}]
\* What a record shows as evidence (a price, a quantity, a decision, the hash
\* of the gate decision behind an action, the time of each stage) is never
\* made up by the parser (the returns of None in redis_normalizers.py).
EvidenceAsSent ==
  Answered("record") /\ Answer.outcome = "record" /\ input.stream \in DOMAIN Evidence =>
    \A f \in Evidence[input.stream] : Answer.shown[f] # "made up"

\* Only a text that a Literal type does not list, or `levels` that are no
\* list, make a parser raise and so end the stream of a screen; a missing or
\* unreadable field never does (the models' required fields).
RaisedOnlyByOddText ==
  Answered("record") /\ Answer.outcome = "raised" =>
    \E f \in DOMAIN input.fields : f \in {"side", "direction", "decision", "status", "kind", "lane", "levels"} /\ input.fields[f] \in {"odd", "{", "{}"}

\* A promotion can only be requested for a specification whose data range is
\* in order, whose three flags are set, and whose every clause the evaluator
\* can read (run_pipeline, validate_strategy_spec, RuleGraphEvaluator).
PromotedIsSound ==
  Answered("spec") /\ Answer.promotion = "requested" =>
    /\ input.range[1] # Junk /\ input.range[1].zoned = input.range[2].zoned /\ input.range[1].at < input.range[2].at
    /\ Flags \subseteq input.flags /\ input.text = "clean" /\ EvaluatorReads(input)

\* Whatever passes validation compiles: a pipeline never fails at its second
\* step, nor does its bundle fail the static scan (run_pipeline).
ValidCompiles ==
  Answered("spec") => /\ Answer.pipeline.steps # <<>> => Answer.pipeline.steps[2] # "failed"
                      /\ Answer.pipeline.success => Answer.bundle.scan /\ Answer.bundle.risk = "good"

\* The hash of an artifact bundle does not depend on when it was made
\* (compute_bundle_hash).
TimelessHash == Answered("spec") => Cardinality(Answer.hashes) <= 1

\* A specification that passes validation loses no clause when it is migrated
\* to the second schema (migrate_v1_to_v2).
MigrationKeepsClauses ==
  Answered("spec") /\ Answer.errors = {} /\ Answer.migrated.outcome = "v2" =>
    Len(Answer.migrated.conditions) = Len(input.clauses)

\* A required feature that fails closed is passed only when its source is
\* known, present and not synthetic, and not older than its limit
\* (validate_source_health; a stale source of unknown age passes).
SourceHealthFailsClosed ==
  Answered("health") /\ Answer = {} /\ input.feature.required /\ input.feature.failClosed =>
    /\ input.health.known /\ ~input.health.missing /\ ~input.health.synthetic
    /\ input.health.stale => input.feature.maxStale # 0 /\ input.health.age <= input.feature.maxStale

\* Evidence that satisfies the policy of a level is never refused at that
\* level, except for live trading, which the gate never allows (evaluate
\* against REQUIRED_EVIDENCE).
PolicyEvidenceSuffices ==
  /\ Answered("gate") /\ input.level # "live_candidate_external_only"
  /\ \A k \in RequiredEvidence(input.level) : Provides(input.evidence, k)
  => Answer = "allowed"

\* A signal preview is allowed only with everything its policy requires, and a
\* catalog backtest never on synthetic data.
GrantedHasEvidence ==
  Answered("gate") /\ Answer = "allowed" =>
    /\ input.level = "shadow_signal_preview" => \A k \in RequiredEvidence(input.level) : Provides(input.evidence, k)
    /\ input.level = "backtested_catalog" => Provides(input.evidence, "real") /\ Provides(input.evidence, "compile")

\* The summary of a project's strategy says that its replay passed only when
\* the last of the project's own jobs succeeded, and lists as many events as
\* the project has jobs (evidence_summary).
PassedMeansSucceeded ==
  Answered("summary") =>
    LET own == {i \in DOMAIN input.jobs : input.jobs[i].mine} IN
    /\ Len(Answer.audit) = Cardinality(own)
    /\ Answer.replay = "passed" => own # {} /\ input.jobs[Max(own)].status = "succeeded"

PositiveCurve == Answered("report") /\ \A i \in DOMAIN input : input[i] = Odd \/ input[i][1] > 0
\* With a curve of positive values the reported drawdown is the worst loss from
\* any point to any later one, entries that are no numbers left out
\* (_max_drawdown).  A curve below zero reports none.
DrawdownIsWorst ==
  PositiveCurve /\ Answer.max_drawdown # <<>> =>
    LET curve == numeric_list(input)
        losses == {Fraction(curve[p[2]] - curve[p[1]], curve[p[1]]) : p \in {q \in (DOMAIN curve) \X (DOMAIN curve) : q[1] <= q[2]}}
    IN /\ \E x \in losses : Equal(x, Answer.max_drawdown[1])
       /\ \A x \in losses : ~Less(x, Answer.max_drawdown[1])

Compounded(rs) ==
  LET upTo[i \in 0..Len(rs)] == IF i = 0 THEN <<1, 1>> ELSE Times(upTo[i - 1], Plus(<<1, 1>>, rs[i]))
  IN upTo
\* The returns the ratio is computed from compound to the reported total
\* return (_returns against total_return).
ReturnsCompound ==
  PositiveCurve /\ Answer.total_return # <<>> =>
    Equal(Compounded(Answer.returns)[Len(Answer.returns)], Plus(<<1, 1>>, Answer.total_return[1]))

\* A screen shows what was sent: no zero, no evidence of the parser's own, and
\* an entry ends the stream only by a text its model does not list
\* (parse_stream_entry).
RecordsShowWhatWasSent == ShownZeroWasSent /\ EvidenceAsSent /\ RaisedOnlyByOddText

\* Validator, compiler, pipeline, migration and health check agree about a
\* specification: what one lets pass the others can use
\* (validate_strategy_spec, compile_strategy_spec, run_pipeline,
\* migrate_v1_to_v2, validate_source_health).
SpecsAreSound == PromotedIsSound /\ ValidCompiles /\ TimelessHash /\ MigrationKeepsClauses /\ SourceHealthFailsClosed

\* What evidence is said to show, it shows: the gate against the table of the
\* policy, the summary against the jobs, the report against the curve
\* (PromotionGate.evaluate, strategy_evidence_summary_payload, the metrics of
\* contracts.py).
EvidenceIsSound == PolicyEvidenceSuffices /\ GrantedHasEvidence /\ PassedMeansSucceeded /\ DrawdownIsWorst /\ ReturnsCompound
===============================================================================
