---------------------------- MODULE TradeHudRecords ----------------------------
(***************************************************************************)
(* How an entry of a TradeHUD Redis stream becomes a record on the screen: *)
(* packages/tradehud_contracts/normalizer.py (the conversions),            *)
(* redis_normalizers.py (one parser per stream) and models.py (the         *)
(* pydantic models that validate what a parser builds).                    *)
(*                                                                         *)
(* A field of an entry is one of the classes of Raw; what a record shows   *)
(* for it is "none", "zero", "number", "text", a value the parser makes up *)
(* ("made up": a default, a mid price, the clock), or a list.  A parser    *)
(* yields a record, drops the entry (returns None), yields an empty list   *)
(* or raises pydantic's ValidationError.                                   *)
(***************************************************************************)
EXTENDS Naturals

\* "word" is one of the words the field's Literal type lists, "odd" another
\* text; "{}" and "[]" are JSON text, "{" is text that only looks like JSON.
Raw == {"absent", "zero", "number", "word", "odd"}
Containers == {"absent", "{}", "[]", "{", "odd"}

(***************************************************************************)
(* The conversions.                                                        *)
(***************************************************************************)
\* parse_stream_fields: JSON text becomes a container, broken JSON stays text.
Decoded(v) == CASE v = "{}" -> "dict" [] v = "[]" -> "list" [] OTHER -> v
\* Faulty: a missing number reads as zero.
NumberOrZero(v) == IF v \in {"zero", "number"} THEN v ELSE "zero"
\* to_optional_float, to_optional_int: what is missing or no number is None.
Number(v) == IF v \in {"zero", "number"} THEN v ELSE "none"
\* to_optional_str
Text(v) == IF v = "absent" THEN "none" ELSE "text"
\* Python's  a or b : zero and None are false.
Or(a, b) == IF a \in {"none", "zero"} THEN b ELSE a
\* The fields of f, and those of g that f does not have.
f ++ g == [x \in DOMAIN f \cup DOMAIN g |-> IF x \in DOMAIN f THEN f[x] ELSE g[x]]
Numbers(d, fs) == [f \in fs |-> Number(d[f])]
Texts(d, fs) == [f \in fs |-> Text(d[f])]
TextsOrDefault(d, fs) == [f \in fs |-> Or(Text(d[f]), "made up")]
\* to_optional_str(x) or default, into a field whose type is a Literal
Listed(v) == CASE v = "word" -> "text" [] v = "absent" -> "made up" [] OTHER -> "unlisted"

(***************************************************************************)
(* The models: the fields a record must have.  Every number and text not   *)
(* named here is optional.                                                 *)
(***************************************************************************)
MarketBookTopModel == {"symbol", "bid_price", "ask_price", "mid_price", "spread", "ts_event_ns"}
MarketBookL2Model == {"symbol", "bids", "asks", "spread", "ts_event_ns"}
MarketTradeModel == {"trade_id", "symbol", "price", "qty", "notional", "side", "aggressor", "ts_event_ns"}
StrategySignalPreviewModel ==
  {"signal_id", "symbol", "feature_hash", "context_hash", "policy_hash", "graph_trace_hash",
   "confidence_score", "direction", "preview_note", "ts_event_ns"}
GateDecisionModel == {"decision_id", "decision", "reason_code", "gate_decision_hash", "source_signal_hash", "ts_event_ns"}
TradeActionEvidenceModel ==
  {"action_id", "action", "side", "price", "qty", "trade_action_hash", "source_gate_decision_hash", "created_by", "ts_event_ns"}
ExecutionReportModel ==
  {"report_id", "status", "client_order_id", "trade_action_hash", "symbol", "side", "filled_qty", "submit_ts_ns", "ts_event_ns"}
AccountSnapshotModel == {"account_id", "venue", "balance", "equity", "currency", "ts_event_ns"}
PositionSnapshotModel == {"symbol", "venue", "side", "qty", "ts_event_ns"}
OpenOrderSnapshotModel ==
  {"order_id", "client_order_id", "symbol", "venue", "side", "order_type", "price", "qty", "filled_qty", "status", "ts_event_ns"}
QuantLevelsContextModel == {"symbol", "levels", "ts_event_ns"}
TickToTradeTraceModel ==
  {"trace_id", "tick_receive_ts_ns", "signal_ts_ns", "gate_ts_ns", "execution_ts_ns", "tick_to_signal_us",
   "signal_to_gate_us", "gate_to_execution_us", "total_tick_to_trade_us", "ts_event_ns"}
LaneHealthModel == {"lane", "status", "stale", "missing"}

Dropped == [outcome |-> "dropped"]
Raised == [outcome |-> "raised"]
Empty == [outcome |-> "empty"]
\* Validation by the model: a required field that is None, or a text its
\* Literal does not list, raises ValidationError.
Record(model, shown) ==
  IF \E f \in DOMAIN shown : shown[f] = "unlisted" \/ (f \in model /\ shown[f] = "none")
  THEN Raised ELSE [outcome |-> "record", shown |-> shown]
Missing(d, fs) == \E f \in fs : Number(d[f]) = "none"

(***************************************************************************)
(* The fields of an entry.  A sender may wrap them in one JSON object      *)
(* (payload, account_state, book_view).  Four parsers look into it; when   *)
(* they find no object there, and in the other parsers, the outer entry is *)
(* read, which has none of the fields.                                     *)
(***************************************************************************)
Unwrapping == {"trade", "book_l2", "account", "positions"}
Unwrapped(e) ==
  IF e.wrap = "absent" \/ (e.stream \in Unwrapping /\ Decoded(e.wrap) = "dict") THEN e.fields
  ELSE [f \in DOMAIN e.fields |-> "absent"]

(***************************************************************************)
(* One parser per stream.                                                  *)
(***************************************************************************)
parse_book_top(d) ==
  LET bid == Or(Number(d["bid"]), Number(d["bid_price"]))
      ask == Or(Number(d["ask"]), Number(d["ask_price"])) IN
  IF bid = "none" \/ ask = "none" \/ Missing(d, {"ts_event_ns"}) THEN Dropped
  ELSE Record(MarketBookTopModel,
         Numbers(d, {"bid_size", "ask_size", "spread_bps", "ts_event_ns"})
         ++ [f \in {"mid_price", "spread", "microprice"} |-> Or(Number(d[f]), "made up")]
         ++ [symbol |-> Or(Text(d["instrument_id"]), Or(Text(d["symbol"]), "made up")),
             bid_price |-> bid, ask_price |-> ask])

\* A side of the book: the depth array, else the legacy array, else the best
\* price with size zero.  An array ("list") holds one level, with a usable
\* price or not; `sized` says whether it has a size.
DepthLevels(v, sized) == IF v # "list" THEN "none" ELSE IF sized THEN "level" ELSE "sizeless level"
BookSide(depth, legacy, best, sized) ==
  LET fromDepth == DepthLevels(Decoded(depth), sized)
      fromLegacy == DepthLevels(Decoded(legacy), sized) IN
  CASE fromDepth # "none" -> fromDepth
    [] fromDepth = "none" /\ fromLegacy # "none" -> fromLegacy
    [] fromDepth = "none" /\ fromLegacy = "none" /\ Number(best) # "none" -> "sizeless level"
    [] OTHER -> "none"
parse_book_l2(d) ==
  LET bids == BookSide(d["bid_depth_top5"], d["bids"], d["best_bid"], d["size"] = "number")
      asks == BookSide(d["ask_depth_top5"], d["asks"], d["best_ask"], d["size"] = "number") IN
  IF bids = "none" /\ asks = "none" THEN Dropped
  ELSE Record(MarketBookL2Model,
         Numbers(d, {"spread_bps", "microprice", "top5_imbalance"}) ++ Texts(d, {"checksum"})
         ++ [bids |-> IF bids = "none" THEN "empty" ELSE bids, asks |-> IF asks = "none" THEN "empty" ELSE asks,
             spread |-> Or(Number(d["spread"]),
                           IF {Number(d["best_bid"]), Number(d["best_ask"])} = {"number"} THEN "made up" ELSE "zero"),
             symbol |-> Or(Text(d["instrument_id"]), Or(Text(d["symbol"]), "made up")),
             ts_event_ns |-> IF Missing(d, {"ts_event_ns"}) THEN "made up" ELSE Number(d["ts_event_ns"])])

\* detect_force_liquidation: the flags, then a forced order (a forced SELL
\* closes a long), then liq_side.
Liquidation(d) ==
  IF d["flags"] \in {"long_liq", "short_liq"} THEN d["flags"]
  ELSE IF d["force_order"] = "yes" THEN CASE d["side"] = "SELL" -> "long_liq" [] d["side"] = "BUY" -> "short_liq" [] OTHER -> "unknown side"
  ELSE IF d["liq_side"] \in {"long_liq", "short_liq"} THEN d["liq_side"] ELSE "none"
\* detect_trade_flags: the flags text, then a field of its own.
TradeFlag(d, name) == IF d["flags"] = name \/ d[name] = "yes" THEN "true" ELSE "false"
\* Any side that is neither buy nor sell is shown as buy.
parse_trade(d) ==
  IF Missing(d, {"price", "qty", "ts_event_ns"}) THEN Dropped
  ELSE Record(MarketTradeModel,
         Numbers(d, {"price", "qty", "ts_event_ns"}) ++ TextsOrDefault(d, {"trade_id", "symbol"})
         ++ [notional |-> Or(Number(d["notional"]), "made up"),
             side |-> IF d["side"] \in {"BUY", "SELL"} THEN "text" ELSE "made up",
             aggressor |-> IF d["aggressor"] = "word" THEN "text" ELSE "made up",
             is_large_trade |-> TradeFlag(d, "large"), is_sweep |-> TradeFlag(d, "sweep"),
             liq_side |-> Liquidation(d)])

parse_account(d) ==
  IF Missing(d, {"balance"}) THEN Dropped
  ELSE Record(AccountSnapshotModel,
         Numbers(d, {"balance", "available_margin", "margin_used", "unrealized_pnl", "realized_pnl"})
         ++ TextsOrDefault(d, {"venue", "currency"})
         ++ [equity |-> Or(Number(d["equity"]), Number(d["balance"])),
             account_id |-> Or(Text(d["account_id"]), Or(Text(d["strategy_id"]), "made up")),
             ts_event_ns |-> Or(Number(d["ts_event_ns"]), IF Number(d["bundle_ts_ns"]) = "none" THEN "made up" ELSE Number(d["bundle_ts_ns"]))])

\* The list of positions: JSON text that does not parse, or no list at all,
\* is an empty list, and so is a list whose only position has no quantity.
parse_positions(d) ==
  IF Decoded(d["positions"]) \notin {"dict", "list"} \/ Missing(d, {"qty"}) THEN Empty
  ELSE Record(PositionSnapshotModel,
         Numbers(d, {"qty", "entry_price", "mark_price", "unrealized_pnl", "realized_pnl", "margin"})
         ++ TextsOrDefault(d, {"symbol", "venue"})
         ++ [side |-> Listed(d["side"]), ts_event_ns |-> Or(Number(d["ts_event_ns"]), "made up")])

parse_open_orders(d) ==
  IF Decoded(d["orders"]) \notin {"absent", "dict", "list"} \/ Missing(d, {"price", "qty", "ts_event_ns"}) THEN Empty
  ELSE Record(OpenOrderSnapshotModel,
         Numbers(d, {"price", "qty", "ts_event_ns"})
         ++ TextsOrDefault(d, {"order_id", "client_order_id", "symbol", "venue", "order_type", "status"})
         ++ [side |-> Listed(d["side"]),
             filled_qty |-> IF Number(d["filled_qty"]) = "none" THEN "zero" ELSE Number(d["filled_qty"])])

parse_signal(d) ==
  IF Missing(d, {"confidence_score", "ts_event_ns"}) THEN Dropped
  ELSE Record(StrategySignalPreviewModel,
         Numbers(d, {"confidence_score", "target_hint", "invalidation_hint", "size_hint", "ts_event_ns"})
         ++ TextsOrDefault(d, {"signal_id", "symbol", "feature_hash", "context_hash", "policy_hash", "graph_trace_hash", "preview_note"})
         ++ [direction |-> Listed(d["direction"])])

\* size_modifier: zero, like a missing one, is shown as 1.0.
parse_gate(d) ==
  IF d["decision"] = "absent" \/ Missing(d, {"ts_event_ns"}) THEN Dropped
  ELSE Record(GateDecisionModel,
         Numbers(d, {"confidence_delta", "target_hint", "invalidation_hint", "ts_event_ns"})
         ++ TextsOrDefault(d, {"decision_id", "reason_code", "gate_decision_hash", "source_signal_hash"})
         ++ Texts(d, {"first_blocking_gate"})
         ++ [decision |-> Listed(d["decision"]), size_modifier |-> Or(Number(d["size_modifier"]), "made up")])

parse_trade_action(d) ==
  IF \/ \E f \in {"action", "trade_action_hash", "source_gate_decision_hash"} : d[f] = "absent"
     \/ Missing(d, {"price", "qty", "ts_event_ns"})
  THEN Dropped
  ELSE Record(TradeActionEvidenceModel,
         Numbers(d, {"price", "qty", "ts_event_ns"}) ++ TextsOrDefault(d, {"action_id", "created_by"})
         ++ Texts(d, {"action", "trade_action_hash", "source_gate_decision_hash"}) ++ [side |-> Listed(d["side"])])

parse_execution(d) ==
  IF d["status"] = "absent" \/ Missing(d, {"submit_ts_ns", "ts_event_ns"}) THEN Dropped
  ELSE Record(ExecutionReportModel,
         Numbers(d, {"avg_fill_price", "submit_ts_ns", "ack_ts_ns", "fill_ts_ns", "submit_to_ack_us", "ack_to_fill_us", "ts_event_ns"})
         ++ TextsOrDefault(d, {"report_id", "client_order_id", "trade_action_hash", "symbol"})
         ++ Texts(d, {"exchange_order_id", "rejection_reason"})
         ++ [status |-> Listed(d["status"]), side |-> Listed(d["side"]), filled_qty |-> Or(Number(d["filled_qty"]), "zero")])

\* The one level of the list: its price, and its kind read without conversion.
\* Text or an object instead of a list has no level.get: AttributeError.
parse_quant_levels(d) ==
  IF d["levels"] # "absent" /\ Decoded(d["levels"]) # "list" THEN Raised
  ELSE IF d["levels"] = "absent" \/ Missing(d, {"ts_event_ns"}) THEN Dropped
  ELSE Record(QuantLevelsContextModel,
         Numbers(d, {"ts_event_ns"}) ++ TextsOrDefault(d, {"symbol"})
         ++ [levels |-> IF Number(d["price"]) = "none" THEN "empty"
                        ELSE IF Listed(d["kind"]) = "unlisted" THEN "unlisted" ELSE "level"])

parse_tick_to_trade(d) ==
  LET stages == {"tick_receive_ts_ns", "signal_ts_ns", "gate_ts_ns", "execution_ts_ns"} IN
  IF Missing(d, stages \cup {"total_tick_to_trade_us", "ts_event_ns"}) THEN Dropped
  ELSE Record(TickToTradeTraceModel,
         Numbers(d, stages \cup {"total_tick_to_trade_us", "ts_event_ns"}) ++ TextsOrDefault(d, {"trace_id"})
         ++ [f \in {"tick_to_signal_us", "signal_to_gate_us", "gate_to_execution_us"} |-> Or(Number(d[f]), "zero")])

\* One lane of five: bool() of any text that is not empty is true, the text
\* "False" included.
parse_runtime_health(d) ==
  IF Missing(d, {"ts_event_ns"}) THEN Dropped
  ELSE Record(LaneHealthModel,
         Numbers(d, {"heartbeat_ns", "age_ms", "ts_event_ns"}) ++ Texts(d, {"reason"})
         ++ [f \in {"stale", "missing"} |-> IF d[f] = "absent" THEN "false" ELSE "true"]
         ++ [lane |-> IF d["lane"] = "absent" THEN "made up" ELSE "text", status |-> Listed(d["status"])])

Parse(e) ==
  LET d == Unwrapped(e) IN
  CASE e.stream = "book_top" -> parse_book_top(d)
    [] e.stream = "book_l2" -> parse_book_l2(d)
    [] e.stream = "trade" -> parse_trade(d)
    [] e.stream = "account" -> parse_account(d)
    [] e.stream = "positions" -> parse_positions(d)
    [] e.stream = "open_orders" -> parse_open_orders(d)
    [] e.stream = "signal" -> parse_signal(d)
    [] e.stream = "gate" -> parse_gate(d)
    [] e.stream = "trade_action" -> parse_trade_action(d)
    [] e.stream = "execution" -> parse_execution(d)
    [] e.stream = "quant_levels" -> parse_quant_levels(d)
    [] e.stream = "tick_to_trade" -> parse_tick_to_trade(d)
    [] e.stream = "runtime_health" -> parse_runtime_health(d)
===============================================================================
