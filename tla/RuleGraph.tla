------------------------------- MODULE RuleGraph -------------------------------
(***************************************************************************)
(* packages/nautilus_rule_graph/evaluator.py: the evaluator that a replay  *)
(* strategy feeds with the mid price of every quote tick.  It keeps the    *)
(* state of four indicators (a moving average, an exponential average, an  *)
(* RSI and one of a family it does not support), the current and the       *)
(* previous values, and the evidence it reports.                           *)
(*                                                                         *)
(* Values are multiples of 1/Scale, exact for the periods used here; None  *)
(* is a value the evaluator does not have.                                 *)
(***************************************************************************)
EXTENDS Integers, Sequences, FiniteSets, SequencesExt, FiniteSetsExt
CONSTANTS Prices,     \* the mid prices a tick may carry
          SmaPeriod, EmaPeriod, RsiPeriod,
          MaxTicks    \* bound on the ticks of a replay
VARIABLES block,      \* the rule block of the specification
          graph       \* the evaluator
ruleVars == <<block, graph>>

ASSUME PeriodsAssumption == SmaPeriod \in 1..2 /\ EmaPeriod \in {1, 3} /\ RsiPeriod \in Nat \ {0} /\ MaxTicks \in Nat

Scale == 2 ^ MaxTicks
\* Prices are not negative, and the scale is fine enough for them: an RSI below
\* 100 is never rounded to it.
ASSUME ScaleAssumption == Scale \in Nat \ {0} /\ Prices \subseteq Nat /\ \A p, q \in Prices : RsiPeriod * (p - q) < 100 * Scale
None == -1
Names == {"close", "sma", "ema", "rsi", "vwap"}
Operators == {"crossed_above", "crossed_below", "gt", "lt", "gte", "lte", "eq"}
Clause(op, left, right) == [op |-> op, left |-> left, right |-> right]
\* The rule blocks tried: every operator on prices and averages, a constant,
\* an unsupported indicator, two clauses, and no clause at all.
Blocks ==
  {[form |-> "any", clauses |-> <<Clause(op, "close", r)>>] : op \in Operators, r \in {"sma", "ema"}}
  \cup {[form |-> f, clauses |-> <<Clause("gt", "rsi", "fifty"), Clause(op, "vwap", "close")>>] : f \in {"all", "any"}, op \in {"gt", "lte"}}
  \cup {[form |-> "all", clauses |-> <<Clause(op, "vwap", "close")>>] : op \in Operators}
  \cup {[form |-> f, clauses |-> <<>>] : f \in {"all", "any"}}

SumOf(s) == LET upTo[i \in 0..Len(s)] == IF i = 0 THEN 0 ELSE upTo[i - 1] + s[i] IN upTo[Len(s)]
\* append, then popleft while the deque is longer than the period
Window(s, v, period) == LET t == Append(s, v) IN IF Len(t) > period THEN Tail(t) ELSE t

(***************************************************************************)
(* _IndicatorState.update, one indicator at a time.                        *)
(***************************************************************************)
Sma(window) == SumOf(window) \div Len(window)
Ema(ema, price) == IF ema = None THEN price ELSE ema + (2 * (price - ema)) \div (EmaPeriod + 1)
\* The averages are over the same number of values, so their quotient is the
\* quotient of the sums.
Rsi(previous, gains, losses) ==
  LET g == SumOf(gains)  l == SumOf(losses) IN
  IF previous = None THEN 50 * Scale
  ELSE IF l = 0 THEN IF g > 0 THEN 100 * Scale ELSE 50 * Scale
  ELSE 100 * Scale - (100 * Scale * l) \div (g + l)
\* A family without an adapter of its own has no value.
Unsupported(price) == None

(***************************************************************************)
(* _resolve, _evaluate_clause and _evaluate_rule_block.                    *)
(***************************************************************************)
Resolve(operand, values) == IF operand = "fifty" THEN 50 * Scale ELSE values[operand]
\* Faulty: a crossing does not look at the previous values.
ClauseHolds_level(c, now, before) ==
  LET l == Resolve(c.left, now)  r == Resolve(c.right, now) IN
  /\ l # None /\ r # None
  /\ CASE c.op \in {"crossed_above", "gt"} -> l > r [] c.op \in {"crossed_below", "lt"} -> l < r
       [] c.op = "gte" -> l >= r [] c.op = "lte" -> l <= r [] OTHER -> l = r
ClauseHolds(c, now, before) ==
  LET l == Resolve(c.left, now)     r == Resolve(c.right, now)
      pl == Resolve(c.left, before) pr == Resolve(c.right, before) IN
  /\ l # None /\ r # None
  /\ CASE c.op = "crossed_above" -> pl # None /\ pr # None /\ pl <= pr /\ l > r
       [] c.op = "crossed_below" -> pl # None /\ pr # None /\ pl >= pr /\ l < r
       [] c.op = "gt" -> l > r [] c.op = "lt" -> l < r
       [] c.op = "gte" -> l >= r [] c.op = "lte" -> l <= r [] c.op = "eq" -> l = r
Holds(i, now, before) == ClauseHolds(block.clauses[i], now, before)
\* all() and any() stop at the first clause that decides: the clauses they
\* evaluate are those before it and itself.  all() of nothing is true.
BlockHolds(now, before) ==
  IF block.form = "all" THEN \A i \in DOMAIN block.clauses : Holds(i, now, before)
  ELSE \E i \in DOMAIN block.clauses : Holds(i, now, before)
\* Faulty: one clause is counted although none was evaluated.
Evaluated_each(now, before) == 1
Evaluated(now, before) ==
  Cardinality({i \in DOMAIN block.clauses : \A j \in 1..i - 1 : Holds(j, now, before) = (block.form = "all")})

(***************************************************************************)
(* RuleGraphEvaluator.__init__ and update_price.                           *)
(***************************************************************************)
RuleInit ==
  /\ block \in Blocks
  /\ graph = [window |-> <<>>, ema |-> None, previousPrice |-> None, gains |-> <<>>, losses |-> <<>>,
              now |-> [n \in Names |-> None], before |-> [n \in Names |-> None],
              holds |-> FALSE, trueCount |-> 0, evaluations |-> 0, ticks |-> <<>>]
UpdatePrice(tick) ==
  /\ Len(graph.ticks) < MaxTicks
  /\ LET price == tick * Scale
         delta == price - graph.previousPrice
         first == graph.previousPrice = None
         window == Window(graph.window, price, SmaPeriod)
         gains == IF first THEN <<>> ELSE Window(graph.gains, Max({delta, 0}), RsiPeriod)
         losses == IF first THEN <<>> ELSE Window(graph.losses, Max({-delta, 0}), RsiPeriod)
         now == [close |-> price, sma |-> Sma(window), ema |-> Ema(graph.ema, price),
                 rsi |-> Rsi(graph.previousPrice, gains, losses), vwap |-> Unsupported(price)]
         holds == BlockHolds(now, graph.now)
     IN graph' = [window |-> window, ema |-> now.ema, previousPrice |-> price, gains |-> gains, losses |-> losses,
                  now |-> now, before |-> graph.now, holds |-> holds,
                  trueCount |-> graph.trueCount + (IF holds THEN 1 ELSE 0),
                  evaluations |-> graph.evaluations + Evaluated(now, graph.now), ticks |-> Append(graph.ticks, tick)]
  /\ UNCHANGED block
RuleNext == \E tick \in Prices : UpdatePrice(tick)
-------------------------------------------------------------------------------
RuleTypeOK == /\ block \in Blocks
              /\ graph.ticks \in BoundedSeq(Prices, MaxTicks)
              /\ graph.trueCount \in 0..Len(graph.ticks)
              /\ graph.evaluations \in 0..Len(graph.ticks) * Len(block.clauses)

Recent(n) == {graph.ticks[i] * Scale : i \in {j \in DOMAIN graph.ticks : j > Len(graph.ticks) - n}}
\* Once a tick was seen, the moving average lies between the lowest and the
\* highest of its last `period` prices, the exponential average between the
\* lowest and the highest price so far, and the RSI between 0 and 100, at 100
\* exactly when the prices it looks at rose without ever falling
\* (_IndicatorState.update).
IndicatorsInRange ==
  graph.ticks # <<>> =>
    /\ graph.now["sma"] \in Min(Recent(SmaPeriod)) .. Max(Recent(SmaPeriod))
    /\ graph.now["ema"] \in Min(Recent(MaxTicks)) .. Max(Recent(MaxTicks))
    /\ graph.now["rsi"] \in 0 .. 100 * Scale
    /\ graph.now["rsi"] = 100 * Scale <=>
         LET n == Len(graph.ticks)
             seen == {i \in 2..n : i > n - RsiPeriod}
         IN /\ \A i \in seen : graph.ticks[i] >= graph.ticks[i - 1]
            /\ \E i \in seen : graph.ticks[i] > graph.ticks[i - 1]

\* A rule made of one crossing never holds on two ticks in a row, and never on
\* the first (the previous values of _evaluate_clause).
NoRepeatedCrossing ==
  Len(block.clauses) = 1 /\ block.clauses[1].op \in {"crossed_above", "crossed_below"} /\ graph' # graph
    => ~(graph'.holds /\ (graph.holds \/ graph.ticks = <<>>))

\* A block that needs an indicator of a family without an adapter never holds,
\* whatever the operator ("explicit non-signals" in _IndicatorState.update).
UnsupportedIsSilent ==
  (block.form = "all" /\ \E i \in DOMAIN block.clauses : "vwap" \in {block.clauses[i].left, block.clauses[i].right})
    => graph.trueCount = 0

\* A rule fires as it is written: on a crossing once, on indicators within
\* their ranges, and never on one without an adapter (RuleGraphEvaluator).
RulesAsWritten == [][NoRepeatedCrossing /\ IndicatorsInRange' /\ UnsupportedIsSilent']_ruleVars
===============================================================================
