----------------------------- MODULE BacktestReport -----------------------------
(***************************************************************************)
(* packages/backtest_runner/contracts.py: the metrics of a report, from    *)
(* the equity curve of a result.  A number is a fraction <<n, d>> with     *)
(* d > 0.  An entry of the curve is <<v>>, or Odd when float() refuses it   *)
(* or it is not finite.                                                    *)
(* The ratio of mean and deviation is kept as its sign.                    *)
(***************************************************************************)
EXTENDS Integers, Sequences, SequencesExt, Ordering
Odd == <<>>
Fraction(n, d) == IF d < 0 THEN <<-n, -d>> ELSE <<n, d>>
Less(x, y) == x[1] * y[2] < y[1] * x[2]
Equal(x, y) == x[1] * y[2] = y[1] * x[2]
Smaller(x, y) == IF Less(y, x) THEN y ELSE x
Plus(x, y) == <<x[1] * y[2] + y[1] * x[2], x[2] * y[2]>>
Times(x, y) == <<x[1] * y[1], x[2] * y[2]>>
Sign(x) == CASE x[1] > 0 -> 1 [] x[1] < 0 -> -1 [] OTHER -> 0

\* _numeric_list
numeric_list(entries) ==
  LET numbers == Kept(entries, {i \in DOMAIN entries : entries[i] # Odd}) IN [k \in DOMAIN numbers |-> numbers[k][1]]
\* _returns
returns(curve) ==
  Kept([i \in 1..Len(curve) - 1 |-> Fraction(curve[i + 1] - curve[i], curve[i])], {i \in 1..Len(curve) - 1 : curve[i] # 0})
Drawdown(value, peak) == IF peak = 0 THEN <<0, 1>> ELSE Fraction(value - peak, peak)
Higher(a, b) == IF a < b THEN b ELSE a
\* The loop of _max_drawdown: one value, and the state after so many.
DrawdownStep(s, value) ==
  LET peak == Higher(s.peak, value) IN [peak |-> peak, worst |-> Smaller(s.worst, Drawdown(value, peak))]
DrawdownLoop(curve) ==
  LET after[i \in 0..Len(curve)] ==
        IF i = 0 THEN [peak |-> curve[1], worst |-> <<0, 1>>] ELSE DrawdownStep(after[i - 1], curve[i])
  IN after
max_drawdown(curve) == DrawdownLoop(curve)[Len(curve)].worst
\* _sharpe_ratio: 0 without deviation.
sharpe_sign(rs) ==
  IF \A i \in DOMAIN rs : Equal(rs[i], rs[1]) THEN 0 ELSE Sign(FoldLeft(Plus, <<0, 1>>, rs))
\* build_report_summary: the metrics it lists, by name.
build_report_summary(entries) ==
  LET curve == numeric_list(entries) rs == returns(curve) IN
  [points |-> Len(curve),
   total_return |-> IF curve # <<>> /\ curve[1] # 0 THEN <<Fraction(curve[Len(curve)] - curve[1], curve[1])>> ELSE <<>>,
   returns |-> rs,
   max_drawdown |-> IF curve # <<>> THEN <<max_drawdown(curve)>> ELSE <<>>,
   sharpe |-> IF rs # <<>> THEN <<sharpe_sign(rs)>> ELSE <<>>]
===============================================================================
