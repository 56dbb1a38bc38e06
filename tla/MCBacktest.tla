----------------------------- MODULE MCBacktest -----------------------------
(* Two symbols; a quiet bar, one that drifts, one that reaches stop and target, a gap. *)
EXTENDS Backtest, TLC

CONSTANTS s1, s2

B(o, l, h, c) == [open |-> o, low |-> l, high |-> h, close |-> c]
SomeBars == {B(4, 4, 4, 4), B(4, 2, 8, 8), B(8, 4, 8, 4), B(4, 3, 5, 5)}
Directions3 == {"HOLD", "BUY", "SELL"}
Interchangeable == Permutations({s1, s2})
=============================================================================
