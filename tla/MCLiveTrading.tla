---------------------------- MODULE MCLiveTrading ----------------------------
(* Values for the constants of LiveTrading. *)
EXTENDS LiveTrading, TLC

CONSTANTS s1, s2

OneSymbol  == {s1}
TwoSymbols == {s1, s2}

LongOnly == {"BUY", "CLOSE_BUY"}
OnlyBuys == {"BUY"}

Interchangeable == Permutations(TwoSymbols)
=============================================================================
