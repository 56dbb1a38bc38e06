------------------------------ MODULE MCFlatten ------------------------------
(* Values for the constants of Flatten. *)
EXTENDS Flatten

CONSTANT s1

OneSymbol == {s1}

LongOnly == {"BUY", "CLOSE_BUY"}
=============================================================================
