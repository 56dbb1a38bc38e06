--------------------------- MODULE MCPositionLedger ---------------------------
(* Two symbols; the first is bought and sold back, the second sold short. *)
EXTENDS PositionLedger, TLC

CONSTANTS s1, s2, entry, leg, short

MCSymbols  == {s1, s2}
MCOrders   == {entry, leg, short}
MCSymbolOf == (entry :> s1) @@ (leg :> s1) @@ (short :> s2)
MCSignOf   == (entry :> 1) @@ (leg :> -1) @@ (short :> -1)
MCSizeOf   == (entry :> 2) @@ (leg :> 2) @@ (short :> 2)

Mixed == [o \in MCOrders |-> IF o = short THEN "incremental" ELSE "cumulative"]
=============================================================================
