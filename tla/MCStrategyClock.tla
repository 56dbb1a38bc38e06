--------------------------- MODULE MCStrategyClock ---------------------------
(* Values for the constants of StrategyClock. *)
EXTENDS StrategyClock

MCScores == -2..2

\* ScoreThresholds(): pure sign.
SignBand == [enterLong |-> 0, exitLong |-> 0, enterShort |-> 0, exitShort |-> 0]

\* Enter outside +-1, leave on crossing zero: a position is held through scores
\* that would not have opened it.
HysteresisBand == [enterLong |-> 1, exitLong |-> 0, enterShort |-> -1, exitShort |-> 0]

Hysteresis == [band |-> HysteresisBand, longOnly |-> FALSE, reaffirmEntries |-> TRUE]
Sign       == [band |-> SignBand, longOnly |-> TRUE, reaffirmEntries |-> TRUE]

AllBooks == {Hysteresis, [Hysteresis EXCEPT !.reaffirmEntries = FALSE], Sign}
=============================================================================
