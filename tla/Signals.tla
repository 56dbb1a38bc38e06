------------------------------- MODULE Signals -------------------------------
(***************************************************************************)
(* The signal vocabulary and the pure functions every strategy shares:     *)
(* how a score series becomes a stream of edges, and how a live bar turns  *)
(* the last edge and the position book into the one signal it emits.       *)
(*                                                                         *)
(* Scores are integers; only their order against the thresholds matters.   *)
(* A bar whose indicators are not yet valid (NaN in the code) is a bar at  *)
(* an index below the lookback.  The book is seen through the side it      *)
(* holds in one symbol: "BUY", "SELL" or "FLAT".                           *)
(***************************************************************************)
EXTENDS Integers, Sequences

EntrySignals == {"BUY", "SELL"}
ExitSignals  == {"CLOSE_BUY", "CLOSE_SELL"}
AllSignals   == EntrySignals \cup ExitSignals \cup {"HOLD"}

Sides      == {"BUY", "SELL", "FLAT"}
Directions == {-1, 0, 1}

Thresholds == [enterLong : Int, exitLong : Int, enterShort : Int, exitShort : Int]

SideOf(direction) ==
    CASE direction = 1  -> "BUY"
      [] direction = -1 -> "SELL"
      [] OTHER          -> "FLAT"

CloseOf(side) == IF side = "BUY" THEN "CLOSE_BUY" ELSE "CLOSE_SELL"

-----------------------------------------------------------------------------
(* The hysteresis walk *)

DesiredDirection(score, state, th, longOnly) ==
    CASE state = 1 /\ score > th.exitLong        -> 1
      [] state = -1 /\ score < th.exitShort      -> -1
      [] OTHER ->
           IF score > th.enterLong THEN 1
           ELSE IF ~longOnly /\ score < th.enterShort THEN -1
           ELSE 0

\* A change of direction as a signal and the new state: a flip only closes.
Transition(state, target) ==
    CASE target = state             -> [signal |-> "HOLD", state |-> state]
      [] state = 0 /\ target # 0    -> [signal |-> SideOf(target), state |-> target]
      [] OTHER                      -> [signal |-> CloseOf(SideOf(state)), state |-> 0]

\* One bar of the walk, from the direction it is in.
StepOf(score, th, longOnly) ==
    [state \in Directions |-> Transition(state, DesiredDirection(score, state, th, longOnly))]

\* What the walk emits at each bar, and the direction it is in after it.
\* Index 0 is the state before the first bar; the first lookback - 1 bars are NaN.
WalkScores(scores, lookback, th, longOnly) ==
    LET walk[i \in 0..Len(scores)] ==
          IF i = 0 THEN [signal |-> "HOLD", state |-> 0]
          ELSE IF i < lookback THEN [signal |-> "HOLD", state |-> walk[i - 1].state]
          ELSE StepOf(scores[i], th, longOnly)[walk[i - 1].state]
    IN walk

-----------------------------------------------------------------------------
(* From the last edge and the book to the emitted signal *)

\* Mutant of Reaffirm: a position the score does not want is left alone.
ReaffirmWhenFlat(signal, direction, held, reaffirmEntries) ==
    IF signal = "HOLD" /\ held = "FLAT" /\ reaffirmEntries THEN SideOf(direction) ELSE signal

\* Mutant of Reaffirm: the flag gates exits too.
ReaffirmGated(signal, direction, held, reaffirmEntries) ==
    IF signal # "HOLD" \/ ~reaffirmEntries THEN signal
    ELSE CASE SideOf(direction) = held                    -> "HOLD"
           [] SideOf(direction) # held /\ held # "FLAT"   -> CloseOf(held)
           [] OTHER                                       -> SideOf(direction)

\* A HOLD is replaced by the difference between what the score implies and
\* what the book holds.  Entries are gated by the flag, exits are not.
Reaffirm(signal, direction, held, reaffirmEntries) ==
    IF signal # "HOLD" THEN signal
    ELSE CASE SideOf(direction) = held                    -> "HOLD"
           [] SideOf(direction) # held /\ held # "FLAT"   -> CloseOf(held)
           [] OTHER -> IF reaffirmEntries THEN SideOf(direction) ELSE "HOLD"

\* An exit needs a position of its side; an entry must not stack on its own side.
ValidateSignal(signal, held) ==
    IF signal \in ExitSignals
    THEN held # "FLAT" /\ signal = CloseOf(held)
    ELSE held # signal

EmittedSignal(edge, direction, held, reaffirmEntries) ==
    LET latest == Reaffirm(edge, direction, held, reaffirmEntries)
    IN  IF ValidateSignal(latest, held) THEN latest ELSE "HOLD"

\* Mutants of TailOf: the oldest bars are kept; one bar too many is.
HeadOf(seq, n)      == SubSeq(seq, 1, IF Len(seq) > n THEN n ELSE Len(seq))
LongTailOf(seq, n)  == SubSeq(seq, IF Len(seq) > n THEN Len(seq) - n ELSE 1, Len(seq))

\* The tail of at most n elements: DataFrame.tail.
TailOf(seq, n) == SubSeq(seq, IF Len(seq) > n THEN Len(seq) - n + 1 ELSE 1, Len(seq))
=============================================================================
