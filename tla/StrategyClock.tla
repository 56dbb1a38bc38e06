---------------------------- MODULE StrategyClock ----------------------------
(***************************************************************************)
(* One symbol of one live strategy, bar by bar: the rolling buffer, the    *)
(* walk over it, the signal the book and the walk produce, and the book    *)
(* that execution changes.  Beside it runs the research clock's walk over  *)
(* the whole history, carried as its state after the last bar.             *)
(*                                                                         *)
(* The world may change the book behind the strategy (a bracket leg fills, *)
(* a sweep erases an unfilled entry, a close is refused) and the process   *)
(* may restart.  MaxDisturbances bounds how often, so that the liveness    *)
(* properties speak of what happens once the world lets the loop work.     *)
(***************************************************************************)
EXTENDS Signals

CONSTANTS
  Scores,            \* the scores a bar may have
  Strategies,        \* the books a strategy may declare, one of which it is
  Lookback,          \* bars before the indicators are valid
  MaxBuffer,         \* max_buffer_size
  MaxDisturbances

ASSUME StrategyAssumption ==
  /\ Scores \subseteq Int
  /\ Strategies \subseteq [band : Thresholds, longOnly : BOOLEAN, reaffirmEntries : BOOLEAN]
  /\ Lookback \in Nat \ {0}
  /\ MaxBuffer \in Nat /\ MaxBuffer >= Lookback
  /\ MaxDisturbances \in Nat

VARIABLES
  strategy,      \* its thresholds and flags
  buffer,        \* the scores of the bars in real_time_data, oldest first
  signal,        \* the signal of the last bar, "HOLD" once it was handled
  held,          \* the side of the position book in this symbol
  seen,          \* bars of the whole history, counted up to Lookback
  research,      \* what the walk over the whole history says at the last bar
  disturbances

vars == <<strategy, buffer, signal, held, seen, research, disturbances>>

WalkOf(bars) == WalkScores(bars, Lookback, strategy.band, strategy.longOnly)[Len(bars)]

Walk == WalkOf(buffer)

TypeOK ==
  /\ strategy \in Strategies
  /\ buffer \in Seq(Scores) /\ Len(buffer) <= MaxBuffer
  /\ signal \in AllSignals
  /\ held \in Sides
  /\ seen \in 0..Lookback
  /\ research \in [signal : AllSignals, state : Directions]
  /\ disturbances \in 0..MaxDisturbances

Init ==
  /\ strategy \in Strategies
  /\ buffer = <<>>
  /\ signal = "HOLD"
  /\ held = "FLAT"
  /\ seen = 0
  /\ research = [signal |-> "HOLD", state |-> 0]
  /\ disturbances = 0

-----------------------------------------------------------------------------
ResearchStep(score) ==
  /\ seen' = IF seen < Lookback THEN seen + 1 ELSE seen
  /\ research' = IF seen' < Lookback THEN [research EXCEPT !.signal = "HOLD"]
                 ELSE StepOf(score, strategy.band, strategy.longOnly)[research.state]

\* One accepted bar.  Below the lookback nothing is emitted.
ProcessBar(score) ==
  /\ signal = "HOLD"
  /\ buffer' = TailOf(Append(buffer, score), MaxBuffer)
  /\ LET walk == WalkOf(buffer')
     IN  signal' = IF Len(buffer') < Lookback THEN "HOLD"
                   ELSE EmittedSignal(walk.signal, walk.state, held, strategy.reaffirmEntries)
  /\ ResearchStep(score)
  /\ UNCHANGED <<strategy, held, disturbances>>

\* The trader acts on the signal: an entry needs a flat account and an exit
\* a matching position, anything else is declined and leaves the book alone.
HandleSignal ==
  /\ signal # "HOLD"
  /\ held' = CASE signal \in EntrySignals /\ held = "FLAT"        -> signal
               [] signal \in ExitSignals /\ signal = CloseOf(held) -> "FLAT"
               [] OTHER                                            -> held
  /\ signal' = "HOLD"
  /\ UNCHANGED <<strategy, buffer, seen, research, disturbances>>

Disturb == disturbances < MaxDisturbances /\ disturbances' = disturbances + 1

\* The broker refuses the order, the market is closed, a limit binds.
Declined ==
  /\ signal # "HOLD"
  /\ Disturb
  /\ signal' = "HOLD"
  /\ UNCHANGED <<strategy, buffer, held, seen, research>>

\* A protective leg fills, a position is closed or opened by hand, a sweep
\* replaces the book.
BookChanges(side) ==
  /\ side # held
  /\ strategy.longOnly => side # "SELL"
  /\ Disturb
  /\ held' = side
  /\ UNCHANGED <<strategy, buffer, signal, seen, research>>

\* A new process warms up on the last n bars of what the old one had seen
\* and adopts the broker's position.
Restart(n) ==
  /\ Disturb
  /\ buffer' = TailOf(buffer, n)
  /\ signal' = "HOLD"
  /\ UNCHANGED <<strategy, held, seen, research>>

Bar == \E score \in Scores : ProcessBar(score)

Next ==
  \/ Bar
  \/ HandleSignal
  \/ Declined
  \/ \E side \in Sides : BookChanges(side)
  \/ \E n \in 0..Len(buffer) : Restart(n)

\* The feed keeps delivering bars and a signal is handled before the next one.
Fairness == WF_vars(Bar) /\ WF_vars(HandleSignal)

Spec == Init /\ [][Next]_vars /\ Fairness

-----------------------------------------------------------------------------
Warm == Len(buffer) >= Lookback

\* Once the score settles on a direction, the book of a strategy that re-states
\* its entries ends up holding exactly that direction, whatever was missed,
\* refused or changed before: the claim of _reaffirm that "the loop converges on
\* the intended book".
ConvergesOnIntent ==
  \A d \in Directions :
    <>[](strategy.reaffirmEntries /\ Warm /\ Walk.state = d) => <>[](held = SideOf(d))

\* A position the score no longer wants is closed even by a strategy that
\* declines to re-state entries: exits are never gated.
UnwantedPositionCloses ==
  \A d \in Directions :
    <>[](Warm /\ Walk.state = d) => <>[](held = SideOf(d) \/ held = "FLAT")

\* The live walk over the rolling buffer is in the direction the research walk
\* over the whole history is in, so a backtest and the live loop want the same book.
\* Not so for every book: the buffer forgets (base.py:497).
DirectionMatchesResearch == Warm => Walk.state = research.state

\* A long-only book whose exit threshold is its entry threshold: its direction
\* depends on the last score alone.
Memoryless == strategy.longOnly /\ strategy.band.exitLong = strategy.band.enterLong

\* For a memoryless book live and research agree, however much of the history a
\* restart or the buffer's bound has forgotten.
MemorylessMatchesResearch == Memoryless => DirectionMatchesResearch
=============================================================================
