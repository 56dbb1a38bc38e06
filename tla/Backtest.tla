------------------------------ MODULE Backtest ------------------------------
(***************************************************************************)
(* engine/backtest.py, _replay: the merged timeline walked once over one   *)
(* pool of capital.  Each step marks the book at the open, exits, admits   *)
(* the entries the previous bars decided, and marks at the close.  Prices  *)
(* and signals are revealed step by step, whatever the feed and the        *)
(* strategy make of them.                                                  *)
(***************************************************************************)
EXTENDS Integers, FiniteSets, Functions, Signals

CONSTANTS
  Symbols,
  Bars,          \* the bars a feed may deliver
  Given,         \* the signals a strategy may give
  Sizes,         \* the whole shares a sizer may ask for, once rounded
  Capital,
  MaxPositions,
  RiskCap, GrossCap, NetCap,  \* in percent of equity; zero is none
  MinNotional,
  Parts,         \* stop and target stand one part in so many from the entry
  Fee,           \* what a fill costs
  Borrow,        \* what a short costs per step
  From,          \* the first step that trades; the ones before warm up
  Steps          \* bound on the length of the timeline

ASSUME BacktestAssumption ==
  /\ IsFiniteSet(Symbols) /\ Given \subseteq EntrySignals \cup ExitSignals \cup {"HOLD"}
  /\ Bars \subseteq [open : Nat, low : Nat, high : Nat, close : Nat]
  /\ \A b \in Bars : /\ b.low <= b.open /\ b.open <= b.high
                     /\ b.low <= b.close /\ b.close <= b.high
                     /\ b.low > 0 /\ b.open % Parts = 0
  /\ Sizes \subseteq Nat /\ Capital \in Nat
  /\ {MaxPositions, RiskCap, GrossCap, NetCap, MinNotional, Fee, Borrow} \subseteq Nat
  /\ Parts \in Nat \ {0} /\ From \in Nat /\ Steps \in Nat \ {0}

VARIABLES
  k,          \* the step of the merged timeline
  phase,      \* "next", "admit", "end", "done"
  traded,     \* the symbols with a bar at this step
  bar,        \* every symbol's latest bar
  last,       \* and the step it came at
  signal,     \* what that bar decided
  book,       \* the open positions
  cash,
  realized,   \* net profit of the closed trades
  candidates, \* entries this step has still to consider
  equity      \* the equity the caps are tested against, then the curve's last

vars == <<k, phase, traded, bar, last, signal, book, cash, realized, candidates, equity>>

NoBar == [open |-> 0, low |-> 0, high |-> 0, close |-> 0]
Held  == DOMAIN book

Position == [side : EntrySignals, size : Sizes \ {0}, entry : Nat, mark : Nat, since : 1..Steps]

\* The engine never runs on capital it has not got.
TypeOK ==
  /\ k \in 0..Steps /\ phase \in {"next", "admit", "end", "done"}
  /\ traded \subseteq Symbols
  /\ bar \in [Symbols -> Bars \cup {NoBar}] /\ signal \in [Symbols -> Given \cup {"HOLD"}]
  /\ last \in [Symbols -> 0..Steps]
  /\ Held \subseteq Symbols /\ \A s \in Held : book[s] \in Position
  /\ IF phase = "done" THEN cash \in Int ELSE cash \in Nat
  /\ realized \in Int /\ equity \in Int
  /\ candidates \subseteq traded \ Held

Init ==
  /\ k = 0 /\ phase = "next" /\ traded = {}
  /\ bar = [s \in Symbols |-> NoBar] /\ signal = [s \in Symbols |-> "HOLD"]
  /\ last = [s \in Symbols |-> 0]
  /\ book = <<>> /\ cash = Capital /\ realized = 0
  /\ candidates = {} /\ equity = Capital

-----------------------------------------------------------------------------
(* The book *)

Magnitude(n) == IF n < 0 THEN -n ELSE n

Direction(p)   == IF p.side = "BUY" THEN 1 ELSE -1
Notional(p)   == p.size * p.entry
Risk(p)       == Notional(p) \div Parts
Gain(p, price) == (price - p.entry) * p.size * Direction(p)
Carry(p, step) == IF p.side = "SELL" THEN Borrow * (step - p.since) ELSE 0

OpenRisk(b) == SumFunction([s \in DOMAIN b |-> Risk(b[s])])
Gross(b)    == SumFunction([s \in DOMAIN b |-> b[s].size * b[s].mark])
Net(b)      == SumFunction([s \in DOMAIN b |-> b[s].size * b[s].mark * Direction(b[s])])
Value(b)    == SumFunction([s \in DOMAIN b |-> Notional(b[s]) + Gain(b[s], b[s].mark)])

Without(b, S) == [s \in DOMAIN b \ S |-> b[s]]
With(b, s, p) == [t \in DOMAIN b \cup {s} |-> IF t = s THEN p ELSE b[t]]

\* A symbol without a bar keeps its last mark: it is not tradeable now.
Marked(b, price) ==
  [s \in DOMAIN b |-> IF s \in DOMAIN price THEN [b[s] EXCEPT !.mark = price[s]] ELSE b[s]]

\* Mutant of CashBack: what the shares are worth, which is no short's margin.
SharesWorth(p, price, cost) == p.size * price - cost

\* A short is collateralized in full, like the equivalent long.
CashBack(p, price, cost) == Notional(p) + Gain(p, price) - cost

Profit(p, price, cost) == Gain(p, price) - Fee - cost

\* Positions S are closed, each at its price and exit cost; the others are kept.
Settle(S, kept, price, cost) ==
  /\ book' = kept
  /\ cash' = cash + SumFunction([s \in S |-> CashBack(book[s], price[s], cost[s])])
  /\ realized' = realized + SumFunction([s \in S |-> Profit(book[s], price[s], cost[s])])

-----------------------------------------------------------------------------
(* One step *)

StopOf(p) == p.entry - Direction(p) * (p.entry \div Parts)
TakeOf(p) == p.entry + Direction(p) * (p.entry \div Parts)

StopHit(p, b) == IF p.side = "BUY" THEN b.low <= StopOf(p) ELSE b.high >= StopOf(p)
TakeHit(p, b) == IF p.side = "BUY" THEN b.high >= TakeOf(p) ELSE b.low <= TakeOf(p)
Against(p, decided) ==
  decided \in (IF p.side = "BUY" THEN {"SELL", "CLOSE_BUY"} ELSE {"BUY", "CLOSE_SELL"})

Exits(p, b, decided) == StopHit(p, b) \/ TakeHit(p, b) \/ Against(p, decided)

\* The stop before the target before the signal, which fills at the open.
ExitPrice(p, b) ==
  CASE StopHit(p, b) -> StopOf(p)
    [] TakeHit(p, b) /\ ~StopHit(p, b) -> TakeOf(p)
    [] OTHER -> b.open

\* Mutant of OpeningMark: the book is marked at the close before anything trades.
ClosingMark(b) == b.close

OpeningMark(b) == b.open

\* A bar for some of the symbols: the book is marked at the opens, positions
\* that reach a level or whose previous bar said so are closed, and what the
\* previous bars said of the rest makes the candidates, warm-up aside.
Bar ==
  /\ phase = "next" /\ k < Steps
  /\ k' = k + 1 /\ phase' = "admit"
  /\ traded' \in (SUBSET Symbols) \ {{}}
  /\ \E new \in [traded' -> Bars] :
       bar' = [s \in Symbols |-> IF s \in traded' THEN new[s] ELSE bar[s]]
  /\ last' = [s \in Symbols |-> IF s \in traded' THEN k' ELSE last[s]]
  /\ LET out == {s \in Held \cap traded' : Exits(book[s], bar'[s], signal[s])}
         kept == Marked(Without(book, out), [s \in traded' |-> OpeningMark(bar'[s])])
     IN  /\ Settle(out, kept, [s \in out |-> ExitPrice(book[s], bar'[s])],
                             [s \in out |-> Fee + Carry(book[s], k')])
         /\ candidates' = IF k' < From THEN {}
                          ELSE {s \in traded' \ DOMAIN kept : signal[s] \in EntrySignals}
         /\ equity' = cash' + Value(kept)
  /\ UNCHANGED signal

\* Mutant of Affordable: the cost of entering is left out.
AffordsNotional(p) == Notional(p) <= cash

Affordable(p) == Notional(p) + Fee <= cash

Over(cap, exposure) == cap > 0 /\ 100 * exposure > equity * cap

\* _open_position: the caps are tested on the book with the entry in it.
Opens(s, p) ==
  /\ p.size > 0 /\ Notional(p) >= MinNotional
  /\ Affordable(p)
  /\ ~Over(RiskCap, OpenRisk(With(book, s, p)))
  /\ ~Over(GrossCap, Gross(With(book, s, p)))
  /\ ~Over(NetCap, Magnitude(Net(With(book, s, p))))

Entry(s, n) == [side |-> signal[s], size |-> n, entry |-> bar[s].open,
                mark |-> bar[s].open, since |-> k]

\* Candidates in the order of a score the strategy alone knows, so in any order,
\* while there is room.
Admit(s, n) ==
  /\ phase = "admit" /\ s \in candidates
  /\ IF Cardinality(Held) >= MaxPositions
     THEN candidates' = {} /\ UNCHANGED <<book, cash>>
     ELSE /\ candidates' = candidates \ {s}
          /\ IF Opens(s, Entry(s, n))
             THEN /\ book' = With(book, s, Entry(s, n))
                  /\ cash' = cash - Notional(Entry(s, n)) - Fee
             ELSE UNCHANGED <<book, cash>>
  /\ UNCHANGED <<k, phase, traded, bar, last, signal, realized, equity>>

\* The close: the curve takes a point, and the bars say what the next may do.
Close ==
  /\ phase = "admit" /\ candidates = {}
  /\ phase' \in (IF k = Steps THEN {"end"} ELSE {"next", "end"})
  /\ book' = IF k < From THEN book ELSE Marked(book, [s \in traded |-> bar[s].close])
  /\ equity' = IF k < From THEN equity ELSE cash + Value(book')
  /\ \E new \in [traded -> Given] :
       signal' = [s \in Symbols |-> IF s \in traded THEN new[s] ELSE signal[s]]
  /\ UNCHANGED <<k, traded, bar, last, cash, realized, candidates>>

\* What is still open is closed, each at its own last bar; the curve ends there.
ForceClose ==
  /\ phase = "end" /\ phase' = "done"
  /\ Settle(Held, <<>>, [s \in Held |-> bar[s].close],
                         [s \in Held |-> Fee + Carry(book[s], last[s])])
  /\ equity' = cash'
  /\ UNCHANGED <<k, traded, bar, last, signal, candidates>>

Next == Bar \/ Close \/ ForceClose \/ \E s \in Symbols, n \in Sizes : Admit(s, n)

Spec == Init /\ [][Next]_vars

-----------------------------------------------------------------------------
(* Properties *)

Opening == [s \in traded |-> bar[s].open]

\* A step that admitted an entry leaves a book within every cap, valued at the
\* prices of the entry's own moment, however many it admitted and in which order.
CapsHoldAtOpen ==
  LET new   == {s \in Held : book[s].since = k}
      at    == Marked(book, Opening)
      worth == cash + Value(at) + Fee * Cardinality(new)
  IN  phase = "admit" /\ new # {} =>
        /\ Cardinality(Held) <= MaxPositions
        /\ RiskCap > 0 => 100 * OpenRisk(at) <= worth * RiskCap
        /\ GrossCap > 0 => 100 * Gross(at) <= worth * GrossCap
        /\ NetCap > 0 => 100 * Magnitude(Net(at)) <= worth * NetCap

\* Cash is the capital, what the closed trades made and what the open ones tie
\* up, fees included; in the end the curve, the cash and the trades agree.
TradesExplainCash ==
  /\ cash = Capital + realized - SumFunction([s \in Held |-> Notional(book[s]) + Fee])
  /\ phase = "done" => equity = Capital + realized

\* "an entry that moves the book toward flat is admitted even from over the cap":
\* it does not hold (engine/backtest.py:1075).
HedgeIsAdmitted ==
  phase = "admit" /\ Cardinality(Held) < MaxPositions =>
    \A s \in candidates, n \in Sizes :
      LET with == With(book, s, Entry(s, n)) IN
      Magnitude(Net(with)) < Magnitude(Net(book)) => ~Over(NetCap, Magnitude(Net(with)))
=============================================================================
