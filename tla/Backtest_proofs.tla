--------------------------- MODULE Backtest_proofs ---------------------------
(***************************************************************************)
(* What holds of a replay for any symbols, bars, signals, sizes, caps and  *)
(* costs: the types, that the trades account for every unit of cash, and   *)
(* that whatever a step admitted left the book within the caps.            *)
(***************************************************************************)
EXTENDS Backtest, DataInduction

-----------------------------------------------------------------------------
(* Positions *)

Quote == [open : Nat, low : Nat, high : Nat, close : Nat]

\* Everything but the amount of the cash.
Shapes ==
  /\ k \in 0..Steps /\ phase \in {"next", "admit", "end", "done"}
  /\ phase = "admit" => k > 0
  /\ traded \subseteq Symbols
  /\ bar \in [Symbols -> Quote] /\ bar \in [Symbols -> Bars \cup {NoBar}]
  /\ signal \in [Symbols -> Given \cup {"HOLD"}]
  /\ last \in [Symbols -> 0..Steps]
  /\ Held \subseteq Symbols /\ book \in [Held -> Position]
  /\ \A s \in Held : book[s].since <= k
  /\ cash \in Int /\ realized \in Int /\ equity \in Int
  /\ candidates \subseteq traded \ Held
  /\ \A s \in candidates : signal[s] \in EntrySignals

Tied(b) == SumFunction([s \in DOMAIN b |-> Notional(b[s]) + Fee])

LEMMA Constants ==
  /\ Sizes \subseteq Nat /\ Capital \in Nat /\ Fee \in Nat /\ Borrow \in Nat
  /\ MaxPositions \in Nat /\ RiskCap \in Nat /\ GrossCap \in Nat /\ NetCap \in Nat
  /\ MinNotional \in Nat /\ Parts \in Nat /\ Parts > 0 /\ From \in Nat
  /\ Steps \in Nat /\ Steps > 0 /\ IsFiniteSet(Symbols) /\ Bars \subseteq Quote
BY BacktestAssumption DEF BacktestAssumption, Quote

LEMMA Positions ==
  ASSUME NEW p \in Position
  PROVE  /\ p.size \in Nat /\ p.size > 0 /\ p.entry \in Nat /\ p.mark \in Nat
         /\ p.since \in 1..Steps
         /\ Direction(p) \in {1, -1} /\ Notional(p) \in Nat /\ Risk(p) \in Int
         /\ p.size * p.mark \in Int /\ p.size * p.mark * Direction(p) \in Int
         /\ StopOf(p) \in Int /\ TakeOf(p) \in Int
<1>1. /\ p.size \in Nat /\ p.size > 0 /\ p.entry \in Nat /\ p.mark \in Nat
      /\ p.since \in 1..Steps
  <2>1. p.size \in Sizes \ {0} BY DEF Position
  <2>2. p.size \in Nat /\ p.size # 0 BY <2>1, Constants
  <2>3. p.entry \in Nat /\ p.mark \in Nat /\ p.since \in 1..Steps BY DEF Position
  <2> QED BY <2>2, <2>3
<1>2. Direction(p) \in {1, -1} BY DEF Direction
<1>3. Notional(p) \in Nat BY <1>1 DEF Notional
<1>4. Parts \in Nat \ {0} BY Constants
<1>5. Risk(p) \in Int BY <1>3, <1>4 DEF Risk
<1>6. p.size * p.mark \in Int BY <1>1
<1>7. p.size * p.mark * Direction(p) \in Int
  <2> DEFINE x == p.size * p.mark
  <2>1. x \in Int BY <1>6
  <2> HIDE DEF x
  <2>2. x * Direction(p) \in Int BY <1>2, <2>1
  <2> QED BY <2>2 DEF x
<1>8. p.entry \div Parts \in Int BY <1>1, <1>4
<1>9. StopOf(p) \in Int /\ TakeOf(p) \in Int BY <1>1, <1>2, <1>8 DEF StopOf, TakeOf
<1> QED BY <1>1, <1>2, <1>3, <1>5, <1>6, <1>7, <1>9

LEMMA Gains ==
  ASSUME NEW p \in Position, NEW price \in Int
  PROVE  Gain(p, price) \in Int
<1>1. p.entry \in Nat /\ p.size \in Nat /\ Direction(p) \in {1, -1} BY Positions
<1> DEFINE x == (price - p.entry) * p.size
<1>2. x \in Int BY <1>1
<1> HIDE DEF x
<1>3. x * Direction(p) \in Int BY <1>1, <1>2
<1> QED BY <1>3 DEF Gain, x

LEMMA Carries ==
  ASSUME NEW p \in Position, NEW step \in Int
  PROVE  Carry(p, step) \in Int
<1>1. p.since \in Int /\ Borrow \in Int
  BY Positions, Constants
<1> QED BY <1>1 DEF Carry

\* Marking a position changes what it is worth, not what it ties up.
LEMMA Marking ==
  ASSUME NEW H, NEW b \in [H -> Position], NEW T, NEW price \in [T -> Nat]
  PROVE  /\ Marked(b, price) \in [H -> Position]
         /\ \A s \in H : /\ Notional(Marked(b, price)[s]) = Notional(b[s])
                         /\ Marked(b, price)[s].since = b[s].since
                         /\ s \in T => Marked(b, price)[s].mark = price[s]
<1> DEFINE m == Marked(b, price)
<1>1. DOMAIN b = H /\ DOMAIN price = T OBVIOUS
<1>2. m = [s \in H |-> IF s \in T THEN [b[s] EXCEPT !.mark = price[s]] ELSE b[s]]
  BY <1>1 DEF Marked
<1> HIDE DEF m
<1>3. ASSUME NEW s \in H
      PROVE  /\ m[s] \in Position /\ Notional(m[s]) = Notional(b[s])
             /\ m[s].since = b[s].since /\ s \in T => m[s].mark = price[s]
  <2>1. b[s] \in Position OBVIOUS
  <2>2. CASE s \notin T BY <1>2, <2>1, <2>2
  <2>3. CASE s \in T
    <3>1. m[s] = [b[s] EXCEPT !.mark = price[s]] /\ price[s] \in Nat BY <1>2, <2>3
    <3> QED BY <2>1, <3>1 DEF Position, Notional
  <2> QED BY <2>2, <2>3
<1> QED BY <1>2, <1>3 DEF m

\* A book as the models' sums read it.
IsBook(b) == DOMAIN b \subseteq Symbols /\ b \in [DOMAIN b -> Position]

LEMMA BookSums ==
  ASSUME NEW b, IsBook(b)
  PROVE  /\ IsFiniteSet(DOMAIN b)
         /\ Tied(b) \in Int /\ Value(b) \in Int /\ OpenRisk(b) \in Int /\ Gross(b) \in Int
         /\ Net(b) \in Int
<1> DEFINE H == DOMAIN b
<1>1. IsFiniteSet(H) BY Constants, FS_Subset DEF IsBook
<1>2. \A s \in H : b[s] \in Position BY DEF IsBook
<1>3. Tied(b) \in Int
  <2> DEFINE f == [s \in H |-> Notional(b[s]) + Fee]
  <2>1. \A s \in H : Notional(b[s]) \in Nat /\ Fee \in Nat BY <1>2, Positions, Constants
  <2>2. f \in [H -> Int] BY <2>1
  <2>3. Tied(b) = SumFunction(f) BY DEF Tied
  <2> HIDE DEF f
  <2> QED BY <1>1, <2>2, <2>3, SumTyped
<1>4. Value(b) \in Int
  <2> DEFINE f == [s \in H |-> Notional(b[s]) + Gain(b[s], b[s].mark)]
  <2>1. \A s \in H : Notional(b[s]) \in Nat /\ Gain(b[s], b[s].mark) \in Int
    <3> SUFFICES ASSUME NEW s \in H
                 PROVE  Notional(b[s]) \in Nat /\ Gain(b[s], b[s].mark) \in Int
      OBVIOUS
    <3>1. b[s] \in Position /\ b[s].mark \in Int /\ Notional(b[s]) \in Nat BY <1>2, Positions
    <3> QED BY <3>1, Gains
  <2>2. f \in [H -> Int] BY <2>1
  <2>3. Value(b) = SumFunction(f) BY DEF Value
  <2> HIDE DEF f
  <2> QED BY <1>1, <2>2, <2>3, SumTyped
<1>5. OpenRisk(b) \in Int
  <2> DEFINE f == [s \in H |-> Risk(b[s])]
  <2>1. f \in [H -> Int] BY <1>2, Positions
  <2>2. OpenRisk(b) = SumFunction(f) BY DEF OpenRisk
  <2> HIDE DEF f
  <2> QED BY <1>1, <2>1, <2>2, SumTyped
<1>6. Gross(b) \in Int
  <2> DEFINE f == [s \in H |-> b[s].size * b[s].mark]
  <2>1. f \in [H -> Int] BY <1>2, Positions
  <2>2. Gross(b) = SumFunction(f) BY DEF Gross
  <2> HIDE DEF f
  <2> QED BY <1>1, <2>1, <2>2, SumTyped
<1>7. Net(b) \in Int
  <2> DEFINE f == [s \in H |-> b[s].size * b[s].mark * Direction(b[s])]
  <2>1. f \in [H -> Int] BY <1>2, Positions
  <2>2. Net(b) = SumFunction(f) BY DEF Net
  <2> HIDE DEF f
  <2> QED BY <1>1, <2>1, <2>2, SumTyped
<1> QED BY <1>1, <1>3, <1>4, <1>5, <1>6, <1>7

-----------------------------------------------------------------------------
(* Settling *)

\* Closing some positions moves what they tied up, and what they made, into the
\* cash: the rest of the book accounts for the rest.
LEMMA Settled ==
  ASSUME NEW S \in SUBSET Held, NEW kept, NEW price \in [S -> Int], NEW cost \in [S -> Int],
         Held \subseteq Symbols, book \in [Held -> Position], cash \in Int, realized \in Int,
         Settle(S, kept, price, cost),
         kept \in [Held \ S -> Position],
         \A s \in Held \ S : Notional(kept[s]) = Notional(book[s])
  PROVE  /\ cash' \in Int /\ realized' \in Int
         /\ cash' - realized' + Tied(kept) = cash - realized + Tied(book)
<1> DEFINE back == [s \in S |-> CashBack(book[s], price[s], cost[s])]
           made == [s \in S |-> Profit(book[s], price[s], cost[s])]
           tied == [s \in S |-> Notional(book[s]) + Fee]
           all  == [s \in Held |-> Notional(book[s]) + Fee]
           rest == [s \in Held \ S |-> Notional(kept[s]) + Fee]
<1>1. cash' = cash + SumFunction(back) /\ realized' = realized + SumFunction(made)
  BY DEF Settle
<1>2. ASSUME NEW s \in S
      PROVE  /\ back[s] \in Int /\ made[s] \in Int /\ tied[s] \in Int
             /\ back[s] = made[s] + tied[s]
  <2>1. book[s] \in Position /\ price[s] \in Int /\ cost[s] \in Int /\ Fee \in Nat
    BY Constants
  <2>2. Gain(book[s], price[s]) \in Int BY <2>1, Gains
  <2>3. Notional(book[s]) \in Nat BY <2>1, Positions
  <2>4. back[s] = Notional(book[s]) + Gain(book[s], price[s]) - cost[s] BY DEF CashBack
  <2>5. made[s] = Gain(book[s], price[s]) - Fee - cost[s] BY DEF Profit
  <2>6. tied[s] = Notional(book[s]) + Fee OBVIOUS
  <2> HIDE DEF back, made, tied
  <2> QED BY <2>1, <2>2, <2>3, <2>4, <2>5, <2>6
<1>3. ASSUME NEW s \in Held PROVE all[s] \in Int /\ (s \notin S => rest[s] = all[s])
  <2>1. Notional(book[s]) \in Nat /\ Fee \in Nat BY Positions, Constants
  <2> QED BY <2>1
<1>4. \A s \in S : tied[s] = all[s] OBVIOUS
<1>5. Tied(book) = SumFunction(all) /\ Tied(kept) = SumFunction(rest)
  <2>1. DOMAIN kept = Held \ S OBVIOUS
  <2> QED BY <2>1 DEF Tied
<1>6. /\ back \in [S -> Int] /\ made \in [S -> Int] /\ tied \in [S -> Int]
      /\ all \in [Held -> Int] /\ rest \in [Held \ S -> Int]
  <2>1. \A s \in Held \ S : rest[s] \in Int BY <1>3
  <2> QED BY <1>2, <1>3, <2>1
<1>7. IsFiniteSet(Held) /\ IsFiniteSet(S) BY Constants, FS_Subset
<1> HIDE DEF back, made, tied, all, rest
<1>8. SumFunction(back) = SumFunction(made) + SumFunction(tied)
  BY <1>2, <1>6, <1>7, SumAdd
<1>9. SumFunction(all) = SumFunction(tied) + SumFunction(rest)
  <2>1. Agree(all, tied, S) /\ Agree(all, rest, Held \ S) BY <1>3, <1>4 DEF Agree
  <2> QED BY <1>6, <1>7, <2>1, SumSplit
<1>10. IsFiniteSet(Held \ S) BY <1>7, FS_Subset
<1>11. /\ SumFunction(back) \in Int /\ SumFunction(made) \in Int
       /\ SumFunction(tied) \in Int /\ SumFunction(rest) \in Int
  BY <1>6, <1>7, <1>10, SumTyped
<1> QED BY <1>1, <1>5, <1>8, <1>9, <1>11

-----------------------------------------------------------------------------
(* What the steps keep *)

\* The fields of a quote are numbers, and the price an exit gets is one.
LEMMA ExitPrices ==
  ASSUME NEW p \in Position, NEW b \in Quote
  PROVE  ExitPrice(p, b) \in Int
<1>1. StopOf(p) \in Int /\ TakeOf(p) \in Int BY Positions
<1>2. b.open \in Int BY DEF Quote
<1> QED BY <1>1, <1>2 DEF ExitPrice

\* What Bar settles and what it keeps.
LEMMA BarSettles ==
  ASSUME Shapes, Bar
  PROVE  \E out \in SUBSET Held :
           /\ book' \in [Held \ out -> Position]
           /\ \A s \in Held \ out : /\ Notional(book'[s]) = Notional(book[s])
                                    /\ book'[s].since = book[s].since
                                    /\ s \in traded' => book'[s].mark = bar'[s].open
           /\ cash' \in Int /\ realized' \in Int
           /\ cash' - realized' + Tied(book') = cash - realized + Tied(book)
           /\ equity' = cash' + Value(book')
           /\ candidates' \subseteq traded' \ DOMAIN book'
           /\ \A s \in candidates' : signal'[s] \in EntrySignals
<1> DEFINE out  == {s \in Held \cap traded' : Exits(book[s], bar'[s], signal[s])}
           price == [s \in out |-> ExitPrice(book[s], bar'[s])]
           cost  == [s \in out |-> Fee + Carry(book[s], k')]
           open  == [s \in traded' |-> OpeningMark(bar'[s])]
           rest  == Without(book, out)
           kept  == Marked(rest, open)
<1>1. bar' \in [Symbols -> Quote] /\ traded' \subseteq Symbols
  <2>1. traded' \subseteq Symbols BY DEF Bar
  <2>2. PICK new \in [traded' -> Bars] :
          bar' = [s \in Symbols |-> IF s \in traded' THEN new[s] ELSE bar[s]]
    BY DEF Bar
  <2>3. \A s \in traded' : new[s] \in Quote BY <2>2, Constants
  <2>4. \A s \in Symbols : bar[s] \in Quote BY DEF Shapes
  <2> QED BY <2>1, <2>2, <2>3, <2>4
<1>2. k' \in Int BY DEF Bar, Shapes
<1>3. out \in SUBSET Held OBVIOUS
<1>4. \A s \in Held : book[s] \in Position /\ s \in Symbols BY DEF Shapes
<1>5. price \in [out -> Int]
  <2>1. \A s \in out : ExitPrice(book[s], bar'[s]) \in Int BY <1>1, <1>4, ExitPrices
  <2> QED BY <2>1
<1>6. cost \in [out -> Int]
  <2>1. \A s \in out : Carry(book[s], k') \in Int BY <1>2, <1>4, Carries
  <2> QED BY <2>1, Constants
<1>7. open \in [traded' -> Nat] /\ \A s \in traded' : open[s] = bar'[s].open
  BY <1>1 DEF OpeningMark, Quote
<1>8. rest \in [Held \ out -> Position] /\ \A s \in Held \ out : rest[s] = book[s]
  BY <1>4 DEF Without, Held
<1>9. Settle(out, kept, price, cost) BY DEF Bar
<1>10. /\ candidates' \subseteq traded' \ DOMAIN kept
       /\ \A s \in candidates' : signal'[s] \in EntrySignals
       /\ equity' = cash' + Value(kept) /\ book' = kept
  BY <1>9 DEF Bar, Settle
<1> HIDE DEF out, price, cost, open, rest
<1>11. /\ kept \in [Held \ out -> Position]
       /\ \A s \in Held \ out : /\ Notional(kept[s]) = Notional(rest[s])
                                /\ kept[s].since = rest[s].since
                                /\ s \in traded' => kept[s].mark = open[s]
  BY <1>7, <1>8, Marking
<1> HIDE DEF kept
<1>12. \A s \in Held \ out : Notional(kept[s]) = Notional(book[s]) BY <1>8, <1>11
<1>13. /\ cash' \in Int /\ realized' \in Int
       /\ cash' - realized' + Tied(kept) = cash - realized + Tied(book)
  BY <1>3, <1>5, <1>6, <1>9, <1>11, <1>12, Settled DEF Shapes
<1> QED BY <1>3, <1>7, <1>8, <1>10, <1>11, <1>12, <1>13

\* An admitted entry is a position with nothing gained or lost yet.
LEMMA Entries ==
  ASSUME Shapes, phase = "admit", NEW s \in candidates, NEW n \in Sizes \ {0}
  PROVE  /\ Entry(s, n) \in Position /\ Entry(s, n).since = k
         /\ Entry(s, n).mark = bar[s].open
         /\ Notional(Entry(s, n)) + Gain(Entry(s, n), Entry(s, n).mark)
              = Notional(Entry(s, n))
<1> DEFINE p == Entry(s, n)
<1>1. s \in Symbols /\ bar[s] \in Quote /\ signal[s] \in EntrySignals /\ k \in 1..Steps
  BY Constants DEF Shapes
<1>2. bar[s].open \in Nat BY <1>1 DEF Quote
<1>3. p \in Position BY <1>1, <1>2 DEF Entry, Position
<1>4. p.mark = bar[s].open /\ p.entry = bar[s].open /\ p.since = k BY DEF Entry
<1> HIDE DEF p
<1>5. p.size \in Nat /\ Direction(p) \in {1, -1} /\ Notional(p) \in Nat BY <1>3, Positions
<1>6. (p.mark - p.entry) * p.size = 0 BY <1>2, <1>4, <1>5
<1>7. Gain(p, p.mark) = 0 BY <1>5, <1>6 DEF Gain
<1>8. Notional(p) + Gain(p, p.mark) = Notional(p) BY <1>5, <1>7
<1> QED BY <1>3, <1>4, <1>8 DEF p

\* What an entry adds to a book.
LEMMA Adding ==
  ASSUME IsBook(book), NEW s \in Symbols, s \notin Held, NEW p \in Position
  PROVE  /\ With(book, s, p) \in [Held \cup {s} -> Position] /\ IsBook(With(book, s, p))
         /\ With(book, s, p)[s] = p /\ \A t \in Held : With(book, s, p)[t] = book[t]
         /\ Tied(With(book, s, p)) = Tied(book) + Notional(p) + Fee
         /\ Value(With(book, s, p)) = Value(book) + Notional(p) + Gain(p, p.mark)
<1> DEFINE H == Held \cup {s}
           b == With(book, s, p)
<1>1. b = [t \in H |-> IF t = s THEN p ELSE book[t]] BY DEF With, Held
<1>2. \A t \in Held : book[t] \in Position /\ t # s BY DEF IsBook, Held
<1>3. b \in [H -> Position] /\ b[s] = p /\ \A t \in Held : b[t] = book[t] BY <1>1, <1>2
<1>4. H \subseteq Symbols BY DEF IsBook, Held
<1>5. IsBook(b) /\ DOMAIN b = H BY <1>3, <1>4 DEF IsBook
<1>6. IsFiniteSet(H) BY <1>4, Constants, FS_Subset
<1>7. H \ {s} = Held OBVIOUS
<1> HIDE DEF b, H
<1>8. Tied(b) = Tied(book) + Notional(p) + Fee
  <2> DEFINE f == [t \in H |-> Notional(b[t]) + Fee]
             g == [t \in Held |-> Notional(book[t]) + Fee]
  <2>1. Tied(b) = SumFunction(f) /\ Tied(book) = SumFunction(g) BY <1>5 DEF Tied, Held
  <2>2. f \in [H -> Int]
    <3>1. \A t \in H : Notional(b[t]) \in Nat BY <1>3, Positions
    <3> QED BY <3>1, Constants
  <2>3. g \in [H \ {s} -> Int]
    <3>1. \A t \in Held : Notional(book[t]) \in Nat BY <1>2, Positions
    <3> QED BY <1>7, <3>1, Constants
  <2>4. Agree(f, g, H \ {s}) BY <1>3, <1>7 DEF Agree, H
  <2>5. f[s] = Notional(p) + Fee BY <1>3 DEF H
  <2>6. s \in H BY DEF H
  <2> HIDE DEF f, g
  <2>7. SumFunction(f) = f[s] + SumFunction(g) BY <1>6, <2>2, <2>3, <2>4, <2>6, SumRemove
  <2>8. Notional(p) \in Nat /\ Fee \in Nat /\ Tied(book) \in Int
    BY Positions, Constants, BookSums
  <2> QED BY <2>1, <2>5, <2>7, <2>8
<1>9. Value(b) = Value(book) + Notional(p) + Gain(p, p.mark)
  <2> DEFINE f == [t \in H |-> Notional(b[t]) + Gain(b[t], b[t].mark)]
             g == [t \in Held |-> Notional(book[t]) + Gain(book[t], book[t].mark)]
             Worth(q) == Notional(q) + Gain(q, q.mark)
  <2>1. Value(b) = SumFunction(f) /\ Value(book) = SumFunction(g) BY <1>5 DEF Value, Held
  <2>2. ASSUME NEW q \in Position
        PROVE  Notional(q) \in Nat /\ Gain(q, q.mark) \in Int /\ Worth(q) \in Int
    <3>1. q.mark \in Int /\ Notional(q) \in Nat BY Positions
    <3>2. Gain(q, q.mark) \in Int BY <3>1, Gains
    <3> QED BY <3>1, <3>2
  <2>3. f \in [H -> Int]
    <3>1. \A t \in H : f[t] = Worth(b[t]) OBVIOUS
    <3> HIDE DEF Worth
    <3>2. \A t \in H : Worth(b[t]) \in Int BY <1>3, <2>2
    <3> QED BY <3>2 DEF Worth
  <2>4. g \in [H \ {s} -> Int]
    <3> HIDE DEF Worth
    <3>1. \A t \in Held : Worth(book[t]) \in Int BY <1>2, <2>2
    <3> QED BY <1>7, <3>1 DEF Worth
  <2>5. Agree(f, g, H \ {s}) BY <1>3, <1>7 DEF Agree, H
  <2>6. f[s] = Notional(p) + Gain(p, p.mark) BY <1>3 DEF H
  <2>7. s \in H BY DEF H
  <2> HIDE DEF f, g
  <2>8. SumFunction(f) = f[s] + SumFunction(g) BY <1>6, <2>3, <2>4, <2>5, <2>7, SumRemove
  <2>9. Notional(p) \in Nat /\ Gain(p, p.mark) \in Int /\ Value(book) \in Int
    BY <2>2, BookSums
  <2> QED BY <2>1, <2>6, <2>8, <2>9
<1> QED BY <1>3, <1>5, <1>8, <1>9 DEF b, H

-----------------------------------------------------------------------------
(* Types *)

LEMMA InitShapes == Init => Shapes
<1> SUFFICES ASSUME Init PROVE Shapes OBVIOUS
<1>1. Held = {} /\ book \in [Held -> Position] BY DEF Init, Held
<1>2. NoBar \in Quote BY DEF NoBar, Quote
<1>3. Capital \in Nat /\ Steps \in Nat BY Constants
<1> QED BY <1>1, <1>2, <1>3 DEF Init, Shapes, Held

LEMMA BarShapes == Shapes /\ Bar => Shapes'
<1> SUFFICES ASSUME Shapes, Bar PROVE Shapes' OBVIOUS
<1>1. PICK out \in SUBSET Held :
        /\ book' \in [Held \ out -> Position]
        /\ \A s \in Held \ out : book'[s].since = book[s].since
        /\ cash' \in Int /\ realized' \in Int /\ equity' = cash' + Value(book')
        /\ candidates' \subseteq traded' \ DOMAIN book'
        /\ \A s \in candidates' : signal'[s] \in EntrySignals
  BY BarSettles
<1>2. k' = k + 1 /\ k' \in 1..Steps /\ phase' = "admit" /\ signal' = signal
      /\ traded' \subseteq Symbols
  BY Constants DEF Bar, Shapes
<1>3. PICK new \in [traded' -> Bars] :
        bar' = [s \in Symbols |-> IF s \in traded' THEN new[s] ELSE bar[s]]
  BY DEF Bar
<1>4. bar' \in [Symbols -> Quote] /\ bar' \in [Symbols -> Bars \cup {NoBar}]
  <2>1. \A s \in Symbols : bar[s] \in Quote /\ bar[s] \in Bars \cup {NoBar} BY DEF Shapes
  <2>2. \A s \in traded' : new[s] \in Bars /\ new[s] \in Quote BY <1>3, Constants
  <2> QED BY <1>2, <1>3, <2>1, <2>2
<1>5. last' \in [Symbols -> 0..Steps]
  <2>1. last' = [s \in Symbols |-> IF s \in traded' THEN k' ELSE last[s]] BY DEF Bar
  <2>2. \A s \in Symbols : last[s] \in 0..Steps BY DEF Shapes
  <2>3. k' \in 0..Steps BY <1>2
  <2> QED BY <2>1, <2>2, <2>3
<1>6. Held' = Held \ out /\ Held' \subseteq Symbols BY <1>1 DEF Held, Shapes
<1>7. \A s \in Held' : book'[s].since <= k'
  <2>1. \A s \in Held : book[s] \in Position /\ book[s].since <= k BY DEF Shapes
  <2>2. \A s \in Held : book[s].since \in Int BY <2>1, Positions
  <2>3. k \in Int BY DEF Shapes
  <2> QED BY <1>1, <1>2, <1>6, <2>1, <2>2, <2>3
<1>8. Value(book') \in Int
  <2>1. IsBook(book') BY <1>1, <1>6 DEF IsBook, Held
  <2> QED BY <2>1, BookSums
<1>9. signal' \in [Symbols -> Given \cup {"HOLD"}] BY <1>2 DEF Shapes
<1>10. k' \in 0..Steps /\ k' > 0 /\ equity' \in Int BY <1>1, <1>2, <1>8
<1>11. candidates' \subseteq traded' \ Held' BY <1>1 DEF Held
<1>12. book' \in [Held' -> Position] BY <1>1, <1>6
<1> QED
  BY <1>1, <1>2, <1>4, <1>5, <1>6, <1>7, <1>9, <1>10, <1>11, <1>12 DEF Shapes

\* What Opens asks of an entry makes it a position.
LEMMA AdmitShapes == Shapes /\ (\E s \in Symbols, n \in Sizes : Admit(s, n)) => Shapes'
<1> SUFFICES ASSUME Shapes, NEW s \in Symbols, NEW n \in Sizes, Admit(s, n) PROVE Shapes'
  OBVIOUS
<1> DEFINE p == Entry(s, n)
<1>1. /\ phase = "admit" /\ s \in candidates
      /\ UNCHANGED <<k, phase, traded, bar, last, signal, realized, equity>>
      /\ candidates' \subseteq candidates
  BY DEF Admit
<1>2. CASE UNCHANGED <<book, cash>>
  BY <1>1, <1>2 DEF Shapes, Held
<1>3. CASE /\ Opens(s, p) /\ candidates' = candidates \ {s}
           /\ book' = With(book, s, p) /\ cash' = cash - Notional(p) - Fee
  <2>1. n \in Sizes \ {0} BY <1>3 DEF Opens, Entry
  <2>2. p \in Position /\ p.since = k BY <1>1, <2>1, Entries
  <2>3. IsBook(book) /\ s \notin Held BY <1>1 DEF IsBook, Shapes, Held
  <2> HIDE DEF p
  <2>4. /\ book' \in [Held \cup {s} -> Position] /\ book'[s] = p
        /\ \A t \in Held : book'[t] = book[t]
    BY <1>3, <2>2, <2>3, Adding
  <2>5. Held' = Held \cup {s} /\ Held' \subseteq Symbols
    <3>1. Held' = DOMAIN book' BY DEF Held
    <3> QED BY <2>4, <3>1 DEF Shapes
  <2>6. book' \in [Held' -> Position] BY <2>4, <2>5
  <2>7. \A t \in Held' : book'[t].since <= k'
    <3>1. k \in Int /\ \A t \in Held : book[t].since <= k BY DEF Shapes
    <3> QED BY <1>1, <2>2, <2>4, <2>5, <3>1
  <2>8. cash' \in Int
    <3>1. Notional(p) \in Nat /\ Fee \in Nat BY <2>2, Positions, Constants
    <3> QED BY <1>3, <3>1 DEF Shapes
  <2>9. candidates' \subseteq traded' \ Held' BY <1>1, <1>3, <2>5 DEF Shapes
  <2>10. \A t \in candidates' : signal'[t] \in EntrySignals BY <1>1, <1>3 DEF Shapes
  <2> QED BY <1>1, <2>5, <2>6, <2>7, <2>8, <2>9, <2>10 DEF Shapes
<1> HIDE DEF p
<1>4. \/ UNCHANGED <<book, cash>>
      \/ /\ Opens(s, p) /\ candidates' = candidates \ {s}
         /\ book' = With(book, s, p) /\ cash' = cash - Notional(p) - Fee
  BY DEF Admit, p
<1> QED BY <1>2, <1>3, <1>4

\* The book after the close: marked or not, it ties up what it did.
LEMMA Closing ==
  ASSUME Shapes, Close
  PROVE  /\ book' \in [Held -> Position] /\ Held' = Held
         /\ \A s \in Held : Notional(book'[s]) = Notional(book[s])
                            /\ book'[s].since = book[s].since
<1> DEFINE price == [s \in traded |-> bar[s].close]
<1>1. price \in [traded -> Nat]
  <2>1. \A s \in traded : bar[s] \in Quote BY DEF Shapes
  <2>2. \A s \in traded : bar[s].close \in Nat BY <2>1 DEF Quote
  <2> QED BY <2>2
<1>2. book \in [Held -> Position] BY DEF Shapes
<1>3. book' = book \/ book' = Marked(book, price) BY DEF Close
<1> HIDE DEF price
<1>4. /\ Marked(book, price) \in [Held -> Position]
      /\ \A s \in Held : /\ Notional(Marked(book, price)[s]) = Notional(book[s])
                         /\ Marked(book, price)[s].since = book[s].since
  BY <1>1, <1>2, Marking
<1>5. book' \in [Held -> Position] BY <1>2, <1>3, <1>4
<1>6. Held' = Held BY <1>5 DEF Held
<1> QED BY <1>3, <1>4, <1>5, <1>6

LEMMA CloseShapes == Shapes /\ Close => Shapes'
<1> SUFFICES ASSUME Shapes, Close PROVE Shapes' OBVIOUS
<1>1. /\ book' \in [Held' -> Position] /\ Held' = Held
      /\ \A s \in Held : book'[s].since = book[s].since
  BY Closing
<1>2. /\ UNCHANGED <<k, traded, bar, last, cash, realized, candidates>>
      /\ phase' \in {"next", "end"} /\ candidates = {}
  BY DEF Close
<1>3. equity' \in Int
  <2>1. IsBook(book') BY <1>1 DEF IsBook, Shapes, Held
  <2>2. Value(book') \in Int BY <2>1, BookSums
  <2> QED BY <2>2 DEF Close, Shapes
<1>4. signal' \in [Symbols -> Given \cup {"HOLD"}]
  <2>1. PICK new \in [traded -> Given] :
          signal' = [s \in Symbols |-> IF s \in traded THEN new[s] ELSE signal[s]]
    BY DEF Close
  <2>2. \A s \in Symbols : signal[s] \in Given \cup {"HOLD"} BY DEF Shapes
  <2> QED BY <2>1, <2>2
<1> QED BY <1>1, <1>2, <1>3, <1>4 DEF Shapes

\* What the end settles: everything.
LEMMA Ending ==
  ASSUME Shapes, ForceClose
  PROVE  /\ book' = <<>> /\ Held' = {} /\ cash' \in Int /\ realized' \in Int
         /\ cash' - realized' + Tied(book') = cash - realized + Tied(book)
<1> DEFINE price == [s \in Held |-> bar[s].close]
           cost  == [s \in Held |-> Fee + Carry(book[s], last[s])]
           none  == <<>>
<1>1. price \in [Held -> Int]
  <2>1. \A s \in Held : bar[s] \in Quote BY DEF Shapes
  <2>2. \A s \in Held : bar[s].close \in Int BY <2>1 DEF Quote
  <2> QED BY <2>2
<1>2. cost \in [Held -> Int]
  <2>1. \A s \in Held : book[s] \in Position /\ last[s] \in Int BY DEF Shapes
  <2>2. \A s \in Held : Carry(book[s], last[s]) \in Int BY <2>1, Carries
  <2> QED BY <2>2, Constants
<1>3. Settle(Held, none, price, cost) BY DEF ForceClose
<1>4. none \in [Held \ Held -> Position] OBVIOUS
<1> HIDE DEF price, cost, none
<1>5. /\ cash' \in Int /\ realized' \in Int
      /\ cash' - realized' + Tied(none) = cash - realized + Tied(book)
  BY <1>1, <1>2, <1>3, <1>4, Settled DEF Shapes
<1>6. book' = none BY <1>3 DEF Settle
<1> QED BY <1>5, <1>6 DEF none, Held

LEMMA ForceCloseShapes == Shapes /\ ForceClose => Shapes'
<1> SUFFICES ASSUME Shapes, ForceClose PROVE Shapes' OBVIOUS
<1>1. Held' = {} /\ book' \in [Held' -> Position] /\ cash' \in Int /\ realized' \in Int
  BY Ending
<1>2. UNCHANGED <<k, traded, bar, last, signal, candidates>> /\ phase' = "done"
      /\ equity' = cash'
  BY DEF ForceClose
<1> QED BY <1>1, <1>2 DEF Shapes

LEMMA ShapesKept == Shapes /\ [Next]_vars => Shapes'
<1>1. Shapes /\ UNCHANGED vars => Shapes' BY DEF Shapes, Held, vars
<1> QED BY <1>1, BarShapes, AdmitShapes, CloseShapes, ForceCloseShapes DEF Next

-----------------------------------------------------------------------------
(* Where the cash went *)

MoneyInv ==
  /\ cash - realized + Tied(book) = Capital
  /\ phase = "done" => Held = {} /\ equity = cash

\* Books that tie up the same, position by position, tie up the same.
LEMMA SameTied ==
  ASSUME NEW a, NEW b, DOMAIN a = DOMAIN b, \A s \in DOMAIN b : Notional(a[s]) = Notional(b[s])
  PROVE  Tied(a) = Tied(b)
<1>1. [s \in DOMAIN a |-> Notional(a[s]) + Fee] = [s \in DOMAIN b |-> Notional(b[s]) + Fee]
  OBVIOUS
<1> QED BY <1>1 DEF Tied

LEMMA NothingTied == ASSUME NEW b, DOMAIN b = {} PROVE Tied(b) = 0
<1> DEFINE f == [s \in DOMAIN b |-> Notional(b[s]) + Fee]
<1>1. f \in [{} -> Int] OBVIOUS
<1>2. SumFunction(f) = 0 BY <1>1, SumOverNone
<1> QED BY <1>2 DEF Tied

LEMMA MoneyKept == Shapes /\ MoneyInv /\ [Next]_vars => MoneyInv'
<1> SUFFICES ASSUME Shapes, MoneyInv, [Next]_vars PROVE MoneyInv' OBVIOUS
<1>1. CASE Bar
  <2>1. cash' - realized' + Tied(book') = cash - realized + Tied(book) BY <1>1, BarSettles
  <2>2. Tied(book)' = Tied(book') BY DEF Tied
  <2> QED BY <1>1, <2>1, <2>2 DEF Bar, MoneyInv
<1>2. CASE Close
  <2>1. Tied(book') = Tied(book)
    <3>1. book' \in [Held -> Position] /\ \A s \in Held : Notional(book'[s]) = Notional(book[s])
      BY <1>2, Closing
    <3> QED BY <3>1, SameTied DEF Held
  <2>2. Tied(book)' = Tied(book') BY DEF Tied
  <2> QED BY <1>2, <2>1, <2>2 DEF Close, MoneyInv
<1>3. CASE ForceClose
  <2>1. Held' = {} /\ cash' - realized' + Tied(book') = cash - realized + Tied(book)
    BY <1>3, Ending
  <2>2. Tied(book)' = Tied(book') BY DEF Tied
  <2> QED BY <1>3, <2>1, <2>2 DEF ForceClose, MoneyInv
<1>4. ASSUME NEW s \in Symbols, NEW n \in Sizes, Admit(s, n) PROVE MoneyInv'
  <2> DEFINE p == Entry(s, n)
  <2>1. phase = "admit" /\ s \in candidates /\ UNCHANGED <<phase, realized>> BY <1>4 DEF Admit
  <2>2. CASE UNCHANGED <<book, cash>>
    <3>1. Tied(book)' = Tied(book) BY <2>2 DEF Tied
    <3> QED BY <2>1, <2>2, <3>1 DEF MoneyInv
  <2>3. CASE Opens(s, p) /\ book' = With(book, s, p) /\ cash' = cash - Notional(p) - Fee
    <3>1. n \in Sizes \ {0} BY <2>3 DEF Opens, Entry
    <3>2. p \in Position BY <2>1, <3>1, Entries
    <3>3. IsBook(book) /\ s \notin Held BY <2>1 DEF IsBook, Shapes, Held
    <3> HIDE DEF p
    <3>4. Tied(book') = Tied(book) + Notional(p) + Fee BY <2>3, <3>2, <3>3, Adding
    <3>5. /\ Notional(p) \in Int /\ Fee \in Int /\ Tied(book) \in Int /\ cash \in Int
          /\ realized \in Int
      BY <3>2, <3>3, Positions, Constants, BookSums DEF Shapes
    <3>6. Tied(book)' = Tied(book') BY DEF Tied
    <3>7. cash' - realized' + Tied(book)' = Capital
      BY <2>1, <2>3, <3>4, <3>5, <3>6 DEF MoneyInv
    <3> QED BY <2>1, <3>7 DEF MoneyInv
  <2> HIDE DEF p
  <2>4. \/ UNCHANGED <<book, cash>>
        \/ Opens(s, p) /\ book' = With(book, s, p) /\ cash' = cash - Notional(p) - Fee
    BY <1>4 DEF Admit, p
  <2> QED BY <2>2, <2>3, <2>4
<1>5. CASE UNCHANGED vars
  <2>1. Tied(book)' = Tied(book) BY <1>5 DEF Tied, vars
  <2> QED BY <1>5, <2>1 DEF MoneyInv, Held, vars
<1> QED BY <1>1, <1>2, <1>3, <1>4, <1>5 DEF Next

LEMMA InitMoney == Init => MoneyInv
<1> SUFFICES ASSUME Init PROVE MoneyInv OBVIOUS
<1>1. Tied(book) = 0 BY NothingTied DEF Init
<1> QED BY <1>1, Constants DEF Init, MoneyInv

\* Cash is the capital, what the closed trades made and what the open ones tie up,
\* fees included, whatever prices, carries and exits there were; and at the end the
\* curve, the cash and the trades say the same.
THEOREM CashIsExplained == Spec => []TradesExplainCash
<1>1. Shapes /\ MoneyInv => TradesExplainCash
  <2> SUFFICES ASSUME Shapes, MoneyInv PROVE TradesExplainCash OBVIOUS
  <2>1. IsBook(book) BY DEF IsBook, Shapes, Held
  <2>2. Tied(book) \in Int /\ Capital \in Int /\ cash \in Int /\ realized \in Int
    BY <2>1, BookSums, Constants DEF Shapes
  <2>3. Tied(book) = SumFunction([s \in Held |-> Notional(book[s]) + Fee]) BY DEF Tied, Held
  <2>4. cash = Capital + realized - Tied(book) BY <2>2 DEF MoneyInv
  <2>5. ASSUME phase = "done" PROVE equity = Capital + realized
    <3>1. Tied(book) = 0 BY <2>5, NothingTied DEF MoneyInv, Held
    <3> QED BY <2>2, <2>4, <2>5, <3>1 DEF MoneyInv
  <2> QED BY <2>3, <2>4, <2>5 DEF TradesExplainCash
<1> QED BY <1>1, InitShapes, ShapesKept, InitMoney, MoneyKept, PTL DEF Spec

-----------------------------------------------------------------------------
(* The caps at the open *)

New == {s \in Held : book[s].since = k}

\* Between the open and the close the book is marked at the open, and what it is
\* worth with the cash has lost the fees of this step's entries alone.
OpenInv ==
  phase = "admit" =>
    /\ \A s \in Held \cap traded : book[s].mark = bar[s].open
    /\ equity = cash + Value(book) + Fee * Cardinality(New)

WithinCaps(b) ==
  /\ ~Over(RiskCap, OpenRisk(b)) /\ ~Over(GrossCap, Gross(b))
  /\ ~Over(NetCap, Magnitude(Net(b)))

CapInv ==
  phase = "admit" /\ New # {} => Cardinality(Held) <= MaxPositions /\ WithinCaps(book)

LEMMA BarOpens == Shapes /\ Bar => OpenInv' /\ CapInv'
<1> SUFFICES ASSUME Shapes, Bar PROVE OpenInv' /\ CapInv' OBVIOUS
<1>1. PICK out \in SUBSET Held :
        /\ book' \in [Held \ out -> Position]
        /\ \A s \in Held \ out : /\ book'[s].since = book[s].since
                                 /\ s \in traded' => book'[s].mark = bar'[s].open
        /\ cash' \in Int /\ equity' = cash' + Value(book')
  BY BarSettles
<1>2. Held' = Held \ out BY <1>1 DEF Held
<1>3. New' = {}
  <2>1. k \in Int /\ k' = k + 1 BY DEF Bar, Shapes
  <2>2. \A s \in Held : book[s] \in Position /\ book[s].since <= k BY DEF Shapes
  <2>3. \A s \in Held : book[s].since \in Int BY <2>2, Positions
  <2>4. \A s \in Held' : book'[s].since # k' BY <1>1, <1>2, <2>1, <2>2, <2>3
  <2> QED BY <2>4 DEF New
<1>4. Cardinality(New') = 0 BY <1>3, FS_EmptySet
<1>5. Value(book') \in Int
  <2>1. IsBook(book') BY <1>1, <1>2 DEF IsBook, Held, Shapes
  <2> QED BY <2>1, BookSums
<1>6. equity' = cash' + Value(book)' + Fee * Cardinality(New)'
  <2>1. Fee * 0 = 0 BY Constants
  <2>2. Value(book)' = Value(book') /\ Cardinality(New)' = Cardinality(New') BY DEF Value
  <2> QED BY <1>1, <1>4, <1>5, <2>1, <2>2
<1>7. \A s \in Held' \cap traded' : book'[s].mark = bar'[s].open BY <1>1, <1>2
<1> QED BY <1>3, <1>6, <1>7 DEF OpenInv, CapInv

LEMMA OneMore ==
  ASSUME NEW a \in Nat, NEW c \in Nat
  PROVE  a * (c + 1) = a * c + a /\ a * c \in Int
OBVIOUS

LEMMA AdmitOpens ==
  ASSUME Shapes, OpenInv, CapInv, NEW s \in Symbols, NEW n \in Sizes, Admit(s, n)
  PROVE  OpenInv' /\ CapInv'
<1> DEFINE p == Entry(s, n)
<1>1. /\ phase = "admit" /\ s \in candidates
      /\ UNCHANGED <<k, phase, traded, bar, equity>>
  BY DEF Admit
<1>2. CASE UNCHANGED <<book, cash>>
  BY <1>1, <1>2 DEF OpenInv, CapInv, WithinCaps, Over, New, Held, Value, OpenRisk, Gross, Net
<1>3. CASE /\ Opens(s, p) /\ Cardinality(Held) < MaxPositions
           /\ book' = With(book, s, p) /\ cash' = cash - Notional(p) - Fee
  <2>1. n \in Sizes \ {0} BY <1>3 DEF Opens, Entry
  <2>2. /\ p \in Position /\ p.since = k /\ p.mark = bar[s].open
        /\ Notional(p) + Gain(p, p.mark) = Notional(p)
    BY <1>1, <2>1, Entries
  <2>3. IsBook(book) /\ s \notin Held BY <1>1 DEF IsBook, Shapes, Held
  <2>4. WithinCaps(book)'
    BY <1>1, <1>3 DEF Opens, WithinCaps, Over, OpenRisk, Gross, Net
  <2> HIDE DEF p
  <2>5. /\ book' \in [Held \cup {s} -> Position] /\ book'[s] = p
        /\ \A t \in Held : book'[t] = book[t]
        /\ Value(book') = Value(book) + Notional(p) + Gain(p, p.mark)
    BY <1>3, <2>2, <2>3, Adding
  <2>6. Held' = Held \cup {s}
    <3>1. Held' = DOMAIN book' BY DEF Held
    <3> QED BY <2>5, <3>1
  <2>7. IsFiniteSet(Held) /\ Cardinality(Held) \in Nat
    BY Constants, FS_Subset, FS_CardinalityType DEF Shapes
  <2>8. Cardinality(Held') <= MaxPositions
    <3>1. Cardinality(Held') = Cardinality(Held) + 1 BY <2>3, <2>6, <2>7, FS_AddElement
    <3> QED BY <1>3, <2>7, <3>1, Constants
  <2>9. New' = New \cup {s} /\ s \notin New
    BY <1>1, <2>2, <2>3, <2>5, <2>6 DEF New
  <2>10. Cardinality(New') = Cardinality(New) + 1 /\ Cardinality(New) \in Nat
    <3>1. IsFiniteSet(New) BY <2>7, FS_Subset DEF New
    <3> QED BY <2>9, <3>1, FS_AddElement, FS_CardinalityType
  <2>11. equity' = cash' + Value(book') + Fee * Cardinality(New')
    <3>1. /\ Fee \in Nat /\ Notional(p) \in Int /\ Gain(p, p.mark) \in Int
          /\ Value(book) \in Int /\ cash \in Int
      <4>1. p.mark \in Int /\ Notional(p) \in Int BY <2>2, Positions
      <4>2. Gain(p, p.mark) \in Int BY <2>2, <4>1, Gains
      <4> QED BY <2>3, <4>1, <4>2, Constants, BookSums DEF Shapes
    <3> DEFINE c == Cardinality(New)
    <3>2. Fee * (c + 1) = Fee * c + Fee /\ Fee * c \in Int BY <2>10, <3>1, OneMore
    <3>3. equity = cash + Value(book) + Fee * c BY <1>1 DEF OpenInv
    <3>4. Cardinality(New') = c + 1 BY <2>10
    <3> HIDE DEF c
    <3> DEFINE f == Fee * c
    <3>5. f \in Int /\ Fee * (c + 1) = f + Fee /\ equity = cash + Value(book) + f BY <3>2, <3>3
    <3> HIDE DEF f
    <3>6. cash' + Value(book') + (f + Fee) = cash + Value(book) + f
      BY <1>3, <2>2, <2>5, <3>1, <3>5
    <3> QED BY <1>1, <3>4, <3>5, <3>6
  <2>12. \A t \in Held' \cap traded' : book'[t].mark = bar'[t].open
    BY <1>1, <2>2, <2>5, <2>6 DEF OpenInv
  <2>13. Value(book)' = Value(book') /\ Cardinality(New)' = Cardinality(New') BY DEF Value
  <2> QED BY <2>4, <2>8, <2>11, <2>12, <2>13 DEF OpenInv, CapInv
<1> HIDE DEF p
<1>4. \/ UNCHANGED <<book, cash>>
      \/ /\ Opens(s, p) /\ ~(Cardinality(Held) >= MaxPositions)
         /\ book' = With(book, s, p) /\ cash' = cash - Notional(p) - Fee
  BY DEF Admit, p
<1>5. Cardinality(Held) \in Nat /\ MaxPositions \in Nat
  BY Constants, FS_Subset, FS_CardinalityType DEF Shapes
<1> QED BY <1>2, <1>3, <1>4, <1>5

LEMMA CapsKept == Shapes /\ OpenInv /\ CapInv /\ [Next]_vars => OpenInv' /\ CapInv'
<1> SUFFICES ASSUME Shapes, OpenInv, CapInv, [Next]_vars PROVE OpenInv' /\ CapInv' OBVIOUS
<1>1. CASE Close \/ ForceClose BY <1>1 DEF Close, ForceClose, OpenInv, CapInv
<1>2. CASE UNCHANGED vars
  BY <1>2 DEF vars, OpenInv, CapInv, WithinCaps, Over, New, Held, Value, OpenRisk, Gross, Net
<1> QED BY <1>1, <1>2, BarOpens, AdmitOpens DEF Next

\* Marking at the open a book that is marked at the open changes nothing.
LEMMA MarkedAtOpen ==
  ASSUME Shapes, OpenInv, phase = "admit"
  PROVE  Marked(book, Opening) = book
<1>1. book \in [Held -> Position] /\ DOMAIN Opening = traded /\ Held = DOMAIN book
  BY DEF Shapes, Opening, Held
<1>2. ASSUME NEW s \in Held \cap traded PROVE [book[s] EXCEPT !.mark = Opening[s]] = book[s]
  <2>1. Opening[s] = book[s].mark BY <1>2 DEF OpenInv, Opening
  <2>2. book[s] \in Position BY <1>1
  <2> QED BY <2>1, <2>2 DEF Position
<1>3. Marked(book, Opening)
        = [s \in Held |-> IF s \in traded THEN [book[s] EXCEPT !.mark = Opening[s]] ELSE book[s]]
  BY <1>1 DEF Marked
<1> QED BY <1>1, <1>2, <1>3

LEMMA NotOver ==
  ASSUME NEW cap \in Nat, NEW exposure \in Int, equity \in Int, ~Over(cap, exposure)
  PROVE  cap > 0 => 100 * exposure <= equity * cap
BY DEF Over

\* Whatever a step admitted, in whatever order the strategy preferred, left the book
\* within the position limit and every cap, at the prices and the worth of the open.
THEOREM CapsHold == Spec => []CapsHoldAtOpen
<1>1. Shapes /\ OpenInv /\ CapInv => CapsHoldAtOpen
  <2> SUFFICES ASSUME Shapes, OpenInv, CapInv, phase = "admit", New # {} PROVE CapsHoldAtOpen
    BY DEF CapsHoldAtOpen, New
  <2> DEFINE worth == cash + Value(book) + Fee * Cardinality(New)
  <2>1. Marked(book, Opening) = book BY MarkedAtOpen
  <2>2. equity = worth BY DEF OpenInv
  <2>3. IsBook(book) BY DEF IsBook, Shapes, Held
  <2>4. OpenRisk(book) \in Int /\ Gross(book) \in Int /\ Net(book) \in Int
    BY <2>3, BookSums
  <2>5. Magnitude(Net(book)) \in Int BY <2>4 DEF Magnitude
  <2>6. equity \in Int BY DEF Shapes
  <2>7. /\ Cardinality(Held) <= MaxPositions
        /\ RiskCap > 0 => 100 * OpenRisk(book) <= equity * RiskCap
        /\ GrossCap > 0 => 100 * Gross(book) <= equity * GrossCap
        /\ NetCap > 0 => 100 * Magnitude(Net(book)) <= equity * NetCap
    BY <2>4, <2>5, <2>6, Constants, NotOver DEF CapInv, WithinCaps
  <2> QED BY <2>1, <2>2, <2>7 DEF CapsHoldAtOpen, New
<1>2. Init => OpenInv /\ CapInv BY DEF Init, OpenInv, CapInv
<1> QED BY <1>1, <1>2, InitShapes, ShapesKept, CapsKept, PTL DEF Spec

-----------------------------------------------------------------------------
(* Cash that is never negative *)

\* Stops no further than half the price, and no notional too small to pay, out of the
\* other half, its exit and as long a borrow as a replay can have.
CostsCovered == Parts >= 2 /\ 2 * (Fee + Borrow * (Steps - 1)) <= MinNotional

\* Every open position was worth opening, and an engine that is not done has not
\* spent what it has not got.
CashInv ==
  /\ \A s \in Held : Notional(book[s]) >= MinNotional
  /\ phase # "done" => cash >= 0

LEMMA Quotient ==
  ASSUME NEW a \in Nat, NEW b \in Nat \ {0}
  PROVE  a \div b \in Nat /\ b * (a \div b) <= a
<1>1. a = (b * (a \div b)) + (a % b) /\ a % b \in 0..(b - 1) OBVIOUS
<1>2. a \div b \in Nat OBVIOUS
<1> QED BY <1>1, <1>2

LEMMA Distance ==
  ASSUME NEW p \in Position, CostsCovered
  PROVE  p.entry \div Parts \in Nat /\ 2 * (p.entry \div Parts) <= p.entry
<1> DEFINE q == p.entry \div Parts
<1>1. p.entry \in Nat /\ Parts \in Nat \ {0} /\ Parts >= 2
  BY Positions, Constants DEF CostsCovered
<1>2. q \in Nat /\ Parts * q <= p.entry BY <1>1, Quotient
<1> HIDE DEF q
<1>3. 2 * q <= Parts * q BY <1>1, <1>2
<1>4. Parts * q \in Nat BY <1>1, <1>2
<1> QED BY <1>1, <1>2, <1>3, <1>4 DEF q

\* However a position is closed within a step, its price is no further against it than
\* its stop: a bar that has not reached the stop opened short of it.
LEMMA ExitBound ==
  ASSUME NEW p \in Position, NEW b \in Bars, CostsCovered
  PROVE  (ExitPrice(p, b) - p.entry) * Direction(p) >= -(p.entry \div Parts)
<1> DEFINE q == p.entry \div Parts
<1>1. p.entry \in Nat /\ q \in Nat BY Positions, Distance
<1>2. /\ b.open \in Nat /\ b.low \in Nat /\ b.high \in Nat
      /\ b.low <= b.open /\ b.open <= b.high
  BY Constants, BacktestAssumption DEF BacktestAssumption, Quote
<1>3. p.side \in EntrySignals BY DEF Position
<1>4. CASE p.side = "BUY"
  <2>1. Direction(p) = 1 BY <1>4 DEF Direction
  <2>2. StopOf(p) = p.entry - q /\ TakeOf(p) = p.entry + q
    BY <1>1, <2>1 DEF StopOf, TakeOf
  <2>3. ExitPrice(p, b) >= p.entry - q /\ ExitPrice(p, b) \in Int
    <3> HIDE DEF q
    <3> QED BY <1>1, <1>2, <1>4, <2>2 DEF ExitPrice, StopHit, TakeHit
  <2> HIDE DEF q
  <2> QED BY <1>1, <2>1, <2>3 DEF q
<1>5. CASE p.side = "SELL"
  <2>1. Direction(p) = -1 BY <1>5 DEF Direction
  <2>2. StopOf(p) = p.entry + q /\ TakeOf(p) = p.entry - q
    BY <1>1, <2>1 DEF StopOf, TakeOf
  <2>3. ExitPrice(p, b) <= p.entry + q /\ ExitPrice(p, b) \in Int
    <3> HIDE DEF q
    <3> QED BY <1>1, <1>2, <1>5, <2>2 DEF ExitPrice, StopHit, TakeHit
  <2> HIDE DEF q
  <2> QED BY <1>1, <2>1, <2>3 DEF q
<1> QED BY <1>3, <1>4, <1>5 DEF EntrySignals

LEMMA HalfLeft ==
  ASSUME NEW size \in Nat, NEW entry \in Nat, NEW gain \in Int, entry + 2 * gain >= 0
  PROVE  2 * (size * entry + gain * size) >= size * entry
<1> DEFINE rest == entry + 2 * gain
<1>1. rest \in Nat OBVIOUS
<1>2. size * rest \in Nat BY <1>1
<1>3. size * rest = size * entry + 2 * (gain * size) OBVIOUS
<1>4. size * entry \in Int /\ gain * size \in Int OBVIOUS
<1> HIDE DEF rest
<1> QED BY <1>2, <1>3, <1>4

LEMMA Scaled == ASSUME NEW x \in Int, NEW y \in Int, NEW z \in Int PROVE (x * y) * z = (x * z) * y
OBVIOUS

LEMMA CarryBound ==
  ASSUME NEW p \in Position, NEW step \in 1..Steps
  PROVE  Carry(p, step) <= Borrow * (Steps - 1) /\ Carry(p, step) \in Int
<1>1. p.since \in 1..Steps /\ Borrow \in Nat /\ Steps \in Nat BY Positions, Constants
<1> DEFINE held == step - p.since
<1>2. held \in Int /\ held <= Steps - 1 BY <1>1
<1> HIDE DEF held
<1>3. Borrow * held <= Borrow * (Steps - 1) /\ Borrow * held \in Int BY <1>1, <1>2
<1>4. Borrow * (Steps - 1) >= 0 BY <1>1, <1>2, Constants
<1> QED BY <1>3, <1>4 DEF Carry, held

\* What closing a position brings back covers its costs.
LEMMA ExitPays ==
  ASSUME NEW p \in Position, NEW b \in Bars, NEW step \in 1..Steps, CostsCovered,
         Notional(p) >= MinNotional
  PROVE  CashBack(p, ExitPrice(p, b), Fee + Carry(p, step)) \in Nat
<1> DEFINE price == ExitPrice(p, b)
           gain  == (price - p.entry) * Direction(p)
           cost  == Fee + Carry(p, step)
<1>1. /\ p.entry \in Nat /\ p.size \in Nat /\ Direction(p) \in {1, -1} /\ Fee \in Nat
      /\ MinNotional \in Nat
  BY Positions, Constants
<1>2. price \in Int
  <2>1. b \in Quote BY Constants
  <2> QED BY <2>1, ExitPrices
<1>3. gain \in Int BY <1>1, <1>2
<1>4. p.entry + 2 * gain >= 0
  <2>1. gain >= -(p.entry \div Parts) BY ExitBound
  <2>2. p.entry \div Parts \in Nat /\ 2 * (p.entry \div Parts) <= p.entry BY Distance
  <2> HIDE DEF gain
  <2> QED BY <1>1, <1>3, <2>1, <2>2
<1>5. Gain(p, price) = gain * p.size
  <2>1. price - p.entry \in Int BY <1>1, <1>2
  <2>2. Direction(p) \in Int /\ p.size \in Int BY <1>1
  <2> QED BY <2>1, <2>2, Scaled DEF Gain
<1>6. cost \in Int /\ 2 * cost <= MinNotional
  <2>1. Carry(p, step) <= Borrow * (Steps - 1) /\ Carry(p, step) \in Int BY CarryBound
  <2>2. 2 * (Fee + Borrow * (Steps - 1)) <= MinNotional BY DEF CostsCovered
  <2>3. Borrow * (Steps - 1) \in Int BY Constants
  <2> QED BY <1>1, <2>1, <2>2, <2>3
<1> HIDE DEF gain, cost, price
<1>7. 2 * (p.size * p.entry + gain * p.size) >= p.size * p.entry
  BY <1>1, <1>3, <1>4, HalfLeft
<1>8. Notional(p) = p.size * p.entry BY DEF Notional
<1>9. Notional(p) \in Nat /\ gain * p.size \in Int BY <1>1, <1>3, Positions
<1>10. CashBack(p, price, cost) = Notional(p) + gain * p.size - cost BY <1>5 DEF CashBack
<1>11. CashBack(p, price, cost) \in Int /\ 2 * CashBack(p, price, cost) >= 0
  <2> DEFINE x == gain * p.size
             n == Notional(p)
  <2>1. x \in Int /\ n \in Nat /\ 2 * (n + x) >= n /\ n >= MinNotional BY <1>7, <1>8, <1>9
  <2>2. CashBack(p, price, cost) = n + x - cost BY <1>10
  <2> HIDE DEF x, n
  <2> QED BY <1>1, <1>6, <2>1, <2>2
<1> QED BY <1>11 DEF cost, price

\* A step's exits add to the cash.
LEMMA BarPays ==
  ASSUME Shapes, CashInv, CostsCovered, Bar
  PROVE  cash' >= cash
<1> DEFINE out  == {s \in Held \cap traded' : Exits(book[s], bar'[s], signal[s])}
           back == [s \in out |-> CashBack(book[s], ExitPrice(book[s], bar'[s]),
                                           Fee + Carry(book[s], k'))]
<1>1. cash' = cash + SumFunction(back) BY DEF Bar, Settle
<1>2. PICK new \in [traded' -> Bars] :
        bar' = [s \in Symbols |-> IF s \in traded' THEN new[s] ELSE bar[s]]
  BY DEF Bar
<1>3. \A s \in traded' : bar'[s] \in Bars
  <2>1. traded' \subseteq Symbols BY DEF Bar
  <2> QED BY <1>2, <2>1
<1>4. k' \in 1..Steps
  <2>1. k \in 0..Steps /\ k' = k + 1 /\ k < Steps BY DEF Bar, Shapes
  <2> QED BY <2>1, Constants
<1>5. \A s \in Held : book[s] \in Position /\ Notional(book[s]) >= MinNotional
  BY DEF Shapes, CashInv
<1>6. \A s \in out : CashBack(book[s], ExitPrice(book[s], bar'[s]), Fee + Carry(book[s], k')) \in Nat
  BY <1>3, <1>4, <1>5, ExitPays
<1>7. back \in [out -> Nat] BY <1>6
<1>8. IsFiniteSet(out)
  <2>1. out \subseteq Symbols BY DEF Shapes
  <2> QED BY <2>1, Constants, FS_Subset
<1> HIDE DEF back, out
<1>9. SumFunction(back) \in Nat BY <1>7, <1>8, SumNatural
<1> QED BY <1>1, <1>9 DEF Shapes

LEMMA CashKept == CostsCovered /\ Shapes /\ CashInv /\ [Next]_vars => CashInv'
<1> SUFFICES ASSUME CostsCovered, Shapes, CashInv, [Next]_vars PROVE CashInv' OBVIOUS
<1>1. CASE Bar
  <2>1. PICK out \in SUBSET Held :
          /\ book' \in [Held \ out -> Position] /\ cash' \in Int
          /\ \A s \in Held \ out : Notional(book'[s]) = Notional(book[s])
    BY <1>1, BarSettles
  <2>2. Held' = Held \ out BY <2>1 DEF Held
  <2>3. cash >= 0 /\ cash \in Int /\ cash' >= cash
    BY <1>1, BarPays DEF CashInv, Shapes, Bar
  <2>4. cash' \in Int BY <2>1
  <2>5. cash' >= 0 BY <2>3, <2>4
  <2> QED BY <2>1, <2>2, <2>5 DEF CashInv
<1>2. CASE Close
  <2>1. Held' = Held /\ \A s \in Held : Notional(book'[s]) = Notional(book[s]) BY <1>2, Closing
  <2>2. phase # "done" /\ cash' = cash BY <1>2 DEF Close
  <2> QED BY <2>1, <2>2 DEF CashInv
<1>3. CASE ForceClose
  <2>1. Held' = {} /\ phase' = "done" BY <1>3, Ending DEF ForceClose
  <2> QED BY <2>1 DEF CashInv
<1>4. ASSUME NEW s \in Symbols, NEW n \in Sizes, Admit(s, n) PROVE CashInv'
  <2> DEFINE p == Entry(s, n)
  <2>1. phase = "admit" /\ s \in candidates /\ UNCHANGED phase BY <1>4 DEF Admit
  <2>2. CASE UNCHANGED <<book, cash>> BY <2>1, <2>2 DEF CashInv, Held
  <2>3. CASE Opens(s, p) /\ book' = With(book, s, p) /\ cash' = cash - Notional(p) - Fee
    <3>1. n \in Sizes \ {0} /\ Notional(p) >= MinNotional /\ Notional(p) + Fee <= cash
      BY <2>3 DEF Opens, Entry, Affordable
    <3>2. p \in Position BY <2>1, <3>1, Entries
    <3>3. IsBook(book) /\ s \notin Held BY <2>1 DEF IsBook, Shapes, Held
    <3> HIDE DEF p
    <3>4. /\ book' \in [Held \cup {s} -> Position] /\ book'[s] = p
          /\ \A t \in Held : book'[t] = book[t]
      BY <2>3, <3>2, <3>3, Adding
    <3>5. Held' = Held \cup {s}
      <4>1. Held' = DOMAIN book' BY DEF Held
      <4> QED BY <3>4, <4>1
    <3>6. cash' >= 0
      <4>1. Notional(p) \in Int /\ Fee \in Int /\ cash \in Int
        BY <3>2, Positions, Constants DEF Shapes
      <4> QED BY <2>3, <3>1, <4>1
    <3> QED BY <3>1, <3>4, <3>5, <3>6 DEF CashInv
  <2> HIDE DEF p
  <2>4. \/ UNCHANGED <<book, cash>>
        \/ Opens(s, p) /\ book' = With(book, s, p) /\ cash' = cash - Notional(p) - Fee
    BY <1>4 DEF Admit, p
  <2> QED BY <2>2, <2>3, <2>4
<1>5. CASE UNCHANGED vars BY <1>5 DEF CashInv, Held, vars
<1> QED BY <1>1, <1>2, <1>3, <1>4, <1>5 DEF Next

\* The types, of which one is a promise: as long as a position's costs are less than
\* the half of it that its stop leaves, the engine never runs on cash it has not got.
\* Without that, borrow and fees alone can take the cash below zero.
THEOREM TypeCorrect == ASSUME CostsCovered PROVE Spec => []TypeOK
<1>1. Shapes /\ CashInv => TypeOK
  <2> SUFFICES ASSUME Shapes, CashInv PROVE TypeOK OBVIOUS
  <2>1. IF phase = "done" THEN cash \in Int ELSE cash \in Nat BY DEF Shapes, CashInv
  <2>2. \A s \in Held : book[s] \in Position BY DEF Shapes
  <2> QED BY <2>1, <2>2 DEF Shapes, TypeOK
<1>2. Init => CashInv
  <2> SUFFICES ASSUME Init PROVE CashInv OBVIOUS
  <2>1. Held = {} BY DEF Init, Held
  <2> QED BY <2>1, Constants DEF Init, CashInv
<1>3. CostsCovered OBVIOUS
<1>4. Shapes /\ CashInv /\ [Next]_vars => CashInv' BY <1>3, CashKept
<1> QED BY <1>1, <1>2, <1>4, InitShapes, ShapesKept, PTL DEF Spec
=============================================================================
