----------------------------- MODULE LedgerReplay -----------------------------
(***************************************************************************)
(* The arithmetic of the position ledger, twice.                           *)
(*                                                                         *)
(* Replay reads the append-only file the way PositionLedger._replay does:  *)
(* the last close, flatten or adoption of a symbol discards what came      *)
(* before it, and of an order's cumulative fills only the last one counts. *)
(* Apply folds one record at a time into a small state with the same       *)
(* expectation; the trade-clock modules carry that state instead of the    *)
(* file.  PositionLedger checks that the two agree on every reachable file.*)
(*                                                                         *)
(* Quantities are signed: the side of a fill or an adoption is its sign.   *)
(***************************************************************************)
EXTENDS Integers, Sequences, Functions

Bases  == {"cumulative", "incremental", "none"}
Resets == {"close", "flattened", "adopt"}

FillRecord(order, symbol, qty, basis) ==
  [event |-> "fill", order |-> order, symbol |-> symbol, qty |-> qty, basis |-> basis]
CloseRecord(symbol)      == [event |-> "close", symbol |-> symbol]
FlattenRecord(symbol)    == [event |-> "flattened", symbol |-> symbol]
AdoptRecord(symbol, qty) == [event |-> "adopt", symbol |-> symbol, qty |-> qty]

\* What a writer killed mid-line leaves (no newline yet), and that line once the
\* next record has been appended to it.
TornLine   == [event |-> "torn"]
GarbledLine == [event |-> "garbled"]
Unreadable(record) == record \in {TornLine, GarbledLine}

\* The file ends without a newline: the next record lands on the same line.
EndsTorn(log) == log # <<>> /\ log[Len(log)] = TornLine

AfterAppend(log, records) ==
  IF records = <<>> \/ ~EndsTorn(log) THEN log \o records
  ELSE [log EXCEPT ![Len(log)] = GarbledLine] \o Tail(records)

\* What of the records a reader will see.
Legible(log, records) ==
  IF records = <<>> \/ ~EndsTorn(log) THEN records ELSE Tail(records)

-----------------------------------------------------------------------------
(* Reading the file *)

\* _read: lines that do not parse are skipped.
Readable(log) == SelectSeq(log, LAMBDA record : ~Unreadable(record))

IsReset(record, symbol) == record.event \in Resets /\ record.symbol = symbol

\* Mutant of LastReset: an adoption does not reset.
LastZeroing(log, symbol) ==
  LET Zeroes(i) == IsReset(log[i], symbol) /\ log[i].event # "adopt"
  IN  CHOOSE i \in 0..Len(log) : (i # 0 => Zeroes(i)) /\ \A j \in i + 1..Len(log) : ~Zeroes(j)

LastReset(log, symbol) ==
  CHOOSE i \in 0..Len(log) :
    /\ i # 0 => IsReset(log[i], symbol)
    /\ \A j \in i + 1..Len(log) : ~IsReset(log[j], symbol)

Baseline(log, symbol) ==
  LET at == LastReset(log, symbol)
  IN  IF at # 0 /\ log[at].event = "adopt" THEN log[at].qty ELSE 0

\* Mutant of Superseded: every report counts.
NeverSuperseded(log, i) == FALSE

\* A later report of the same order replaces an earlier one; any other fill
\* stands alone.
Superseded(log, i) ==
  /\ log[i].basis = "cumulative"
  /\ \E j \in i + 1..Len(log) :
       /\ log[j].event = "fill"
       /\ log[j].basis = "cumulative"
       /\ log[j].order = log[i].order

StandingFills(log, symbol) ==
  {i \in LastReset(log, symbol) + 1..Len(log) :
     /\ log[i].event = "fill"
     /\ log[i].symbol = symbol
     /\ ~Superseded(log, i)}

Replay(log, symbol) ==
  Baseline(log, symbol) + SumFunction([i \in StandingFills(log, symbol) |-> log[i].qty])

FillsOf(log, order) ==
  {i \in DOMAIN log : log[i].event = "fill" /\ log[i].order = order}

\* Mutant of FilledQuantity: cumulative reports are summed.
SumOfReports(log, order) == SumFunction([i \in FillsOf(log, order) |-> log[i].qty])

\* filled_quantity: one order's fills, in the order they were recorded.  The
\* last report without the incremental basis restarts the sum.
FilledQuantity(log, order) ==
  LET fills    == FillsOf(log, order)
      reports  == {i \in fills : log[i].basis # "incremental"}
      standing == {i \in fills : \A j \in reports : j <= i}
  IN  SumFunction([i \in standing |-> log[i].qty])

-----------------------------------------------------------------------------
(* The folded ledger: base[s] is what is settled for a symbol, live[o] the   *)
(* last cumulative report of an order since the last reset of its symbol.    *)

EmptyLedger(Symbols, Orders) ==
  [base |-> [s \in Symbols |-> 0], live |-> [o \in Orders |-> 0]]

\* Mutant of Rebase: a zeroed symbol leaves the ledger for good.
RebaseByDropping(ledger, symbol, qty, ordersOf) ==
  [base |-> [s \in {t \in DOMAIN ledger.base : t # symbol \/ qty # 0} |->
               IF s = symbol THEN qty ELSE ledger.base[s]],
   live |-> [o \in DOMAIN ledger.live |-> IF o \in ordersOf THEN 0 ELSE ledger.live[o]]]

\* Zero or rebase a symbol: what its orders reported before no longer counts.
Rebase(ledger, symbol, qty, ordersOf) ==
  [base |-> [ledger.base EXCEPT ![symbol] = qty],
   live |-> [o \in DOMAIN ledger.live |-> IF o \in ordersOf THEN 0 ELSE ledger.live[o]]]

\* Mutant of Apply: a running total is added to what stands.
ApplyAdding(ledger, record, ordersOf) ==
  CASE record.event \in {"close", "flattened"} -> Rebase(ledger, record.symbol, 0, ordersOf)
    [] record.event = "adopt"                  -> Rebase(ledger, record.symbol, record.qty, ordersOf)
    [] record.event = "fill"                   -> [ledger EXCEPT !.base[record.symbol] = @ + record.qty]
    [] OTHER                                   -> ledger

Apply(ledger, record, ordersOf) ==
  CASE record.event \in {"close", "flattened"} -> Rebase(ledger, record.symbol, 0, ordersOf)
    [] record.event = "adopt"                  -> Rebase(ledger, record.symbol, record.qty, ordersOf)
    [] record.event = "fill" /\ record.basis = "cumulative" ->
         [ledger EXCEPT !.live[record.order] = record.qty]
    [] record.event = "fill" /\ record.basis # "cumulative" ->
         [ledger EXCEPT !.base[record.symbol] = @ + record.qty]
    [] OTHER -> ledger

Expected(ledger, symbol, ordersOf) ==
  ledger.base[symbol] + SumFunction([o \in ordersOf |-> ledger.live[o]])

-----------------------------------------------------------------------------
(* Reconciliation: one finding per symbol the two sides disagree about *)

Divergence(expected, actual) ==
  CASE expected = actual                   -> "none"
    [] actual = 0 /\ expected # actual     -> "missing"
    [] expected = 0 /\ expected # actual   -> "unexpected"
    [] OTHER                               -> "quantity_drift"

Reconcile(Symbols, expected, actual) ==
  {[symbol |-> s, kind |-> Divergence(expected[s], actual[s])] :
     s \in {t \in Symbols : Divergence(expected[t], actual[t]) # "none"}}
=============================================================================
