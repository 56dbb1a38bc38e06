---------------------------- MODULE PositionLedger ----------------------------
(***************************************************************************)
(* The append-only position ledger as it is written during trading.        *)
(*                                                                         *)
(* The venue works orders and reports each one's running total.  A report  *)
(* may be missed (the next one carries the larger total) or repeated.  A   *)
(* restarted process adopts what the broker holds.  Faults adds what a run *)
(* lets go wrong: "stale", an older report arrives after a newer one or    *)
(* after the position it built was adopted; "midorder", a restart or a     *)
(* flatten falls between two fills of one order; "torn", the process dies  *)
(* inside a line.                                                          *)
(* Orders are the units of work: their symbol, side and size are           *)
(* constants, and the venue's position is the sum of what they have done.  *)
(***************************************************************************)
EXTENDS LedgerReplay, FiniteSets

CONSTANTS
  Symbols, Orders,
  SymbolOf,          \* [Orders -> Symbols]
  SignOf,            \* [Orders -> {1, -1}]
  SizeOf,            \* [Orders -> positive]
  BasisOf,           \* [Orders -> Bases]: what the writer's fills measure
  Faults,            \* subset of {"stale", "midorder", "torn"}
  MaxLog             \* bound on the records of the file

ASSUME LedgerAssumption ==
  /\ IsFiniteSet(Symbols) /\ IsFiniteSet(Orders)
  /\ SymbolOf \in [Orders -> Symbols]
  /\ SignOf \in [Orders -> {1, -1}]
  /\ SizeOf \in [Orders -> Nat \ {0}]
  /\ BasisOf \in [Orders -> Bases]
  /\ Faults \subseteq {"stale", "midorder", "torn"}
  /\ MaxLog \in Nat

VARIABLES
  log,       \* the file, one record per line
  ledger,    \* its fold
  done,      \* what each order has filled at the venue
  told,      \* the running total of the last report that reached the engine
  settled,   \* how much of it the last adoption or flatten of its symbol covers
  touched    \* the symbols a fault has hit since they were last settled

vars == <<log, ledger, done, told, settled, touched>>

OrdersOf(s) == {o \in Orders : SymbolOf[o] = s}

Position(s) == SumFunction([o \in OrdersOf(s) |-> SignOf[o] * done[o]])

ExpectedOf(s) == Expected(ledger, s, OrdersOf(s))

TypeOK ==
  /\ DOMAIN log = 1..Len(log) /\ Len(log) <= MaxLog
  /\ ledger \in [base : [Symbols -> Int], live : [Orders -> Int]]
  /\ done \in [Orders -> Nat] /\ \A o \in Orders : done[o] <= SizeOf[o]
  /\ told \in [Orders -> Nat] /\ \A o \in Orders : told[o] <= done[o]
  /\ settled \in [Orders -> Nat] /\ \A o \in Orders : settled[o] <= told[o]
  /\ touched \subseteq Symbols

Init ==
  /\ log = <<>>
  /\ ledger = EmptyLedger(Symbols, Orders)
  /\ done = [o \in Orders |-> 0]
  /\ told = [o \in Orders |-> 0]
  /\ settled = [o \in Orders |-> 0]
  /\ touched = {}

-----------------------------------------------------------------------------
\* A ledger after some records, each counted among the orders of its symbol.
Folded(before, records) ==
  LET after[i \in 0..Len(records)] ==
        IF i = 0 THEN before ELSE Apply(after[i - 1], records[i], OrdersOf(records[i].symbol))
  IN  after[Len(records)]

\* _append, called once per record: whole lines, in call order.
AppendAll(records) ==
  /\ Len(log) + Len(records) <= MaxLog
  /\ log' = AfterAppend(log, records)
  /\ ledger' = Folded(ledger, Legible(log, records))

\* The symbol whose record lands on a torn line and is lost with it.
Lost(records) == IF EndsTorn(log) THEN {Head(records).symbol} ELSE {}

\* A symbol's expectation is set from outside its fills; reports still to come of
\* what it covers are gone with the process, or never concerned this file.
Settle(symbols) ==
  LET covered == UNION {OrdersOf(s) : s \in symbols}
  IN  /\ told' = [o \in Orders |-> IF o \in covered THEN done[o] ELSE told[o]]
      /\ settled' = [o \in Orders |-> IF o \in covered THEN done[o] ELSE settled[o]]

\* The venue fills part of an order.
VenueFills(o, total) ==
  /\ total \in done[o] + 1..SizeOf[o]
  /\ done' = [done EXCEPT ![o] = total]
  /\ UNCHANGED <<log, ledger, told, settled, touched>>

\* record_fill with what the report measures: the running total, or the shares
\* since the last report.
FillOf(o, total) ==
  LET shares == IF BasisOf[o] = "incremental" THEN total - told[o] ELSE total
  IN  FillRecord(o, SymbolOf[o], SignOf[o] * shares, BasisOf[o])

RecordFill(o, total) == AppendAll(<<FillOf(o, total)>>)

\* A trade update reaches the engine; reports between may have been missed.
ReportFill(o, total) ==
  /\ total \in told[o] + 1..done[o]
  /\ BasisOf[o] = "incremental" => total = told[o] + 1
  /\ RecordFill(o, total)
  /\ told' = [told EXCEPT ![o] = total]
  /\ touched' = touched \cup Lost(<<FillOf(o, total)>>)
  /\ UNCHANGED <<done, settled>>

\* The same update again; with stale reports, any it ever sent.
RepeatFill(o, total) ==
  /\ BasisOf[o] = "cumulative"
  /\ total \in 1..told[o]
  /\ LET stale == total < told[o] \/ settled[o] > 0
     IN  /\ stale => "stale" \in Faults
         /\ touched' = touched \cup (IF stale THEN {SymbolOf[o]} ELSE {}) \cup Lost(<<FillOf(o, total)>>)
  /\ RecordFill(o, total)
  /\ UNCHANGED <<done, told, settled>>

Midway(o) == done[o] \notin {0, SizeOf[o]}

\* One record per symbol of a set, in any order: the book's or the sorted one.
Orderings(symbols) ==
  {q \in [1..Cardinality(symbols) -> symbols] : \A s \in symbols : \E i \in DOMAIN q : q[i] = s}

\* Start-up adopts every held position as a baseline.
Adopt ==
  LET held   == {s \in Symbols : Position(s) # 0}
      midway == {s \in held : \E o \in OrdersOf(s) : Midway(o)}
  IN  /\ held # {}
      /\ midway # {} => "midorder" \in Faults
      /\ \E q \in Orderings(held) :
           LET records == [i \in DOMAIN q |-> AdoptRecord(q[i], Position(q[i]))]
           IN  AppendAll(records) /\ touched' = (touched \ held) \cup midway \cup Lost(records)
      /\ Settle(held)
      /\ UNCHANGED done

\* An operator's flatten that observed an empty account, whatever still rests at
\* the venue: every symbol this ledger still expects is recorded as closed.
RecordFlatten ==
  LET expected == {s \in Symbols : ExpectedOf(s) # 0}
      midway   == {s \in expected : \E o \in OrdersOf(s) : Midway(o)}
  IN  /\ expected # {}
      /\ \A s \in Symbols : Position(s) = 0
      /\ midway # {} => "midorder" \in Faults
      /\ \E q \in Orderings(expected) :
           LET records == [i \in DOMAIN q |-> FlattenRecord(q[i])]
           IN  AppendAll(records) /\ touched' = (touched \ expected) \cup midway \cup Lost(records)
      /\ Settle(expected)
      /\ UNCHANGED done

\* Killed in the middle of a line.
TornWrite ==
  /\ "torn" \in Faults
  /\ ~EndsTorn(log)
  /\ Len(log) < MaxLog
  /\ log' = Append(log, TornLine)
  /\ UNCHANGED <<ledger, done, told, settled, touched>>

Next ==
  \/ \E o \in Orders : \E total \in 1..SizeOf[o] :
       VenueFills(o, total) \/ ReportFill(o, total) \/ RepeatFill(o, total)
  \/ Adopt
  \/ RecordFlatten
  \/ TornWrite

Spec == Init /\ [][Next]_vars

-----------------------------------------------------------------------------
\* The fold the trade-clock modules carry says of every symbol what a full
\* replay of the file says.
FoldIsReplay ==
  \A s \in Symbols : ExpectedOf(s) = Replay(log, s)

\* What the replay expects of some symbols disagrees with what the broker holds.
DriftIn(symbols) ==
  Reconcile(symbols, [s \in Symbols |-> Replay(log, s)], [s \in Symbols |-> Position(s)])

\* Once the engine has been told the running total of every order, the replay is
\* the broker's position and a reconciliation is clean.  The code does not keep this:
\* an adoption between two fills of one order counts the first twice (ledger.py:581).
ReconcilesWhenTold == told = done => DriftIn(Symbols) = {}

\* ... for every symbol no fault has hit: missed partials, repeated reports,
\* flattens and restarts between orders cost nothing, a fault stays in the symbol
\* it hit, and the next adoption or flatten of the symbol undoes it.
UntouchedReconcile == told = done => DriftIn(Symbols \ touched) = {}

\* The lifecycle report and the replay agree: what the orders of a symbol are
\* reported to have filled is what the replay holds, while nothing has reset it.
LifecycleAgreesWithReplay ==
  \A s \in Symbols :
    LastReset(log, s) = 0 =>
      SumFunction([o \in OrdersOf(s) |-> FilledQuantity(log, o)]) = Replay(log, s)

\* A report that was already recorded, arriving again before anything newer,
\* moves nothing.
RepeatsMoveNothing ==
  [][\A o \in Orders : \A total \in 1..SizeOf[o] :
       RepeatFill(o, total) /\ SymbolOf[o] \notin touched' => ledger' = ledger]_vars

\* A kill inside a line costs the entry that was being written and no other: a
\* report recorded whole can be read back.  The code does not keep this: the next
\* record lands on the torn line (ledger.py:499).
ReportsStayReadable ==
  [][\A o \in Orders : \A total \in 1..SizeOf[o] :
       ReportFill(o, total) => Len(Readable(log')) = Len(Readable(log)) + 1]_vars
=============================================================================
