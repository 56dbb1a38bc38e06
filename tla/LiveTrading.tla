----------------------------- MODULE LiveTrading -----------------------------
(***************************************************************************)
(* The trade clock: LiveEngine routing bars to one Strategy and one        *)
(* LiveTrader, the venue they trade at, the operator's halt switch, and    *)
(* the restarts that lose everything but the venue, the halt file and the  *)
(* ledger file.                                                            *)
(*                                                                         *)
(* One handler per symbol runs the bar callback; every blocking call of    *)
(* handle_signal is a step of its own, so the venue, the operator, the     *)
(* trade-update stream and the other symbols' handlers act in between.     *)
(* The order lock is a FIFO of the tasks that hold (the head) or await it. *)
(*                                                                         *)
(* Quantities are signed shares at one price; a book entry of 0 is a       *)
(* symbol the book does not have.                                          *)
(***************************************************************************)
EXTENDS Signals, LedgerReplay, FiniteSets

CONSTANTS
  Symbols,
  Updater,           \* the trade-update task
  Size,              \* shares of an entry
  MaxPositions,      \* position_limits.max_positions
  MaxGross,          \* max_gross_exposure, in shares
  MaxNet,            \* max_net_exposure, in shares
  Offered,           \* the signals the strategy may emit
  WithLedger,        \* FALSE is --no-ledger
  Faults,            \* which faults a run lets happen, and
  MaxFaults,         \* how many
  MaxBars,           \* bound on the bars per symbol that carry an entry
  MaxOrders          \* bound on the entries and closes placed per symbol

\* "read" is a handler's own read failing, "sync" that of a sweep, a refresh or a
\* cold start.
FaultKinds ==
  {"read", "sync", "decline", "refuse", "timeout", "cancel", "lost", "crash", "flatten"}

ASSUME TradingAssumption ==
  /\ IsFiniteSet(Symbols) /\ Updater \notin Symbols
  /\ Size \in Nat \ {0}
  /\ MaxPositions \in Nat /\ MaxGross \in Nat /\ MaxNet \in Nat
  /\ Offered \subseteq EntrySignals \cup ExitSignals
  /\ WithLedger \in BOOLEAN
  /\ Faults \subseteq FaultKinds
  /\ MaxFaults \in Nat /\ MaxBars \in Nat /\ MaxOrders \in Nat

VARIABLES
  position,    \* what the account holds
  orders,      \* the venue's open orders
  accepted,    \* the client order ids it has taken
  count,       \* how many entries and closes it has taken per symbol
  reports,     \* trade updates on their way to the engine
  running,     \* is there an engine process?
  book,        \* Strategy.positions
  handler,     \* the bar callback of each symbol
  queue,       \* the order lock: its holder, then its waiters
  updating,    \* the symbol the trade-update task refreshes, if any
  sweepDue,    \* has reconcile_every passed since the last sweep?
  bar,         \* the last bar of each symbol that carried an entry
  halted,      \* the halt file
  ledger,      \* the ledger file, folded
  faults,      \* faults so far
  slipped      \* entries the venue took since the halt was set

venueVars  == <<position, orders, accepted, count, reports>>
engineVars == <<running, book, handler, queue, updating, sweepDue, bar>>
vars == <<venueVars, engineVars, halted, ledger, faults, slipped>>

Tasks   == Symbols \cup {Updater}
Kinds   == {"entry", "leg", "close", "flat"}
OrderId == Symbols \X (1..MaxOrders) \X Kinds
Order   == [id : OrderId, sign : {1, -1}, left : Nat, done : Nat]
Report  == [id : OrderId, qty : Int]
Phases  == {"idle", "read", "halt", "pending", "submit", "cancel", "close", "done", "sync"}

SymbolOf(id)  == id[1]
IdsOf(s)      == {id \in OrderId : SymbolOf(id) = s}
OrdersOf(s)   == {o \in orders : SymbolOf(o.id) = s}
SignOf(signal) == IF signal \in {"BUY", "CLOSE_BUY"} THEN 1 ELSE -1
Abs(n)        == IF n < 0 THEN -n ELSE n
SideHeld(qty) == IF qty > 0 THEN "BUY" ELSE IF qty < 0 THEN "SELL" ELSE "FLAT"

\* Mutant of ClientOrderId: the bar is left out.
SignalOrderId(s) == <<s, handler[s].signal>>

ClientOrderId(s) == <<s, handler[s].signal, bar[s]>>

VenueOK ==
  /\ position \in [Symbols -> Int]
  /\ orders \subseteq Order
  /\ accepted \subseteq Symbols \X EntrySignals \X (1..MaxBars)
  /\ count \in [Symbols -> 0..MaxOrders]
  /\ reports \in Seq(Report)
TasksOK ==
  /\ handler \in [Symbols -> [phase : Phases, signal : AllSignals, acted : BOOLEAN]]
  /\ queue \in Seq(Tasks)
  /\ updating \in Symbols \cup {Updater}
BookOK   == book \in [Symbols -> Int] /\ bar \in [Symbols -> 0..MaxBars]
FlagsOK  == running \in BOOLEAN /\ sweepDue \in BOOLEAN /\ halted \in BOOLEAN
LedgerOK == ledger \in [base : [Symbols -> Int], live : [OrderId -> Int]]
CountsOK == faults \in 0..MaxFaults /\ slipped \in Nat

TypeOK == VenueOK /\ TasksOK /\ BookOK /\ FlagsOK /\ LedgerOK /\ CountsOK

Idle == [phase |-> "idle", signal |-> "HOLD", acted |-> FALSE]

Init ==
  /\ position = [s \in Symbols |-> 0]
  /\ orders = {}
  /\ accepted = {}
  /\ count = [s \in Symbols |-> 0]
  /\ reports = <<>>
  /\ running = FALSE
  /\ book = [s \in Symbols |-> 0]
  /\ handler = [s \in Symbols |-> Idle]
  /\ queue = <<>>
  /\ updating = Updater
  /\ sweepDue = TRUE
  /\ bar = [s \in Symbols |-> 0]
  /\ halted = FALSE
  /\ ledger = EmptyLedger(Symbols, OrderId)
  /\ faults = 0
  /\ slipped = 0

Fault(kind) == kind \in Faults /\ faults < MaxFaults /\ faults' = faults + 1
NoFault     == UNCHANGED faults

-----------------------------------------------------------------------------
(* The venue *)

Accept(s, kind, sign, qty) ==
  /\ orders' = orders \cup {[id |-> <<s, count[s] + 1, kind>>, sign |-> sign, left |-> qty, done |-> 0]}
  /\ count' = [count EXCEPT ![s] = @ + 1]

\* An order fills, wholly or in part, and its running total is reported.  A
\* completed bracket entry leaves its protective leg resting.
Fill(o, n) ==
  LET filled == [id |-> o.id, sign |-> o.sign, left |-> o.left - n, done |-> o.done + n]
      leg    == [id |-> <<o.id[1], o.id[2], "leg">>, sign |-> -o.sign, left |-> o.done + n, done |-> 0]
  IN  /\ n \in 1..o.left
      /\ position' = [position EXCEPT ![SymbolOf(o.id)] = @ + o.sign * n]
      /\ orders' = (orders \ {o}) \cup
                     (IF filled.left > 0 THEN {filled}
                      ELSE IF o.id[3] = "entry" THEN {leg} ELSE {})
      /\ reports' = IF running THEN Append(reports, [id |-> o.id, qty |-> o.sign * filled.done])
                    ELSE reports
      /\ UNCHANGED <<accepted, count, engineVars, halted, ledger, faults, slipped>>

\* The stream drops an update while it reconnects.
LoseReport ==
  /\ reports # <<>>
  /\ Fault("lost")
  /\ reports' = Tail(reports)
  /\ UNCHANGED <<position, orders, accepted, count, engineVars, halted, ledger, slipped>>

-----------------------------------------------------------------------------
(* The operator, from another process *)

SetHalt ==
  /\ ~halted
  /\ halted' = TRUE
  /\ slipped' = 0
  /\ UNCHANGED <<venueVars, engineVars, ledger, faults>>

ClearHalt ==
  /\ halted
  /\ halted' = FALSE
  /\ UNCHANGED <<venueVars, engineVars, ledger, faults, slipped>>

-----------------------------------------------------------------------------
(* The order lock and the ledger *)

\* Mutant of Holds: waiting for the lock is as good as holding it.
HoldsOrAwaits(task) == \E i \in DOMAIN queue : queue[i] = task

Holds(task)   == queue # <<>> /\ Head(queue) = task
Await(task)   == queue' = Append(queue, task)

\* Mutant of Release: a task that was interrupted never lets go.
KeepLock == UNCHANGED queue

Release       == queue' = Tail(queue)

\* The next phase of a handler, and the decision it hands back.
Go(s, phase)     == handler' = [handler EXCEPT ![s].phase = phase]
Decide(s, acted) == handler' = [handler EXCEPT ![s].phase = "done", ![s].acted = acted]

Record(record) ==
  ledger' = IF WithLedger THEN Apply(ledger, record, IdsOf(record.symbol)) ELSE ledger

ExpectedOf(s) == Expected(ledger, s, IdsOf(s))

-----------------------------------------------------------------------------
(* _limit_breach: judged on the book, never on the broker *)

\* What a book b would be with qty of s in place of what it has of s.
BreachIn(b, s, qty) ==
  LET others == {t \in Symbols \ {s} : b[t] # 0}
      gross  == SumFunction([t \in others |-> Abs(b[t])])
      net    == SumFunction([t \in others |-> b[t]])
  IN  \/ Cardinality(others) + 1 > MaxPositions
      \/ gross + Abs(qty) > MaxGross
      \/ Abs(net + qty) > MaxNet

Breach(s, qty) == BreachIn(book, s, qty)

-----------------------------------------------------------------------------
(* The bar callback *)

\* _maybe_reconcile: the timer is reset before the sweep waits for the lock.
MaybeReconcile(s, lock) ==
  /\ handler' = [handler EXCEPT ![s] = IF sweepDue THEN [Idle EXCEPT !.phase = "sync"] ELSE Idle]
  /\ queue' = IF sweepDue THEN Append(lock, s) ELSE lock
  /\ sweepDue' = FALSE

\* A bar whose signal is HOLD, or below the lookback.
QuietBar(s) ==
  /\ running /\ handler[s] = Idle
  /\ MaybeReconcile(s, queue)
  /\ UNCHANGED <<venueVars, running, book, updating, bar, halted, ledger, faults, slipped>>

\* An entry bar is a new one, or the last one delivered again.
SignalBar(s, signal) ==
  /\ running /\ handler[s] = Idle
  /\ signal \in Offered
  /\ ValidateSignal(signal, SideHeld(book[s]))
  /\ count[s] < MaxOrders
  /\ handler' = [handler EXCEPT ![s] = [Idle EXCEPT !.phase = "read", !.signal = signal]]
  /\ IF signal \in EntrySignals
     THEN bar' = [bar EXCEPT ![s] = IF @ = 0 THEN 1 ELSE @]
     ELSE UNCHANGED bar
  /\ bar'[s] <= MaxBars
  /\ Await(s)
  /\ UNCHANGED <<venueVars, running, book, updating, sweepDue, halted, ledger, faults, slipped>>

\* Time moves on to the next bar of a symbol.
NextBar(s) ==
  /\ handler[s] = Idle
  /\ 0 < bar[s] /\ bar[s] < MaxBars
  /\ bar' = [bar EXCEPT ![s] = @ + 1]
  /\ UNCHANGED <<venueVars, running, book, handler, queue, updating, sweepDue, halted, ledger, faults, slipped>>

\* get_position, which answers "no position" to any failure; a closed market
\* declines first.
ReadPosition(s) ==
  /\ handler[s].phase = "read" /\ Holds(s)
  /\ \E seen \in {position[s], 0} :
       /\ IF seen = position[s] THEN NoFault ELSE Fault("read")
       /\ IF handler[s].signal \in EntrySignals
          THEN Go(s, IF seen = 0 THEN "halt" ELSE "done")
          ELSE Go(s, IF SideHeld(seen) # "FLAT" /\ handler[s].signal = CloseOf(SideHeld(seen))
                     THEN "cancel" ELSE "done")
  /\ UNCHANGED <<venueVars, running, book, queue, updating, sweepDue, bar, halted, ledger, slipped>>

\* The market is closed, the account cannot be read, the size rounds to zero or
\* below the minimum notional, buying power is short.
Decline(s) ==
  /\ handler[s].phase \in {"read", "pending"} /\ Holds(s)
  /\ Fault("decline")
  /\ Go(s, "done")
  /\ UNCHANGED <<venueVars, running, book, queue, updating, sweepDue, bar, halted, ledger, slipped>>

\* Mutant of CheckHalt: the halt file is not read.
PassHalt(s) ==
  /\ handler[s].phase = "halt" /\ Holds(s)
  /\ Go(s, "pending")
  /\ UNCHANGED <<venueVars, running, book, queue, updating, sweepDue, bar, halted, ledger, faults, slipped>>

CheckHalt(s) ==
  /\ handler[s].phase = "halt" /\ Holds(s)
  /\ Go(s, IF halted THEN "done" ELSE "pending")
  /\ UNCHANGED <<venueVars, running, book, queue, updating, sweepDue, bar, halted, ledger, faults, slipped>>

\* Mutant of CheckOrdersAndLimits: working orders do not stop an entry.
CheckLimitsOnly(s) ==
  /\ handler[s].phase = "pending" /\ Holds(s)
  /\ Go(s, IF Breach(s, SignOf(handler[s].signal) * Size) THEN "done" ELSE "submit")
  /\ UNCHANGED <<venueVars, running, book, queue, updating, sweepDue, bar, halted, ledger, faults, slipped>>

\* list_open_orders, which answers "none" to any failure, and the limits.
CheckOrdersAndLimits(s) ==
  /\ handler[s].phase = "pending" /\ Holds(s)
  /\ \E seen \in {OrdersOf(s), {}} :
       /\ IF seen = OrdersOf(s) THEN NoFault ELSE Fault("read")
       /\ Go(s, IF seen = {} /\ ~Breach(s, SignOf(handler[s].signal) * Size) THEN "submit" ELSE "done")
  /\ UNCHANGED <<venueVars, running, book, queue, updating, sweepDue, bar, halted, ledger, slipped>>

\* The order reaches the venue; answered says whether its acceptance reaches us.
PlaceEntry(s, answered) ==
  /\ ClientOrderId(s) \notin accepted
  /\ Accept(s, "entry", SignOf(handler[s].signal), Size)
  /\ accepted' = accepted \cup {ClientOrderId(s)}
  /\ slipped' = IF halted THEN slipped + 1 ELSE slipped
  /\ book' = IF answered THEN [book EXCEPT ![s] = SignOf(handler[s].signal) * Size] ELSE book

\* submit_bracket_order: accepted, accepted but the answer is lost, a duplicate
\* of an id the venue has taken, or refused.
Submit(s) ==
  /\ handler[s].phase = "submit" /\ Holds(s)
  /\ \/ PlaceEntry(s, TRUE) /\ NoFault /\ Decide(s, TRUE)
     \/ PlaceEntry(s, FALSE) /\ Fault("timeout") /\ Decide(s, FALSE)
     \/ /\ (ClientOrderId(s) \in accepted /\ NoFault) \/ Fault("refuse")
        /\ Decide(s, FALSE)
        /\ UNCHANGED <<orders, count, accepted, slipped, book>>
  /\ UNCHANGED <<position, reports, running, queue, updating, sweepDue, bar, halted, ledger>>

\* Mutant of CancelResting: the protective leg is left resting.
LeaveResting(s) ==
  /\ handler[s].phase = "cancel" /\ Holds(s)
  /\ Go(s, "close")
  /\ UNCHANGED <<venueVars, running, book, queue, updating, sweepDue, bar, halted, ledger, faults, slipped>>

\* The resting orders of the symbol are cancelled, each failure tolerated; an
\* unreadable order list is an empty one.
CancelResting(s) ==
  /\ handler[s].phase = "cancel" /\ Holds(s)
  /\ \/ NoFault /\ orders' = orders \ OrdersOf(s)
     \/ Fault("read") /\ UNCHANGED orders
     \/ Fault("cancel") /\ \E stuck \in OrdersOf(s) : orders' = (orders \ OrdersOf(s)) \cup {stuck}
  /\ Go(s, "close")
  /\ UNCHANGED <<position, accepted, count, reports, running, book, queue, updating, sweepDue, bar,
                 halted, ledger, slipped>>

\* close_position: an order for whatever is held now.  Refused, unanswered, or
\* with nothing left to close, the book keeps its entry.
ClosePosition(s) ==
  /\ handler[s].phase = "close" /\ Holds(s)
  /\ \/ /\ position[s] # 0
        /\ Accept(s, "close", -SignOf(handler[s].signal), Abs(position[s]))
        /\ \/ NoFault /\ book' = [book EXCEPT ![s] = 0] /\ Decide(s, TRUE)
           \/ Fault("timeout") /\ UNCHANGED book /\ Decide(s, FALSE)
     \/ /\ (position[s] = 0 /\ NoFault) \/ Fault("refuse")
        /\ Decide(s, FALSE)
        /\ UNCHANGED <<orders, count, book>>
  /\ UNCHANGED <<position, accepted, reports, running, queue, updating, sweepDue, bar, halted, ledger, slipped>>

\* The decision is back on the loop: release, record, and perhaps sweep.  An
\* exit never carries an order, so every exit is recorded as a close.
Finish(s) ==
  /\ handler[s].phase = "done" /\ Holds(s)
  /\ IF handler[s].signal \in ExitSignals THEN Record(CloseRecord(s)) ELSE UNCHANGED ledger
  /\ MaybeReconcile(s, Tail(queue))
  /\ UNCHANGED <<venueVars, running, book, updating, bar, halted, faults, slipped>>

\* Mutant of SyncBook: only symbols already in the book are refreshed.
SyncKnown(s) ==
  /\ handler[s].phase = "sync" /\ Holds(s)
  /\ \/ NoFault /\ book' = [t \in Symbols |-> IF book[t] = 0 THEN 0 ELSE position[t]]
     \/ Fault("sync") /\ UNCHANGED book
  /\ handler' = [handler EXCEPT ![s] = Idle]
  /\ Release
  /\ UNCHANGED <<venueVars, running, updating, sweepDue, bar, halted, ledger, slipped>>

\* sync_strategy_book: the book is what the broker holds, or, when the read
\* fails, what it was.
SyncBook(s) ==
  /\ handler[s].phase = "sync" /\ Holds(s)
  /\ \/ NoFault /\ book' = position
     \/ Fault("sync") /\ UNCHANGED book
  /\ handler' = [handler EXCEPT ![s] = Idle]
  /\ Release
  /\ UNCHANGED <<venueVars, running, updating, sweepDue, bar, halted, ledger, slipped>>

\* reconcile_every passes.
SweepTimer ==
  /\ running /\ ~sweepDue
  /\ sweepDue' = TRUE
  /\ UNCHANGED <<venueVars, running, book, handler, queue, updating, bar, halted, ledger, faults, slipped>>

-----------------------------------------------------------------------------
(* The trade-update task *)

\* Mutant of TakeReport: the running total is recorded as shares of this fill.
TakeShares ==
  /\ running /\ updating = Updater
  /\ reports # <<>>
  /\ LET report == Head(reports)
         symbol == SymbolOf(report.id)
     IN  /\ Record(FillRecord(report.id, symbol, report.qty, "incremental"))
         /\ updating' = symbol
  /\ reports' = Tail(reports)
  /\ Await(Updater)
  /\ UNCHANGED <<position, orders, accepted, count, running, book, handler, sweepDue, bar, halted, faults, slipped>>

\* _on_trade_update: record the fill, then wait to refresh its symbol.
TakeReport ==
  /\ running /\ updating = Updater
  /\ reports # <<>>
  /\ LET report == Head(reports)
         symbol == SymbolOf(report.id)
     IN  /\ Record(FillRecord(report.id, symbol, report.qty, "cumulative"))
         /\ updating' = symbol
  /\ reports' = Tail(reports)
  /\ Await(Updater)
  /\ UNCHANGED <<position, orders, accepted, count, running, book, handler, sweepDue, bar, halted, faults, slipped>>

\* refresh_position: no answer is no position.
RefreshPosition ==
  /\ updating # Updater /\ Holds(Updater)
  /\ \/ NoFault /\ book' = [book EXCEPT ![updating] = position[updating]]
     \/ Fault("sync") /\ book' = [book EXCEPT ![updating] = 0]
  /\ updating' = Updater
  /\ Release
  /\ UNCHANGED <<venueVars, running, handler, sweepDue, bar, halted, ledger, slipped>>

-----------------------------------------------------------------------------
(* Start and death of the process *)

\* Every adopted position becomes a baseline.
Adopted ==
  [base |-> [s \in Symbols |-> IF position[s] # 0 THEN position[s] ELSE ledger.base[s]],
   live |-> [id \in OrderId |-> IF position[SymbolOf(id)] # 0 THEN 0 ELSE ledger.live[id]]]

\* _cold_start: adopt what the broker holds, or start flat and sweep first.
Start ==
  /\ ~running
  /\ running' = TRUE
  /\ \/ /\ NoFault
        /\ book' = position
        /\ sweepDue' = FALSE
        /\ ledger' = IF WithLedger THEN Adopted ELSE ledger
     \/ /\ Fault("sync")
        /\ sweepDue' = TRUE
        /\ UNCHANGED <<book, ledger>>
  /\ UNCHANGED <<venueVars, handler, queue, updating, bar, halted, slipped>>

\* Everything in memory is gone, updates in flight included.
Crash ==
  /\ running
  /\ Fault("crash")
  /\ running' = FALSE
  /\ book' = [s \in Symbols |-> 0]
  /\ handler' = [s \in Symbols |-> Idle]
  /\ queue' = <<>>
  /\ updating' = Updater
  /\ sweepDue' = TRUE
  /\ reports' = <<>>
  /\ UNCHANGED <<position, orders, accepted, count, bar, halted, ledger, slipped>>

-----------------------------------------------------------------------------
Handle(s) ==
  \/ ReadPosition(s) \/ CheckHalt(s) \/ CheckOrdersAndLimits(s) \/ Submit(s)
  \/ CancelResting(s) \/ ClosePosition(s)
  \/ Finish(s) \/ SyncBook(s)

Venue    == \/ \E o \in orders : \E n \in 1..o.left : Fill(o, n)
            \/ LoseReport
Operator == SetHalt \/ ClearHalt
Engine   == \/ \E s \in Symbols : \/ QuietBar(s) \/ NextBar(s) \/ Handle(s) \/ Decline(s)
                                  \/ \E signal \in AllSignals : SignalBar(s, signal)
            \/ SweepTimer \/ TakeReport \/ RefreshPosition \/ Start \/ Crash

Next == Venue \/ Operator \/ Engine

\* The loop runs every task that can run, a blocking call returns, bars and
\* updates keep arriving, the sweep interval passes, a dead engine is started
\* again.  The venue owes nobody a fill and the operator owes nobody a halt.
Fairness ==
  /\ \A s \in Symbols : WF_vars(QuietBar(s)) /\ WF_vars(Handle(s))
  /\ WF_vars(SweepTimer) /\ WF_vars(TakeReport) /\ WF_vars(RefreshPosition) /\ WF_vars(Start)

Spec     == Init /\ [][Next]_vars
FairSpec == Spec /\ Fairness

-----------------------------------------------------------------------------
(* Safety *)

\* The limits an entry was checked against still hold in the book when it is
\* sent, whatever else ran since the check: no sweep, fill or other entry has
\* changed the book underneath it (the reason there is one order lock).
LimitStillHolds ==
  \A s \in Symbols :
    handler[s].phase = "submit" => ~Breach(s, SignOf(handler[s].signal) * Size)

\* A symbol never has two entries: no working entry beside another, and none
\* beside a position another order opened.
OneEntryPerSymbol ==
  \A s \in Symbols : \A o \in OrdersOf(s) :
    o.id[3] = "entry" => position[s] = o.sign * o.done /\ OrdersOf(s) = {o}

\* Exits, protective legs and cancels never turn a position into its opposite.
NoOversell ==
  \A s \in Symbols : position[s] # 0 => SideHeld(position[s]) \in Offered

\* While a halt stands at most one entry reaches the venue: the one that was
\* past the halt check when it was set.  The next one waits for the lock and
\* then reads the halt.
OneSlipsPastHalt == halted => slipped <= 1

\* What the halt promises and does not keep: no entry reaches the venue while it
\* stands.
HaltStopsEntries == halted => slipped = 0

\* position_limits.max_positions bounds what the book holds.  It does not, once a
\* sweep has erased an entry that has not filled (live_trader.py:90).
BookWithinLimit == Cardinality({s \in Symbols : book[s] # 0}) <= MaxPositions

AtRest == running /\ reports = <<>> /\ updating = Updater /\ \A s \in Symbols : handler[s] = Idle

\* Once every update has been taken and no handler is at work the ledger expects
\* what the account holds.
LedgerExpectsAccount == AtRest => \A s \in Symbols : ExpectedOf(s) = position[s]

\* An exit that was declined asked the venue for nothing, so the ledger goes on
\* expecting the position: the callback returns without touching it.  The code does
\* not keep this (engine/live.py:475).
DeclinedExitKeepsExpectation ==
  [][\A s \in Symbols :
       Finish(s) /\ ~handler[s].acted => ExpectedOf(s)' = ExpectedOf(s)]_vars

\* An exit nets against the position: when the last update of its closing order
\* is taken, the ledger expects nothing of the symbol.  The code does not keep this:
\* the run LiveExitFill shows it.
ExitFillNets ==
  [][\A s \in Symbols :
       /\ TakeReport
       /\ reports' = <<>> /\ Head(reports).id[3] = "close" /\ SymbolOf(Head(reports).id) = s
       /\ position[s] = 0
       => ExpectedOf(s)' = 0]_vars

-----------------------------------------------------------------------------
(* Liveness *)

\* A position the account holds is in the book sooner or later, or is gone: the
\* strategy can exit it.
PositionBecomesKnown ==
  \A s \in Symbols : position[s] # 0 ~> (book[s] # 0 \/ position[s] = 0)

\* Every bar callback returns: the lock is always passed on.
HandlersReturn ==
  \A s \in Symbols : handler[s].phase # "idle" ~> handler[s].phase = "idle"
=============================================================================
