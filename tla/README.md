# tradeflow in TLA+

tradeflow is a research and trading framework in Python: strategies are scored
and backtested on one simulated clock, and the same strategy object is then run
live against a broker.  This directory holds TLA+ modules for the part that
moves money, the *trade clock*: what a strategy says of a bar, what the live
trader does about it, what the position ledger writes down, and how an operator
stops it all; and for the part that decides what may move it, the *research
clock*: the backtest, the walk-forward search, and the store that counts how
often somebody looked.  Paths below are relative to the repository.

1. [The system](#1-the-system)
2. [Modules, and how they correspond to the code](#2-modules)
3. [Runs: what is checked, bounds, fairness](#3-runs)
4. [Proofs](#4-proofs)
5. [Where code and documentation disagree](#5-where-code-and-documentation-disagree)
6. [What is not modelled, and the plan](#6-what-is-not-modelled-and-the-plan)

## 1. The system

### Components on the trade clock

**Strategy** (`strategies/base.py`, `strategies/signals.py`).  Keeps the rolling
buffer of bars per symbol (`real_time_data`) and the position book
(`positions`).  `process_bar` appends an accepted bar, trims the buffer, walks
the scores through a hysteresis band from a flat state, and emits BUY, SELL,
CLOSE_BUY, CLOSE_SELL or HOLD; `_reaffirm` re-states an intent the book has not
caught up with.  Correct when the live loop ends up in the book the score asks
for, whatever was missed or refused, and wants the same book as the research
walk over the whole history.

**Live engine** (`engine/live.py`).  Two asyncio tasks on one loop: the bar
callback `_on_bar`, one per bar, and the trade-update callback.  Each awaits
blocking broker calls on a thread pool, so anything else may run in between.
State: `_order_lock`, an `asyncio.Semaphore(1)` (its waiters are served in order), and
the time of the last sweep.
`_cold_start` adopts the broker's positions.  Correct when check-then-submit is
one step, every callback returns, and a held position reaches the book.

**Live trader** (`execution/live_trader.py`, `decision.py`, `order_id.py`).
`handle_signal`: for an entry, read the position, the halt, the working orders
and the limits, then submit a bracket order whose client order id is a function
of symbol, signal and bar; for an exit, cancel what rests and close.  The limits
are judged on the strategy's book.  Correct when a symbol never has two entries,
an exit never oversells, and the limits hold when the order goes out.

**Position ledger** (`execution/ledger.py`).  An append-only JSONL file: fills
(running totals or increments), closes, adoptions, flattens, decisions.
`_replay` derives what the account should hold; `reconcile` compares it with the
broker.  Correct when missed, repeated and late reports, restarts and kills
leave the replay at what the broker holds.

**Halt switch** (`execution/halt.py`).  A JSON file of scoped halts, read
before each entry and written by other processes (write-then-rename, through one
temporary).  Correct when a halt that was reported set stands until it is lifted,
whoever is killed in the middle of a write, and no reader misses it.

**Session shutdown** (`utils/streaming.py`, the task structure of
`LiveEngine.start`).  `run_until_stopped` owns the event loop, the stop signals
and a watchdog thread; `start` owns the reconnecting streams; a bar callback
blocks in a worker thread.  Correct when a stop ends the process, the watchdog
kills only a loop that is stuck, and no orders follow but the one being decided.

**Flatten** (`execution/flatten.py`).  A command in a process of its own: halt,
cancel all, close all, read back, record in the ledger.  Correct when `complete`
is only said of an account that is flat and stays flat.

**Broker** (`brokers/base.py`, `brokers/alpaca/broker.py`).  The venue keeps
positions, working orders, bracket legs and the client ids it has taken, and
reports fills on a stream.  Two of the adapter's reads turn a failure into an
answer: `get_position` (no position) and `list_open_orders` (no orders).

### Components on the research clock

**Backtest engine** (`engine/backtest.py`).  One book of positions and cash over
a timeline merged from every symbol's bars; each step marks, exits, admits and
records.  Correct when cash is never negative, the caps hold at the prices an entry
is filled at, and cash, trades and curve agree.

**Optimizer, worker pool, walk-forward** (`optimization/`).  Folds are carved out of
a window, each is searched (candidates one by one or in a pool of processes) and
its winner scored on days the search has not seen; the holdout comes last.
Correct when the two share no day but a boundary, the pool's schedule does not show in
the result, and a validation ends.

**Trial store, audit log** (`store/trials.py`, `services/audit.py`,
`services/maintenance.py`; `research/agent.py` for a session's rounds).  An
append-only journal of evaluated configurations and an SQLite index derived from
it, dropped and replayed whenever its schema moves or a rebuild was cut off.
Correct when the index never counts fewer trials than it was given (the count
deflates every Sharpe ratio) and a quarantine is for ever.

### Interactions

    bars ──> LiveEngine._on_bar ──> Strategy.process_bar ──> signal
                   │ order lock                    ▲ book
                   ▼                               │
             LiveTrader.handle_signal ──> venue ──> trade updates ──> LiveEngine
                   ▲ halt file              ▲                            │
    operator ── halt / resume / flatten ────┘                      ledger file

The book is shared by three writers (an accepted entry or exit, the refresh
after a fill, the sweep that replaces it), all under the one lock.  The ledger
file is appended by the engine and by a flatten.  The halt file and the venue
are shared between processes without a lock.

    window ──> build_folds ──> search per fold ──> pool of processes ──> Backtest
                                  │   ▲ memo
                                  ▼   │
           journal (append) ──> trial index <── rebuild, quarantine

The journal is appended by every process; the index is written by each after its
append, and rebuilt by whichever process opens it and finds a reason to.

### What is hard here

* every blocking call of a handler is a point where fills, sweeps, other
  symbols' handlers and the operator interleave;
* a broker call may fail, be refused, or succeed with its answer lost; a read
  may fail and be answered as if empty;
* trade updates are lost over a reconnect, repeated, or late;
* the process dies anywhere and restarts on what the venue, the halt file and
  the ledger file say, and nothing else;
* the operator's steps race the engine's, and each other's;
* third-party code may block the event loop, and every timer on it, for good;
* an index is dropped and replayed beside its own writers, statement by statement;
* worker processes finish in any order, die, and are interrupted.

`PROJECT.json` lists each such hazard at its line, with the properties that
would catch it.

### The rest

Bar-quality filter, bar store, portfolio/risk/alpha/cost arithmetic, market-data
clients, command line and MCP server.  See section 6.

## 2. Modules

    Signals  <──────────── StrategyClock            one symbol, bar by bar
       ▲
       └──────── LiveTrading ◄──── Flatten          the trade clock; a flatten beside it
                     │
    LedgerReplay <───┘
         ▲
         └────── PositionLedger                     the file itself, under every fault

    HaltSwitch ◄═══════ HaltFile                    implements it
    Shutdown                                        a session's process, told to stop
    Signals ◄────────── Backtest                    the same signals, simulated
    FoldWindows ◄────── WalkForward                 folds, searches, the pool
    TrialStore                                      journal and index

The proofs of section 4 are in modules of their own:

| module | proves about |
| --- | --- |
| LiveTrading_proofs | LiveTrading and Flatten |
| PositionLedger_proofs | PositionLedger, LedgerReplay |
| StrategyClock_proofs | StrategyClock, Signals |
| Stopping_proofs | HaltFile and Shutdown: the two ways an operator stops it all |
| Backtest_proofs | Backtest |
| WalkForward_proofs | FoldWindows, WalkForward |
| TrialStore_proofs | TrialStore |
| DataInduction | what they share: induction over data, sums over finite sets |

`MC*.tla` give constants their values; each `.cfg` is one run of section 3.
Operators commented "Mutant of X" restate X with a bug one could plausibly write;
they are used by no specification and exist so that each property can be seen to
fail when the code is wrong.

**Signals** translates the pure functions of `base.py`: `DesiredDirection`,
`Transition`, `WalkScores` (the walk, as a recursive function over the bars),
`Reaffirm`, `ValidateSignal`, `EmittedSignal`.  A score is an integer; NaN scores
are left out.

**StrategyClock** is one symbol of one strategy: `buffer`, the pending `signal`,
the side `held`, and beside it `research`, the state of the walk over the whole
history.  `ProcessBar` is `process_bar`; `HandleSignal` and `Declined` are what the
trader may answer; `BookChanges` a protective leg, a hand-made trade or a sweep;
`Restart` a warm-up on fewer bars.  The book a strategy declares (its band,
long-only or not, re-stating entries or not) is chosen at the start.

**LedgerReplay** has the ledger's arithmetic twice: `Replay` reads a file the way
`_replay` does (the last reset of a symbol discards what came before it; of an
order's running totals only the last counts), and `Apply` folds records one at
a time into a base per symbol and a live total per order.  Records carry what the
arithmetic reads, signs included; prices, times and text are left out.

**PositionLedger** is the file as it is written: orders fill at the venue, reports
are missed, taken, repeated or stale, restarts adopt, flattens record, a writer is
killed inside a line.  It carries both the file and the fold and checks that they
agree, which lets LiveTrading carry the fold alone.  `touched` remembers which
symbols a fault has hit since they were last settled.

**LiveTrading** composes engine, trader, strategy book, venue, halt file and
folded ledger:

| code | model |
| --- | --- |
| one `_on_bar` invocation per symbol | `handler[s]`: phase, signal, decision |
| `_order_lock` | `queue`: the holder, then the waiters |
| `process_bar` emits a signal | `SignalBar`, guarded by `ValidateSignal` on the book |
| `handle_signal` up to each blocking call | `ReadPosition`, `CheckHalt`, `CheckOrdersAndLimits`, `Submit`; `CancelResting`, `ClosePosition`; `Decline` |
| `_record_decision`, `_record_intent`, release | `Finish` |
| `_maybe_reconcile`, `sync_strategy_book` | `MaybeReconcile` (in `QuietBar`, `Finish`), `SyncBook` |
| `_on_trade_update`, `refresh_position` | `TakeReport`, `RefreshPosition` |
| `_cold_start`, `_record_adoptions` | `Start`, `Adopted` |
| process death | `Crash`: book, handlers, lock and updates in flight are gone |
| the venue | `position`, `orders`, `accepted` ids, `Fill` (any part), a protective leg after a completed entry |
| `halt`, `resume` | `SetHalt`, `ClearHalt` at any moment |

A failing call is a `Fault` of a kind the run allows, within its budget: `read` (a
handler's own read fails and is answered as empty), `sync` (so does the read of a
sweep, a refresh or a cold start), `timeout` (taken, answer lost), `refuse`,
`decline` (closed market, size, buying power), `cancel`, `lost` (an update),
`crash`, `flatten`.  The strategy itself is reduced to "may emit any offered signal
the book admits", which includes re-stating an entry on the same bar.  Sizes and
prices are constants: an entry is `Size` shares at one price.  `slipped` is
a history variable: entries taken by the venue since the halt was set.

**Flatten** EXTENDS LiveTrading with a second process: `step` is the next call of
`flatten()`, `outcome` its report, `closing` the symbols it has yet to record.
Each call may fail, and none is skipped for it, as in the code.  A restart or
crash of the engine, its handlers and a `resume` happen between the steps; its
closes fill like any other order, and a running engine is told of them.  History
variable `since`: whether the halt it set still stands, whether any engine has
run, and the symbols the engine was exiting at the same time.  One flatten per
behaviour.

**Shutdown** is the process around the engine: `phase` is where the main thread is,
`stream[s]` a stream's task, `call` the worker thread in `handle_signal`.  Loop
steps need `LoopRuns`; `Block` is third-party code taking the loop and, maybe,
giving it back.  `Signal` goes to the loop, to the plain handler that forces an exit,
or to the default action, as `handlers` says; `Tick` is a second since the stop
began, and no loop timer that is due is passed by while the loop runs.

**HaltSwitch** is what the kill switch promises: a command is asked for one change
(`Ask`), and makes exactly that one (`Obey`) or none (`Drop`); what is in force changes
at no other moment, but for commands that overlap (`Muddle`) and an edit by hand
(`Damage`, which empties the switch and flips `edited`, so that nothing else can pass for
it).  **HaltFile** is how: each process's `Begin` (read and decide),
`Open` (truncate the temporary), `Write`, `Replace` (rename), or `Kill` between any
two; files are inodes, so a reader that opened the old file goes on reading it.
`promised` and `contended` are history: which halts a command that ran alone has
reported set, and whether commands overlap.

**Backtest** is `_replay`: `Bar` is a step's first half (marks at the open, exits,
candidates), `Admit` one candidate, `Close` the marks at the close, `ForceClose` the
end.  Bars and signals are chosen as the steps go, so every feed and strategy over
the few bars of the run is covered, symbols that miss bars included.  Prices are
integers, stop and target stand one part in `Parts` from the entry, a fill costs
`Fee`, a step of a short `Borrow`; the order of the strategy's scores is any order.

**FoldWindows** is `build_folds` as operators on a window of days, with the spans
fitted to a number of folds or given by the caller; `TrainedOn`, `TestedOn`, `LastSearch`
and `HeldOut` are the days a search or a score reads, both ends included, as
`PrefetchedProvider.get_bars` slices them.  A caller's span of 0 days is left out
(section 5).  **WalkForward**
runs the folds: a search's requests wait, run, finish and are collected
(`pool`), `Interrupt` is Ctrl-C, `WorkerDies` a broken pool, `EndSearch` ranks and
scores; the search before the holdout is the last.  A candidate is a number, its
score a constant, and which raise or are memoized is chosen at the start.

**TrialStore** is the journal's lines and the index's rows, with one step per
statement that commits.  A writer appends, opens (rebuilding if it finds a
reason), and records; a rebuild is refused or drops `meta`, drops `trials`, creates,
raises its sentinel, replays a line at a time, and lowers it.  A session writes the
line it starts with (`JournalStart`), which alone has its strategy; a round a rebuild
reads without that line is recorded as `nameless` (`strategy=None`), in no family.
`owed` and `marked` are history: what the index has held, or has read from the journal, so far.
`doubtful` is raised by a race nothing in the code orders, each of which is
section 5's; the invariants claim nothing from there until a rebuild that runs alone
over a readable journal.

## 3. Runs

Passing runs:

| run | question | instance |
| --- | --- | --- |
| `Strategy` | does the loop converge on the score's book, are unwanted positions closed, do live and research agree where a book has no memory? | scores -2..2, lookback 2, three kinds of book, 2 disturbances |
| `Ledger` | do missed, repeated, stale reports, restarts, flattens, torn lines leave the replay at the broker's position; is the fold the replay? | 2 symbols, 3 orders of 2 shares, one written incrementally, 5 records |
| `LiveLimits` | is check-then-submit one step, how many entries slip past a halt? | 2 interchangeable symbols that may hold one position, 1 fault of 5 kinds, 2 orders each |
| `LiveEntries` | a second entry, an oversell, a position the book never learns of, a callback that never returns, after lost answers, refusals, lost updates, failed refreshes and sweeps, restarts? | 1 symbol, 2 shares (partial fills), 2 faults of 6 kinds, 2 bars, 3 orders; with fairness |
| `LiveLedger` | for entries, does the ledger expect what the account holds? | 1 symbol, 2 shares, 2 faults |
| `Flatten` | what does `complete` promise beside a live engine; does the ledger learn of it? | 1 symbol, any 2 of its calls failing, a refused close, crashes |
| `Shutdown` | does a stop end the process, who gives up on whom, what is still sent? | 2 streams, timeouts of 5, 6 and 10 seconds, 2 signals; with fairness |
| `Halt` | does the halt file change by whole decisions and do reported halts stand? | 2 commands, 2 scopes, a reader, 4 inodes |
| `Trials` | does the index ever undercount or forget a quarantine? | 2 processes, a trial of a command, a session of 2 rounds, 1 quarantine, 1 fault, from an empty or an outdated store; journals of up to 5 lines |
| `Search` | which days do folds share; does the pool find what the sequential search finds, and end? | 36 windows with fitted spans and 4 with given ones, embargo 0 and 2, 3 candidates of which 2 tie and 1 or all are unsound, draws with and without repeats, 1 or 2 workers, 1 interrupt or dead worker; with fairness |
| `Backtest` | cash, caps and trades under any prices and signals? | 2 symbols, 4 kinds of bar, 4 steps of which 1 warms up, entries of up to 3 shares and at least 8 from a capital of 24 |

*Strategy.*  `ConvergesOnIntent` is the claim of `_reaffirm` (base.py:431): once
the score settles, the book of a strategy that re-states its entries ends up at
exactly that side, for ever.  `UnwantedPositionCloses` is the weaker fact for one
that does not: exits are never gated.  `MemorylessMatchesResearch`: for a
long-only sign book nothing a truncated buffer or a restart forgets matters.

*Ledger.*  `UntouchedReconcile`: once the engine was told each order's total, every
symbol no fault has hit reconciles; a fault stays in its symbol, and the next
adoption or flatten undoes it.  `LifecycleAgreesWithReplay`: the two readers of
the file agree (the docstring of `filled_quantity` says they once diverged).
`RepeatsMoveNothing`: a report taken twice counts once.  `FoldIsReplay` ties the
fold to the file, on every file of the run.

*LiveLimits.*  `LimitStillHolds`: when an entry is about to be sent, the limits it
was checked against still hold in the book as it is then; no sweep, fill or other
symbol's entry came between.  `OneSlipsPastHalt`: however many handlers wait, at
most one entry reaches the venue while a halt stands.

*LiveEntries.*  `OneEntryPerSymbol` rests on the position read and the working-order
read, both under the lock (the venue's refusal of an id it has taken is not needed
while reads answer truthfully: section 4);
`NoOversell` on the legs being cancelled before the close.  A
handler's own reads answer truthfully in this run; section 5 has what one failed read does.
`PositionBecomesKnown`: the strategy is entitled to exit what it holds, sooner or
later, though a refresh failed, an update was lost or the process died.
`HandlersReturn`: the lock is always passed on.

*LiveLedger.*  `LedgerExpectsAccount` when nothing is in flight, over declines,
refusals and lost answers.  Exits are left out: section 5.

*Flatten.*  `CompleteLeavesOnlySlipped`: if the report is complete and its halt has
stood, then no more symbols are open, or open again later, than entries were past
the halt check when it was set.  A symbol the engine was exiting at that moment
is excused: the two cancel each other's orders and may both sell.
`FlattenSettlesLedger`: after a complete flatten of a dead engine's account a
reconciliation finds nothing.

*Shutdown.*  `StopEndsProcess`: once the loop has taken a stop signal the process
ends, whatever is blocked or left unclosed.  `WatchdogSparesLiveLoop` and
`EngineUnwindsFirst` are the order of the three timers: the watchdog kills, and the
session abandons the engine, only after a loop that was blocked for the margin
between them.  `OneOrderAfterStop`: a worker that is deciding may still send its
order, and nothing else does.

*Halt.*  `ChangesWhole` is the refinement `HaltFile => HaltSwitch`: while one command
runs alone, the file says at each of its system calls what it said before it, and
from the rename on that with the one scope it was asked for added or removed; killed
before the rename, it has changed nothing.  A torn or half-written file in the
place of the real one, or a change to another scope, violates it.  Two things are
excepted: commands that overlap, until the last of them is gone (section 5), and an
edit by hand, a step of its own.
`ReturnedHaltStands` is the same from the operator's side.
`NoEntryPastStandingHalt`: a halt that stands throughout a trader's read is seen,
though the file is renamed between its open and its read.

*Trials.*  `NoUndercount`: a readable trial the index has held is a row, counts what
it evaluated at the least, and is in its family, with one exception the code
makes: the rounds of a session whose first line cannot be read (section 5).  `QuarantineSticks` says the same of the mark.
`ReplayCarriesCounts`: a round whose line is torn does not take its count along.

*Search.*  `LeaksOnlyBoundaries`: no fold is scored on a day it or an earlier one
trained on, except, with an embargo of 0, on the one day its training ends; two folds are
both scored on a day only where the one ends and the other begins; no fold trains
on the holdout, and the search before the holdout shares with it the one day it
begins.  That is what the code does, not what it says of itself: section 5.  The
folds asked for are there once the window has a day for each.
`SearchIsScheduleFree`: an uninterrupted pool tries,
picks and counts as the sequential search does, and runs no candidate twice.
`ValidationEnds`: interrupted or not.

*Backtest.*  `TypeOK` has the solvency claim: cash stays a natural number until the
forced close, entry costs, carry and short losses included.  `CapsHoldAtOpen`: a step
that admits leaves a book within every cap, valued at the prices of the entries.
`TradesExplainCash`: cash, closed trades, open positions and the last point of the
curve are one account.

*LiveExitFill* expects a violation: section 5.

### Bounds, and why they are enough

The bugs these properties are about need two handlers, one fault or two, and one
order followed by another.  Two symbols with room for one position make every
interleaving around the lock happen; one symbol with two shares and three orders
makes entry, partial fill, exit and re-entry happen, twice over a restart.
Two commands are what it takes for one to truncate the other's temporary; two
processes and three journal lines for a rebuild beside a writer, a quarantine or
another rebuild; two workers and three candidates for results out of order, one
repeated, one failing and two tied.  A backtest of four steps opens, marks, stops and
reopens both symbols; the timeouts of `Shutdown` keep the order the code's have
(5, 90 and 10 seconds), which is all its properties read.
`MaxOrders` bounds the entries and closes of a symbol, `MaxBars` the bars that
carry an entry, `MaxFaults` the faults, `MaxLog` the file, `MaxSignals` the stop
signals, `MaxRounds` and `MaxQuarantines` what is journaled, `Steps` a backtest.  One
run uses a state constraint: the writers of `Trials` have five lines to write, and of a
journal with a torn one after all five nothing further is followed (`MaxLines`).  The Live, Flatten and Halt runs check for deadlock:
a bounded engine can always take a quiet bar.  `Ledger` (its file is full),
`Shutdown`, `Trials`, `Search` and `Backtest` end, so they do not.  `Halt` compares
states by a VIEW without the content of files nothing names or holds and without
`edited`, on which nothing depends.  What
section 4 proves needs no bounds at all.

Each property is also run against a mutated definition (`mutants` in
PROJECT.json) and fails there, so each depends on the code it is about.

### Fairness

*Strategy*: bars keep coming, and a signal is handled before the next bar
(`_on_bar` awaits the handler).  *LiveEntries*: per symbol, a quiet bar and each
step of a handler (the loop runs what can run; blocking calls return; the
semaphore serves its waiters in order), the sweep interval passes, updates are taken, and somebody starts a dead
engine again (the code does not restart itself; a supervisor or the operator does,
live-trading.md "Stopping a session").  All weak.  The venue owes nobody a
fill, the operator owes nobody a halt or a resume, and no fault need happen or
stop, except that there are only `MaxFaults` of them.  *Shutdown*: a loop that is let
go runs what is ready before it can be blocked again (strong fairness of
`LoopStep`: asyncio takes callbacks in order), time passes, the watchdog's thread runs,
a broker call returns (the SDK's own timeouts), and the interpreter's exit ends when
the worker has; a blocked loop need never be let go and a stream need never
close.  *Search*: backtests end, and worker processes and the parent keep
running; nobody owes an interrupt.

## 4. Proofs

Every safety invariant and every action property of the passing runs is a theorem,
for all values of the constants, from the named assumption of the module that
declares them (`TradingAssumption`, `LedgerAssumption`, ...: finite sets, positive
bounds, the constants in their types) and from nothing else except where a proviso
is named below.  Few of them are inductive as they stand: what follows says what each was
strengthened to, and why.

### The trade clock (LiveTrading_proofs)

* `TypeCorrect`: `TypeOK` is not inductive: `PlaceEntry` adds an id of the current bar
  and `Accept` increments the count, and only the guard of `SignalBar`, several steps
  earlier, keeps both in range.  `PhaseOK` carries those facts through the phases, and
  `TypeInv == TypeOK /\ PhaseOK` is inductive, one lemma per group of actions.
* `CheckedLimitsStand` (`LimitStillHolds`): `LockInv` says that a handler between its halt
  check and its last step is at the head of the queue, and that a stopped engine has
  only idle handlers.  Joining the queue never displaces the head, and only the
  head leaves; so two handlers are never inside together (`Alone`).  Everything that
  writes the book, sweep and refresh included, holds the lock itself, so from the
  limit check to the submission nothing changes what `Breach` reads (`LimitsKept`).
* `HaltBoundsEntries` (`OneSlipsPastHalt`): while a halt stands and a handler is past the
  check, nothing has slipped yet (`HaltInv`).  At most one is past it and none passes
  again while the file says halted, so the second entry cannot happen.
* `NoSecondEntry` (`OneEntryPerSymbol`) and `NothingOversold` (`NoOversell`): `EntryInv` says, of
  each symbol, that it has at most one working order, that an entry's filled part is
  the whole position and a leg's or close's remainder exactly undoes it, and what each
  phase of the callback may rely on: nothing held when an entry is about to be
  sent, nothing working when a close is.  Proviso: `read` and `cancel` are not among the
  faults, for with either the statements are false (section 5).  No lemma uses the
  refusal of an id the venue has taken: while reads are truthful it is redundant.
* `LedgerKeepsUp` (`LedgerExpectsAccount`): `LedgerInv` says that there is a total for every
  order id which is the last word of it (the last report still pending, or what
  the fold holds when none is), and that a symbol's position is the sum of its ids'
  totals.  Proviso (`EntriesTold`): only entries are signalled and no update is lost,
  in transit or by a crash.  Exits are section 5's finding.

### A flatten beside it (LiveTrading_proofs)

* `FlattenTypeCorrect`, `FlattenHaltBoundsEntries`: the invariants above survive a concurrent
  flatten (`Beside`), and with them the bound on entries past its halt.
* `CompleteIsClosed` (`CompleteLeavesOnlySlipped`): `Leaving(s)` is how far one symbol the engine
  leaves alone has got: its orders cancelled unless a call failed, only closing
  orders left unless two did, gone once the report is complete.  Since the halt, all
  but one symbol are `Leaving` or were being exited (`Slipping`): the exception is the
  entry that slipped.  `FailedOnly(n)` ties each step still open to the faults it took.
  Proviso: `MaxFaults <= 2`, which is the claim; with three it is false
  (section 5).
* `FlattenSettles` (`FlattenSettlesLedger`), under the same proviso: a symbol the flatten has
  yet to record is in `closing`, every other is expected at zero (`LedgerTold`).

### The position ledger (PositionLedger_proofs)

* `TypeCorrect` and `FoldIsReplayAlways` (`FoldIsReplay`).  The inductive invariant is `Reads(log,
  ledger)`: of every symbol the fold expects what the replay says, and of every order
  with running totals the fold holds the quantity of the one report that stands.  The
  replay is a sum over the standing fills after the last reset, so a step needs how
  that *set* changes: one fill more and the one it supersedes less, or nothing left
  after a reset (the lemmas on `LastReset`, `StandingFills`, `QtySum`).  A restart appends
  several records at once; that the fold follows is an induction over them, and
  torn lines and what is written onto one change neither side.
* `ReportsAddUp` (`LifecycleAgreesWithReplay`), from `Agrees`, which adds that until a symbol is
  reset its orders' reported quantities sum to the replay.
* `ReconcilesUntouched` (`UntouchedReconcile`): of a symbol no fault has touched, the fold expects
  what the engine was told (`Claimed`), holds the last total of every order not yet
  settled, and what a settlement covers was complete (`Known`).
* `RepeatsAreIdempotent` (`RepeatsMoveNothing`), from the same, without a proviso.

`ReportsAddUp` and `ReconcilesUntouched` assume `Measured`: every writer states what its fills
measure, as every writer of this version does.  Fills older than the
`basis` field are counted as a total by the one reading and as shares by the other
(section 5).

### The strategy (StrategyClock_proofs)

* `TypeCorrect`: the walk is a recursive function, so that it has a value at all has to
  be shown: `WalkDefined`, by `Recursion` of DataInduction.
* `MemorylessIsFaithful` (`MemorylessMatchesResearch`): where the thresholds coincide the walk's
  last state depends on the last score only (`MemorylessInv`), whatever was trimmed or
  forgotten.

### Stopping (Stopping_proofs)

HaltFile, for any processes, scopes and inodes: `TypeCorrect`, `ReturnedStands`
(`ReturnedHaltStands`), `StandingHaltObeyed` (`NoEntryPastStandingHalt`) and `FileIsSwitch`, the
refinement `Spec => ChangesWhole`.  What makes a rename a whole decision is
`AloneInv`: while commands do not overlap, the one at work is the only one that is
busy, its decision is `Decided` of what is in force now, and the inode it has opened
is the one the temporary's name bears, which is whole once it is written.
`PromiseInv` ties what was promised to the file, and what a reading trader is owed to
the inode it holds, which no command touches: `Open` truncates only what the
temporary names or nothing uses.  `SwitchStep` then says of each system call which step of the
switch it is: `Begin` asks, the rename obeys, `Kill` drops, an edit by hand is `Damage`, a
step of overlapping commands `Muddle`, and `Open` and `Write` of a command that runs
alone are stutters, as the file the name bears does not change.

Shutdown, for any streams and timeouts in the code's order: `ShutdownTypeCorrect`;
`AtMostOneLateOrder` (`OneOrderAfterStop`), since no stream takes a bar once the session is
cancelled, and a late order was the worker's last (`OrderInv`); `AbandonedOnlyWhenBlocked`
(`EngineUnwindsFirst`) and `KilledOnlyWhenBlocked` (`WatchdogSparesLiveLoop`): the seconds in which
the loop was *not* blocked are bounded by the timer each phase waits for (`TimeInv`), and
those bounds add up to less than the watchdog's.

### The backtest (Backtest_proofs)

* `CashIsExplained` (`TradesExplainCash`): cash, less what was realized, plus what the book ties
  up is the capital (`MoneyInv`); the sums over the book are those of DataInduction.
* `CapsHold` (`CapsHoldAtOpen`): between open and close whatever trades is marked at the open,
  and equity has lost the fees of this step's entries alone (`OpenInv`), so
  the caps a candidate was tested against are those of the book it joins (`CapInv`).
* `TypeCorrect`, which includes that cash is never negative.  Proviso (`CostsCovered`): the
  smallest position admitted can pay its exit and the longest borrow out of the half
  that no stop can lose.  The code has no such check; without it a long enough
  borrow makes cash negative.

### Search (WalkForward_proofs)

* `FoldsLeakOnlyBoundaries` (`LeaksOnlyBoundaries`): the window does not change, so the
  theorem is arithmetic: bounds of the truncated division (`DivBounds`), monotonicity of
  the fold ends (`MulMono`, `FoldSpans`), the loop's early break included, and from these
  which closed intervals meet, and where (`BoundariesOnly`).  The embargo-0 day and the
  first day of the holdout are in the statement: it says that they are shared.
* `TypeCorrect`: any order of steps keeps the pool's four places within the requests.
* `PoolIsSequential` (`SearchIsScheduleFree`): until it is interrupted each request is in exactly
  one place and has been run once if it is past the first (`HandedOut`).  When none is
  left to collect, the rows are those of the sequential path in another order, and
  the first of the best in the one is the first of the best in the other
  (`WinnerBeatsAll`).

### The trial store (TrialStore_proofs)

* `TypeCorrect`, `NothingUncounted` (`NoUndercount`), `QuarantineLasts` (`QuarantineSticks`),
  `ReplaysCountAll` (`ReplayCarriesCounts`).  `IndexInv` is the heart: until a race nothing in
  the code orders has happened (`doubtful`), the index is whole, or carries the sentinel
  that makes the next open rebuild it, or a rebuild is at work whose replay has kept
  up with what it has read (`Caught`).  The others say where lines are in the journal
  (`JournalInv`), what a process in each step holds (`JobsInv`), and that a replay's running
  total is that of the last round it has read (`TotalsInv`, `ReplayInv`).  `NamesInv` says that a row without a strategy is a round of a session
  whose first line is nowhere in the journal: that line comes before every round,
  so a replay that has not read it when it reads a round never will.  As in the
  model, nothing is claimed while `doubtful`.

### Induction over data (DataInduction)

The library's induction theorems take the statement as an operator parameter, which
the provers cannot instantiate.  A set can be instantiated: a claim about all
naturals is proved from a least counterexample (`NatMin`, from the well-foundedness of
finite subsets), a claim about finite sets from a minimal one (`SubsetMin`).  From
these follow that a function defined from the value before exists (`Recursion`), what
a sum over a finite set is, and how it changes when one summand does (`SumChange`,
`SumRemove`, `SumSplit`, `SumAdd`).  Proofs about the walk, the book, the ledger's file
and the trial counts all rest on them.

Proving showed what TLC had not: guards of `CASE` that overlapped, in `Reaffirm` and
`Divergence`, where TLC takes the first and the logic any; they are disjoint now.

### What stays with TLC

Liveness under fairness: `ConvergesOnIntent`, `UnwantedPositionCloses`, `PositionBecomesKnown`,
`HandlersReturn`, `StopEndsProcess`, `ValidationEnds`.  And the run that expects a violation.

## 5. Where code and documentation disagree

One run shows what the code does against a sentence of the repository:

* `LiveExitFill`: the close zeroes the symbol when its order is placed, and the
  order's own fill is subtracted afterwards (engine/live.py:476): the ledger
  expects the opposite position.  live-trading.md:760: "an exit nets against it".

The modules define further statements of the repository that TLC refutes, each
marked as not holding where it is defined; a configuration with the named
property as its only one reproduces the counterexample:

* `DirectionMatchesResearch` (StrategyClock, bands with hysteresis only): an entry
  older than the buffer is forgotten and `_reaffirm` closes a position the research
  clock holds (base.py:497; "the two paths differ only in the case where the live
  one has fallen behind").  The default buffer is long: a long-held position.
* `ReconcilesWhenTold` (PositionLedger, the fault `midorder`): a restart between two
  fills of an order adopts the first part; the order's next report is its running
  total, and the part is counted twice (ledger.py:581).
* `ReportsStayReadable` (PositionLedger, the fault `torn`): `_append` never starts on a
  fresh line, so the record after a torn one is lost too (ledger.py:499).
* `DeclinedExitKeepsExpectation` (LiveTrading, the fault `decline`, with ledger): an exit
  that was declined carries no order, and every exit without an order is recorded as
  a close (engine/live.py:475): the ledger forgets a position the account holds.
* `HedgeIsAdmitted` (Backtest, the constants of its run): from over the net cap an
  entry that reduces the tilt without curing it is refused (backtest.py:1075; the
  live path tests the same).  configuration.md:99-101: "an entry that moves the book
  toward flat is admitted even from over the cap".
* `NeverTruncated` (HaltFile, two commands): one truncates the temporary the other is
  about to rename (halt.py:162-165; "a process killed mid-write leaves the previous
  state intact").  A torn file reads as no halt.  This is why the switch's promise is
  void while commands overlap.
* `SignalAlwaysEnds` (Shutdown): a loop blocked before the first signal never sees it,
  and the watchdog is started by the loop; and once it is disarmed a worker that
  never returns holds the interpreter's exit (streaming.py:156-163, "a stop signal
  always ends the process").
* `NothingSentWhileStopping` (Shutdown): the worker thread is not cancelled and may
  still submit (cli.py:4011, "No orders were sent while shutting down").

Counterexamples met while modelling, which a property above is stated to allow for:

* The halt is read before the working-order read and the submission, so an entry
  may follow a halt (`HaltStopsEntries` in LiveTrading fails), and so an account
  may refill by one entry after a flatten said the engine cannot re-enter
  (flatten.py:130-132).  `OneSlipsPastHalt` is the bound.
* A sweep between an entry's submission and its fill replaces the book with the
  broker's positions, which do not have it yet; the limits stop counting it and
  another symbol may enter (`BookWithinLimit` in LiveTrading fails once both
  fill).  live-trading.md:868 says `max_positions` "bounds what the book holds".
* One failed `list_open_orders` after an unfilled entry, on a later bar, gives a
  symbol two working entries: the id differs by bar, and the failure reads as no
  orders (live_trader.py:250-253, alpaca/broker.py:292-294).
* A stale report is a later line, so an order's smaller total replaces its larger
  one (ledger.py:522-526 calls the replay idempotent under repeated history).
* Fills written before `basis` existed are summed by `_replay` and replaced by
  `filled_quantity` (ledger.py:557-577, 89-115): both say "the old way".
* `complete` treats an unreadable order list as failing it (flatten.py:82), but the
  Alpaca adapter answers such a failure with an empty list.  With the cancel and
  the close failing too, three faults, `Flatten` reports complete beside a working
  entry.  With two it cannot.
* `_confirm` reads positions, then orders.  An engine exiting between the two can
  make both come back empty beside an open position, which is why
  `CompleteLeavesOnlySlipped` excuses the symbols of `since.crossed`.
* After a flatten beside a *running* engine, the fill of the flattening order that
  arrives after the `flattened` record counts against it, as in `LiveExitFill`;
  `FlattenSettlesLedger` is therefore about an account no engine trades.
* *Trial store*, the races of `doubtful`.  The DROPs commit one by one and the sentinel
  is written after the tables: a rebuild killed in between leaves an empty index that
  the next open stamps as current (trials.py:859-866; the comment there says an
  interrupted rebuild is detected).  An index a rebuild left empty is not refused
  without its journal: the next open replays nothing and clears the sentinel.  Any
  opener during a rebuild starts a second one, and the first to finish clears the
  other's sentinel.  A row recorded between the refusal check and the drop goes
  with it.  A delayed `INSERT OR REPLACE` of a row a replay has already written
  clears its quarantine, or the count it carried.
* A torn journal line swallows the next record (audit.py:136), as in the ledger.  When
  that record is a session's first line, a rebuild has no strategy for its
  rounds, records them with `strategy=None` and leaves them out of every `family_count`:
  the undercount trials.py:935-941 describes.  The code warns and `trials status` counts
  them as orphaned; nothing repairs it.  `NoUndercount` says that this is the only way
  out of a family.
* `audit_log` opens the journal to append (audit.py:134-136) and so creates one that is
  missing.  `LoseJournal` is a journal that cannot be opened; where it is deleted instead,
  the next append makes a fresh one, which then reads as present, and the next
  rebuild replays it and is not refused.
* *Search.*  Configurations that raise are dropped from the count the docstring says they
  belong to (parallel.py:160, optimizer.py:296-300), so are those of a fold without a
  winner; the sequential path counts a repeated draw twice and the pool once.  Ctrl-C
  in a pool is logged and the validation goes on to the next fold with what it had
  (parallel.py:252, "reports the run as partial"), and results that were finished but
  not collected are lost.  A window too short for its folds gets more or fewer
  than were asked for.
* *Search*, its boundaries.  A slice of bars keeps both its ends (walk_forward.py:355).
  With an embargo of 0 (`--embargo-days 0`; the default is 1 at the least) a fold is
  scored on the day its training ends, and the last search reads up to the day the
  holdout begins (walk_forward.py:901), on which the holdout is then scored.
  walk_forward.py:15-21 says "No fold-boundary leakage" and that the holdout is "never
  passed to any optimizer call", the docstring of `build_folds` "provably disjoint from
  every IS/OOS window", and engineering/walk-forward.md:22 draws the test span open at
  its start.  `LeaksOnlyBoundaries` says that it is that one day and no other.
  With daily bars it is one bar; a longer overlap would violate the property.
* `build_folds` with `--test-days 0` never leaves its loop (walk_forward.py:485-493): the end
  of the training span does not move.
* *Backtest.*  A stop reached within a bar frees its capital for entries at that bar's
  open, and the same symbol may be entered again there (the comment of
  `ACCOUNTING_VERSION`, backtest.py:70-76, says admission does not depend on what the
  bar does later); stops fill at their level through a gap.

Read, and not modelled:

* `maintenance.archive` moves the journal, then the index (maintenance.py:240): a
  crash in between leaves the old rows beside a fresh journal, which the next
  rebuild empties.
* The bar cache records a window as covered before it writes the bars
  (store/bars.py:396-399); a failure in between is a gap no later fetch fills.
* `main` answers Ctrl-C with "no trial recorded" (cli.py:7146), and an interrupted
  research session has journaled its rounds.
* An interrupted or advancing research session compares a candidate's median
  fold with the incumbent's aggregate (research/agent.py), and the live row of a round
  carries the proposal's strategy where a rebuild writes the session's.

## 6. What is not modelled, and the plan

Abstracted in the modelled parts: prices, sizing, decision texts and guards lists,
timestamps; in LiveTrading one strategy, one halt scope (HaltFile has several), and of the
limits the number of positions, gross and net, each always set (`max_total_risk`, and a
limit of 0 or none, which the code skips, are left out); in Shutdown `shutdown_asyncgens`
(streaming.py:312), taken to return at once: the watchdog is still armed while it runs;
`take_profit_margin_bps` of the backtest, which only makes a target harder to reach;
NaN scores; session headers and outcomes in the ledger; the sweep's report (it
reads the expectation, then the positions, and a fill between the two shows as
drift); the reasons of a blind start; real-valued prices, sizes and costs in Backtest,
its metrics, leg and excursion reports; the Bayesian rounds, every statistic and
diagnostic of WalkForward; the side tables, queries and memo keys of the trial store.

Next, in this order:

1. *Proofs* of what still carries a proviso: `NoOversell` of the symbols whose reads
   answered although others' did not; `CashInv` of Backtest under the weaker condition
   of the default configuration; the trial store with one of its races at a time.
2. *TradeClock*, an abstract specification in which handling a signal is one
   atomic step, and LiveTrading shown to implement it, by TLC and then step by step in
   LiveTrading_proofs (`LockInv` is what it will rest on).
3. *BarStore* (`store/bars.py`, `data/store.py`): coverage of a partly fetched window,
   two processes filling one gap, the incomplete last bar.
4. *BarFilter* (`engine/barcheck.py`): a rejected bar must not make every later
   one be rejected; composed before StrategyClock.
5. *ResearchAgent* (`research/agent.py`): rounds, dry budget, incumbent, and the
   once-only holdout over TrialStore; archiving beside it.

Left out for good: portfolio, risk, alpha, cost and analytics arithmetic (real
numbers, no control), indicator code, market-data clients and scanners (I/O),
the command line, MCP server and reports (argument handling and layout around the
modelled parts).
