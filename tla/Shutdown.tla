------------------------------ MODULE Shutdown ------------------------------
(***************************************************************************)
(* The life of a live session's process: run_until_stopped around          *)
(* LiveEngine.start, the reconnecting streams start owns, the worker       *)
(* thread a bar callback blocks in, the stop signals and the watchdog.     *)
(*                                                                         *)
(* Everything but the worker and the watchdog runs on the event loop, and  *)
(* third-party code may block the loop at any moment and for good.  The    *)
(* clock counts the seconds since the stop began; a loop timer that is due *)
(* fires before it advances unless the loop is blocked.                    *)
(***************************************************************************)
EXTENDS Naturals

CONSTANTS
  Streams,           \* the market-data stream and, maybe, the trade-update stream
  Market,            \* the one whose bars make the worker call the broker
  ShutdownTimeout,   \* engine.live.SHUTDOWN_TIMEOUT
  TeardownTimeout,   \* what the commands pass to run_until_stopped
  HardExitGrace,
  MaxSignals         \* bound on the stop signals sent

ASSUME ShutdownAssumption ==
  /\ Market \in Streams
  /\ ShutdownTimeout \in Nat /\ TeardownTimeout \in Nat /\ HardExitGrace \in Nat
  /\ ShutdownTimeout < TeardownTimeout /\ ShutdownTimeout < HardExitGrace
  /\ MaxSignals \in Nat

VARIABLES
  phase,      \* where the main thread is
  stream,     \* the task of each stream
  call,       \* the worker thread: is it in handle_signal?
  late,       \* orders sent since the stop was requested, up to 2
  blocked,    \* does third-party code keep the loop from running?
  pending,    \* stop signals the loop has not looked at
  handlers,   \* who receives the next stop signal
  watchdog,   \* is the daemon timer running?
  clock,      \* seconds since the teardown began
  drainBy,    \* when _drain stops waiting
  stalled,    \* of those seconds, the ones the loop was blocked
  abandoned,  \* was the session left behind?
  signals,    \* stop signals sent
  exit        \* how the process ended

threads == <<call, late, blocked>>
timers  == <<watchdog, clock, drainBy, stalled>>
outcome == <<abandoned, exit>>
shutdownVars == <<phase, stream, threads, pending, handlers, timers, outcome, signals>>

WatchdogAt == TeardownTimeout + HardExitGrace

StreamStates == {"none", "up", "backoff", "closing", "closed"}

StatesOK ==
  /\ phase \in {"warmup", "session", "cancel", "unwind", "drain", "close", "join", "gone"}
  /\ stream \in [Streams -> StreamStates]
  /\ call \in {"idle", "busy", "done"}
  /\ handlers \in {"loop", "forced", "default"}
  /\ exit \in {"none", "returned", "second signal", "watchdog", "killed"}

FlagsOK == blocked \in BOOLEAN /\ watchdog \in BOOLEAN /\ abandoned \in BOOLEAN

CountsOK ==
  /\ late \in 0..2 /\ pending \in 0..MaxSignals /\ signals \in 0..MaxSignals
  /\ clock \in 0..WatchdogAt /\ stalled \in 0..clock
  /\ drainBy \in 0..(WatchdogAt + TeardownTimeout)

ShutdownTypeOK == StatesOK /\ FlagsOK /\ CountsOK

ShutdownInit ==
  /\ phase = "warmup"
  /\ stream = [s \in Streams |-> "none"]
  /\ call = "idle" /\ late = 0 /\ blocked = FALSE
  /\ pending = 0 /\ signals = 0 /\ handlers = "loop"
  /\ watchdog = FALSE /\ clock = 0 /\ drainBy = 0 /\ stalled = 0
  /\ abandoned = FALSE /\ exit = "none"

LoopAlive == phase \in {"session", "cancel", "unwind", "drain", "close"}
LoopRuns  == LoopAlive /\ ~blocked

-----------------------------------------------------------------------------
(* The session *)

\* Warm-up and cold start run on the loop, synchronously: nothing else does.
WarmedUp ==
  /\ phase = "warmup"
  /\ phase' = "session"
  /\ stream' = [s \in Streams |-> "up"]
  /\ UNCHANGED <<threads, pending, handlers, timers, outcome, signals>>

\* What cancelling makes of the streams: a backoff sleep ends at once, a
\* connection has a socket to close first.
Cancelled == [s \in Streams |-> IF stream[s] = "up" THEN "closing"
                                ELSE IF stream[s] = "backoff" THEN "closed" ELSE stream[s]]

\* Mutant of EngineBound: start waits as long as the session may.
WholeBudget == TeardownTimeout

\* How long start waits for its cancelled streams.
EngineBound == ShutdownTimeout

\* Mutant of DrainUntil: stragglers are waited for until the watchdog's time.
UntilWatchdog == WatchdogAt

\* When _drain stops waiting.
DrainUntil == clock + TeardownTimeout

\* The main thread leaves the session: every handler installed on the loop is
\* removed, tasks still pending are cancelled and given until drainBy.
BeginDrain ==
  /\ phase' = "drain"
  /\ stream' = Cancelled
  /\ drainBy' = DrainUntil
  /\ handlers' = IF handlers = "loop" THEN "default" ELSE handlers
  /\ pending' = 0

\* BlindStartError out of warm-up, or every stream ended by itself.
SessionEnds ==
  /\ \/ phase = "warmup"
     \/ phase = "session" /\ LoopRuns /\ \A s \in Streams : stream[s] = "closed"
  /\ BeginDrain
  /\ UNCHANGED <<threads, watchdog, clock, stalled, outcome, signals>>

\* run_with_reconnect: a failed connection backs off and connects again; one
\* that ends normally is not reopened.
ConnectionFails(s) ==
  /\ phase = "session" /\ LoopRuns /\ stream[s] = "up"
  /\ stream' = [stream EXCEPT ![s] = "backoff"]
  /\ UNCHANGED <<phase, threads, pending, handlers, timers, outcome, signals>>

Reconnect(s) ==
  /\ phase = "session" /\ LoopRuns /\ stream[s] = "backoff"
  /\ stream' = [stream EXCEPT ![s] = "up"]
  /\ UNCHANGED <<phase, threads, pending, handlers, timers, outcome, signals>>

StreamEnds(s) ==
  /\ phase = "session" /\ LoopRuns /\ stream[s] = "up"
  /\ stream' = [stream EXCEPT ![s] = "closed"]
  /\ UNCHANGED <<phase, threads, pending, handlers, timers, outcome, signals>>

\* A bar's signal is handed to a worker thread, which no cancellation reaches.
CallBroker ==
  /\ LoopRuns /\ stream[Market] = "up" /\ call = "idle"
  /\ call' = "busy"
  /\ UNCHANGED <<phase, stream, late, blocked, pending, handlers, timers, outcome, signals>>

\* handle_signal ends in an order, or in none.
SendOrder ==
  /\ call = "busy" /\ phase # "gone"
  /\ call' = "done"
  /\ late' = IF phase \in {"warmup", "session"} \/ late = 2 THEN late ELSE late + 1
  /\ UNCHANGED <<phase, stream, blocked, pending, handlers, timers, outcome, signals>>

CallReturns ==
  /\ call = "busy" /\ phase # "gone"
  /\ call' = "done"
  /\ UNCHANGED <<phase, stream, late, blocked, pending, handlers, timers, outcome, signals>>

\* The stream takes the next bar.  A worker's end reaches it two loop iterations
\* later, a cancellation already under way in one.
Resume ==
  /\ LoopRuns /\ phase # "cancel" /\ stream[Market] = "up" /\ call = "done"
  /\ call' = "idle"
  /\ UNCHANGED <<phase, stream, late, blocked, pending, handlers, timers, outcome, signals>>

\* Third-party code blocks the loop, and may let it go.
Block ==
  /\ LoopAlive
  /\ blocked' = ~blocked
  /\ UNCHANGED <<phase, stream, call, late, pending, handlers, timers, outcome, signals>>

-----------------------------------------------------------------------------
(* Stopping *)

Gone(how) == phase' = "gone" /\ exit' = how

\* A signal goes to the loop, which may not be looking; to the plain handler
\* that forces an exit; or to the default action.
Signal ==
  /\ phase # "gone" /\ signals < MaxSignals
  /\ signals' = signals + 1
  /\ IF handlers = "loop"
     THEN pending' = pending + 1 /\ UNCHANGED <<phase, exit>>
     ELSE Gone(IF handlers = "forced" THEN "second signal" ELSE "killed") /\ UNCHANGED pending
  /\ UNCHANGED <<stream, threads, handlers, timers, abandoned>>

\* Mutant of Request: the watchdog is left for when the loop returns.
RequestUnwatched ==
  /\ phase = "session" /\ LoopRuns /\ pending = 1
  /\ phase' = "cancel"
  /\ handlers' = "forced" /\ pending' = 0
  /\ UNCHANGED <<stream, threads, timers, outcome, signals>>

\* The first signal cancels start, starts the watchdog and hands the signals to
\* the plain handler.
Request ==
  /\ phase = "session" /\ LoopRuns /\ pending = 1
  /\ phase' = "cancel"
  /\ watchdog' = TRUE
  /\ handlers' = "forced" /\ pending' = 0
  /\ UNCHANGED <<stream, threads, clock, drainBy, stalled, outcome, signals>>

\* Mutant of CancelStreams: the streams are left to whoever collects them.
LeaveStreams ==
  /\ phase = "cancel" /\ LoopRuns
  /\ phase' = "unwind"
  /\ UNCHANGED <<stream, threads, pending, handlers, timers, outcome, signals>>

\* The cancellation reaches start, whose finally cancels every stream.
CancelStreams ==
  /\ phase = "cancel" /\ LoopRuns
  /\ phase' = "unwind"
  /\ stream' = Cancelled
  /\ UNCHANGED <<threads, pending, handlers, timers, outcome, signals>>

\* Two signals the loop reads together: the second forces the exit.
RequestTwice ==
  /\ phase = "session" /\ LoopRuns /\ pending > 1
  /\ Gone("second signal")
  /\ UNCHANGED <<stream, threads, pending, handlers, timers, abandoned, signals>>

\* A cancelled stream finishes its cleanup, when its own code lets it.
StreamCloses(s) ==
  /\ phase \in {"unwind", "drain"} /\ LoopRuns /\ stream[s] = "closing"
  /\ stream' = [stream EXCEPT ![s] = "closed"]
  /\ UNCHANGED <<phase, threads, pending, handlers, timers, outcome, signals>>

AllClosed == \A s \in Streams : stream[s] = "closed"

\* start's finally: its streams are closed, or its wait for them is over.
StartReturns ==
  /\ phase = "unwind" /\ LoopRuns
  /\ AllClosed \/ clock >= EngineBound
  /\ BeginDrain
  /\ UNCHANGED <<threads, watchdog, clock, stalled, outcome, signals>>

\* _await_bounded: the session has outlasted its budget.
Abandon ==
  /\ phase = "unwind" /\ LoopRuns
  /\ clock >= TeardownTimeout
  /\ abandoned' = TRUE
  /\ BeginDrain
  /\ UNCHANGED <<threads, watchdog, clock, stalled, exit, signals>>

\* _drain: nothing is pending, or the moment it gives is over.
Drained ==
  /\ phase = "drain" /\ LoopRuns
  /\ (\A s \in Streams : stream[s] # "closing") \/ clock >= drainBy
  /\ phase' = "close"
  /\ UNCHANGED <<stream, threads, pending, handlers, timers, outcome, signals>>

\* The loop is closed and the watchdog disarmed.
CloseLoop ==
  /\ phase = "close" /\ LoopRuns
  /\ phase' = "join"
  /\ watchdog' = FALSE
  /\ UNCHANGED <<stream, threads, pending, handlers, clock, drainBy, stalled, outcome, signals>>

\* The interpreter exits, joining the worker thread.
Join ==
  /\ phase = "join" /\ call # "busy"
  /\ Gone("returned")
  /\ UNCHANGED <<stream, threads, pending, handlers, timers, abandoned, signals>>

-----------------------------------------------------------------------------
(* Time *)

Fires ==
  /\ watchdog /\ clock >= WatchdogAt /\ phase # "gone"
  /\ Gone("watchdog")
  /\ UNCHANGED <<stream, threads, pending, handlers, timers, abandoned, signals>>

\* No loop timer is due.
NothingDue ==
  \/ phase = "unwind" /\ clock < EngineBound
  \/ phase = "drain" /\ clock < drainBy

\* Mutant of Tick: time passes the watchdog and every other timer by.
TickOver ==
  /\ phase \in {"cancel", "unwind", "drain", "close"}
  /\ clock' = clock + 1
  /\ stalled' = IF blocked THEN stalled + 1 ELSE stalled
  /\ UNCHANGED <<phase, stream, threads, pending, handlers, watchdog, drainBy, outcome, signals>>

Tick ==
  /\ phase \in {"cancel", "unwind", "drain", "close"} /\ clock < WatchdogAt
  /\ blocked \/ NothingDue
  /\ clock' = clock + 1
  /\ stalled' = IF blocked THEN stalled + 1 ELSE stalled
  /\ UNCHANGED <<phase, stream, threads, pending, handlers, watchdog, drainBy, outcome, signals>>

-----------------------------------------------------------------------------
LoopStep == \/ Request \/ RequestTwice \/ SessionEnds \/ CancelStreams
            \/ StartReturns \/ Abandon \/ Drained \/ CloseLoop

ThirdParty == \/ WarmedUp \/ Block
              \/ \E s \in Streams : ConnectionFails(s) \/ Reconnect(s) \/ StreamEnds(s) \/ StreamCloses(s)

Worker == CallBroker \/ SendOrder \/ CallReturns \/ Resume

ShutdownNext == ThirdParty \/ Worker \/ Signal \/ LoopStep \/ Join \/ Fires \/ Tick

\* A loop that is let go runs what is ready before it is blocked again (its
\* callbacks are taken in order), time passes, the timer thread runs, and a
\* broker call returns.  Third-party code owes nothing: a blocked loop need
\* never be let go, a stream need never finish closing.
Fairness ==
  /\ SF_shutdownVars(LoopStep) /\ WF_shutdownVars(Join) /\ WF_shutdownVars(Fires) /\ WF_shutdownVars(Tick)
  /\ WF_shutdownVars(CallReturns)

ShutdownSpec == ShutdownInit /\ [][ShutdownNext]_shutdownVars /\ Fairness

-----------------------------------------------------------------------------
(* Once the loop has taken a stop signal the process ends, whatever third-party
   code does to the loop or leaves unfinished. *)
StopEndsProcess == phase = "cancel" ~> phase = "gone"

(* The watchdog kills only a process whose loop was blocked, for at least the
   seconds by which the loop's own bounds beat it: streams that will not close
   are not enough. *)
WatchdogSparesLiveLoop == exit = "watchdog" => stalled >= HardExitGrace - ShutdownTimeout

(* The engine gives up on its streams before it is given up on itself, unless
   the loop was blocked across the margin between the two. *)
EngineUnwindsFirst == abandoned => stalled >= TeardownTimeout - ShutdownTimeout

(* At most one order is sent once the stop has been asked for: that of the
   decision a worker was at, which no cancellation reaches.  No other follows
   from bars still arriving while the streams close. *)
OneOrderAfterStop == late <= 1

(* What the code says of itself and does not hold; see the README.
   "A stop signal always ends the process": *)
SignalAlwaysEnds == signals > 0 ~> phase = "gone"

(* "No orders were sent while shutting down": *)
NothingSentWhileStopping == late = 0
=============================================================================
