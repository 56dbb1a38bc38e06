------------------------------- MODULE Flatten -------------------------------
(***************************************************************************)
(* The operator's flatten, a process of its own, run once against the      *)
(* account the engine of LiveTrading is trading: halt, cancel everything,  *)
(* close everything, read back what is open, tell the ledger.  Every call  *)
(* of flatten() is a step, and none is skipped because an earlier one      *)
(* failed; the engine, the venue and a `resume` act between them.          *)
(***************************************************************************)
EXTENDS LiveTrading

VARIABLES
  step,      \* the next call of flatten()
  outcome,   \* its FlattenReport, and whether the ledger was told
  closing,   \* the symbols the ledger expected and has not been told about
  since      \* what happened around it since its first step

flattenVars == <<step, outcome, closing, since>>
allVars     == <<vars, flattenVars>>

Steps == {"halt", "cancel", "close", "positions", "orders", "expect", "record", "done"}

FlattenReport ==
  [halted : BOOLEAN, submitted : BOOLEAN, observed : {"unknown", "pending", "no", "closed"},
   resting : {"unknown", "none", "some"}, told : BOOLEAN]

\* upheld: the halt it set stands; alone: no engine has run; crossed: the
\* symbols the engine has been taking an exit of its own in.
Since == [upheld : BOOLEAN, alone : BOOLEAN, crossed : SUBSET Symbols]

FlattenTypeOK ==
  /\ TypeOK
  /\ step \in Steps
  /\ outcome \in FlattenReport
  /\ closing \subseteq Symbols
  /\ since \in Since

FlattenInit ==
  /\ Init
  /\ step = "halt"
  /\ outcome = [halted |-> FALSE, submitted |-> FALSE, observed |-> "unknown",
                resting |-> "unknown", told |-> FALSE]
  /\ closing = {}
  /\ since = [upheld |-> FALSE, alone |-> FALSE, crossed |-> {}]

\* Mutant of Complete: the positions decide alone.
PositionsClosed == outcome.halted /\ outcome.observed = "closed"

\* FlattenReport.complete
Complete == outcome.halted /\ outcome.observed = "closed" /\ outcome.resting = "none"

-----------------------------------------------------------------------------
(* The steps of flatten() *)

\* The symbols whose handler is between its cancel and its close.
Exiting == {s \in Symbols : handler[s].phase \in {"cancel", "close"}}

Do(current, next) == step = current /\ step' = next

\* The halt is recorded, or the file cannot be written and it goes on.
FlattenHalt ==
  /\ Do("halt", "cancel")
  /\ \/ /\ NoFault
        /\ halted' = TRUE
        /\ slipped' = IF halted THEN slipped ELSE 0
        /\ outcome' = [outcome EXCEPT !.halted = TRUE]
     \/ Fault("flatten") /\ UNCHANGED <<halted, slipped, outcome>>
  /\ since' = [upheld |-> outcome'.halted, alone |-> ~running, crossed |-> Exiting]
  /\ UNCHANGED <<venueVars, engineVars, ledger, closing>>

\* cancel_all_orders
FlattenCancel ==
  /\ Do("cancel", "close")
  /\ \/ NoFault /\ orders' = {}
     \/ Fault("flatten") /\ UNCHANGED orders
  /\ UNCHANGED <<position, accepted, count, reports, engineVars, halted, ledger, slipped,
                 outcome, closing, since>>

\* The order that closes what is held of a symbol.
FlatOrder(s) ==
  [id |-> <<s, count[s], "flat">>, sign |-> IF position[s] > 0 THEN -1 ELSE 1,
   left |-> Abs(position[s]), done |-> 0]

\* close_all_positions(cancel_orders=True): accepted as a whole, though the venue
\* may refuse one symbol without a word, or not accepted.
FlattenClose ==
  /\ Do("close", "positions")
  /\ \/ /\ \E refused \in SUBSET {s \in Symbols : position[s] # 0} :
             /\ Cardinality(refused) <= 1
             /\ IF refused = {} THEN NoFault ELSE Fault("refuse")
             /\ orders' = {FlatOrder(s) : s \in {t \in Symbols \ refused : position[t] # 0}}
        /\ outcome' = [outcome EXCEPT !.submitted = TRUE]
     \/ Fault("flatten") /\ UNCHANGED <<orders, outcome>>
  /\ UNCHANGED <<position, accepted, count, reports, engineVars, halted, ledger, slipped,
                 closing, since>>

\* Mutant of Observed: what was asked for is what was observed.
ObservedAsAsked ==
  IF \A s \in Symbols : position[s] = 0 THEN "closed"
  ELSE IF outcome.submitted THEN "submitted" ELSE "no"

\* What a read of the positions establishes.
Observed ==
  IF \A s \in Symbols : position[s] = 0 THEN "closed"
  ELSE IF outcome.submitted THEN "pending" ELSE "no"

\* _confirm's read of the positions; a failed one ends the confirmation, and
\* nothing is recorded in the ledger.
ConfirmPositions ==
  /\ step = "positions"
  /\ \/ NoFault /\ outcome' = [outcome EXCEPT !.observed = Observed] /\ step' = "orders"
     \/ Fault("flatten") /\ step' = "done" /\ UNCHANGED outcome
  /\ UNCHANGED <<venueVars, engineVars, halted, ledger, slipped, closing, since>>

\* _confirm's read of the resting orders, a call later.  A broker that cannot
\* list them raises, or, like the Alpaca adapter, answers that there are none.
ConfirmOrders ==
  /\ Do("orders", IF WithLedger /\ outcome.observed = "closed" THEN "expect" ELSE "done")
  /\ \/ /\ NoFault
        /\ outcome' = [outcome EXCEPT !.resting = IF orders = {} THEN "none" ELSE "some"]
     \/ /\ Fault("flatten")
        /\ \E answer \in {"unknown", "none"} : outcome' = [outcome EXCEPT !.resting = answer]
  /\ UNCHANGED <<venueVars, engineVars, halted, ledger, slipped, closing, since>>

\* Mutant of ReadExpectation: the symbols still open, which are none by now.
ReadRemaining ==
  /\ Do("expect", "record")
  /\ closing' = {s \in Symbols : position[s] # 0}
  /\ UNCHANGED <<vars, outcome, since>>

\* ledger.expected_positions
ReadExpectation ==
  /\ Do("expect", "record")
  /\ closing' = {s \in Symbols : ExpectedOf(s) # 0}
  /\ UNCHANGED <<vars, outcome, since>>

\* record_flatten appends one record per symbol; the engine appends in between.
RecordFlattened(s) ==
  /\ step = "record" /\ s \in closing
  /\ Record(FlattenRecord(s))
  /\ closing' = closing \ {s}
  /\ UNCHANGED <<venueVars, engineVars, halted, faults, slipped, step, outcome, since>>

\* Every record is written, or one could not be.
EndFlatten ==
  /\ Do("record", "done")
  /\ IF closing = {} THEN NoFault ELSE Fault("flatten")
  /\ outcome' = [outcome EXCEPT !.told = (closing = {})]
  /\ UNCHANGED <<venueVars, engineVars, halted, ledger, slipped, closing, since>>

FlattenStep ==
  \/ FlattenHalt \/ FlattenCancel \/ FlattenClose
  \/ ConfirmPositions \/ ConfirmOrders
  \/ ReadExpectation \/ (\E s \in Symbols : RecordFlattened(s)) \/ EndFlatten

-----------------------------------------------------------------------------
(* Everything else goes on meanwhile *)

Meanwhile ==
  /\ Next
  /\ UNCHANGED <<step, outcome, closing>>
  /\ since' = IF step = "halt" THEN since
              ELSE [upheld  |-> since.upheld /\ halted',
                    alone   |-> since.alone /\ ~running',
                    crossed |-> since.crossed \cup Exiting']

FlattenSpec == FlattenInit /\ [][Meanwhile \/ FlattenStep]_allVars

-----------------------------------------------------------------------------
(* Safety *)

\* A flatten that calls itself complete leaves nothing open, and nothing opens
\* while its halt stands, except what entries were past the halt check when it
\* was set.  A symbol the engine was exiting at the same time is excused: the
\* two cancel each other's orders and may both sell.
CompleteLeavesOnlySlipped ==
  Complete /\ since.upheld =>
    Cardinality({s \in Symbols \ since.crossed : position[s] # 0 \/ OrdersOf(s) # {}}) <= slipped

\* After a complete flatten of an account no engine is trading, the ledger
\* expects what the account holds: a reconciliation has nothing to report.
FlattenSettlesLedger ==
  WithLedger /\ step = "done" /\ Complete /\ outcome.told /\ since.alone =>
    \A s \in Symbols : ExpectedOf(s) = position[s]
=============================================================================
