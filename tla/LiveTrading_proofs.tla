-------------------------- MODULE LiveTrading_proofs --------------------------
(***************************************************************************)
(* What holds of LiveTrading, and of a Flatten beside it, for any universe, *)
(* any limits and any sizes: types, that the order lock makes               *)
(* check-then-submit atomic, and that at most one entry slips past a halt,  *)
(* under any faults; that a symbol never has two entries and is never sold  *)
(* past flat, while the reads of a callback are answered; that the ledger   *)
(* of entries is the account, while every update is told; and what a        *)
(* complete flatten leaves open and tells the ledger.                       *)
(***************************************************************************)
EXTENDS Flatten, DataInduction, TLAPS

-----------------------------------------------------------------------------
(* Types.  TypeOK is not inductive: the client order id of a submission and  *)
(* the count of orders are bounded only by what SignalBar let through.       *)

Working  == {"read", "halt", "pending", "submit", "cancel", "close"}
Entering == {"halt", "pending", "submit"}

PhaseOK ==
  \A s \in Symbols :
    /\ handler[s].phase \in Working =>
         /\ count[s] < MaxOrders
         /\ handler[s].signal \in EntrySignals => bar[s] \in 1..MaxBars
    /\ handler[s].phase \in Entering => handler[s].signal \in EntrySignals

TypeInv == TypeOK /\ PhaseOK

\* The ledger stays a ledger when a close or a fill is recorded in it.
LEMMA CloseTyped ==
  ASSUME NEW L \in [base : [Symbols -> Int], live : [OrderId -> Int]], NEW s \in Symbols, NEW ids
  PROVE  Apply(L, CloseRecord(s), ids) \in [base : [Symbols -> Int], live : [OrderId -> Int]]
<1> DEFINE r == CloseRecord(s)
<1>1. r.event = "close" /\ r.symbol = s
  BY DEF CloseRecord
<1> HIDE DEF r
<1>2. Apply(L, r, ids) = Rebase(L, s, 0, ids)
  BY <1>1 DEF Apply
<1>3. Rebase(L, s, 0, ids) \in [base : [Symbols -> Int], live : [OrderId -> Int]]
  BY DEF Rebase
<1> QED BY <1>2, <1>3 DEF r

LEMMA FillTyped ==
  ASSUME NEW L \in [base : [Symbols -> Int], live : [OrderId -> Int]],
         NEW s \in Symbols, NEW id \in OrderId, NEW qty \in Int, NEW ids
  PROVE  Apply(L, FillRecord(id, s, qty, "cumulative"), ids)
           \in [base : [Symbols -> Int], live : [OrderId -> Int]]
<1> DEFINE r == FillRecord(id, s, qty, "cumulative")
<1>1. r.event = "fill" /\ r.basis = "cumulative" /\ r.order = id /\ r.qty = qty
  BY DEF FillRecord
<1> HIDE DEF r
<1>2. Apply(L, r, ids) = [L EXCEPT !.live[id] = qty]
  BY <1>1 DEF Apply
<1> QED BY <1>2 DEF r

\* What an action leaves alone keeps its type.
LEMMA Unchanged ==
  /\ VenueOK /\ UNCHANGED venueVars => VenueOK'
  /\ TasksOK /\ UNCHANGED <<handler, queue, updating>> => TasksOK'
  /\ BookOK /\ UNCHANGED <<book, bar>> => BookOK'
  /\ FlagsOK /\ UNCHANGED <<running, sweepDue, halted>> => FlagsOK'
  /\ LedgerOK /\ UNCHANGED ledger => LedgerOK'
  /\ CountsOK /\ UNCHANGED <<faults, slipped>> => CountsOK'
<1>1. VenueOK /\ UNCHANGED venueVars => VenueOK'
  BY DEF VenueOK, venueVars
<1>2. TasksOK /\ UNCHANGED <<handler, queue, updating>> => TasksOK'
  BY DEF TasksOK
<1>3. BookOK /\ UNCHANGED <<book, bar>> => BookOK'
  BY DEF BookOK
<1>4. FlagsOK /\ UNCHANGED <<running, sweepDue, halted>> => FlagsOK'
  BY Zenon DEF FlagsOK
<1>5. LedgerOK /\ UNCHANGED ledger => LedgerOK'
  BY DEF LedgerOK
<1>6. CountsOK /\ UNCHANGED <<faults, slipped>> => CountsOK'
  BY DEF CountsOK
<1> QED BY <1>1, <1>2, <1>3, <1>4, <1>5, <1>6

\* A fault, or none, keeps the count of faults in bounds.
LEMMA FaultTyped ==
  ASSUME NEW kind, CountsOK, NoFault \/ Fault(kind), UNCHANGED slipped
  PROVE  CountsOK'
BY TradingAssumption DEF CountsOK, NoFault, Fault

LEMMA InitTyped == Init => TypeInv
<1> SUFFICES ASSUME Init PROVE TypeInv
  OBVIOUS
<1>1. VenueOK
  BY TradingAssumption DEF Init, VenueOK
<1>2. TasksOK
  <2>1. Idle \in [phase : Phases, signal : AllSignals, acted : BOOLEAN]
    BY DEF Idle, Phases, AllSignals
  <2> QED BY <2>1 DEF Init, TasksOK
<1>3. BookOK
  BY TradingAssumption DEF Init, BookOK
<1>4. FlagsOK
  BY Zenon DEF Init, FlagsOK
<1>5. LedgerOK
  BY DEF Init, LedgerOK, EmptyLedger
<1>6. CountsOK
  BY TradingAssumption DEF Init, CountsOK
<1>7. PhaseOK
  BY DEF Init, PhaseOK, Idle, Working, Entering
<1> QED BY <1>1, <1>2, <1>3, <1>4, <1>5, <1>6, <1>7 DEF TypeInv, TypeOK

LEMMA VenueTyped == TypeInv /\ Venue => TypeInv'
<1> SUFFICES ASSUME TypeInv, Venue PROVE TypeInv'
  OBVIOUS
<1> USE DEF TypeInv, TypeOK
<1>1. ASSUME NEW o \in orders, NEW n \in 1..o.left, Fill(o, n) PROVE TypeInv'
  <2> DEFINE s == o.id[1]
             filled == [id |-> o.id, sign |-> o.sign, left |-> o.left - n, done |-> o.done + n]
             leg == [id |-> <<o.id[1], o.id[2], "leg">>, sign |-> -o.sign, left |-> o.done + n, done |-> 0]
  <2>1. o \in Order /\ s \in Symbols /\ o.sign \in {1, -1} /\ n \in Nat /\ n <= o.left
    BY <1>1 DEF VenueOK, Order, OrderId
  <2>2. filled \in Order
    <3>1. o.id \in OrderId /\ o.left - n \in Nat /\ o.done + n \in Nat
      BY <2>1 DEF Order
    <3> QED BY <3>1, <2>1 DEF Order
  <2>3. leg \in Order
    <3>1. o.id \in Symbols \X (1..MaxOrders) \X Kinds
      BY <2>1 DEF Order, OrderId
    <3>2. <<o.id[1], o.id[2], "leg">> \in OrderId
      BY <3>1 DEF OrderId, Kinds
    <3>3. o.left \in Nat /\ o.done \in Nat /\ -o.sign \in {1, -1}
      BY <2>1 DEF Order
    <3> QED BY <3>2, <3>3, <2>1 DEF Order
  <2>4. orders' \subseteq Order
    BY <1>1, <2>2, <2>3 DEF Fill, VenueOK
  <2>5. position' \in [Symbols -> Int]
    BY <1>1, <2>1 DEF Fill, VenueOK, SymbolOf
  <2>6. [id |-> o.id, qty |-> o.sign * filled.done] \in Report
    BY <2>1, <2>2 DEF Report, Order
  <2>7. reports' \in Seq(Report)
    BY <1>1, <2>6 DEF Fill, VenueOK
  <2>8. VenueOK'
    BY <1>1, <2>4, <2>5, <2>7 DEF Fill, VenueOK
  <2>9. PhaseOK'
    BY <1>1 DEF Fill, PhaseOK, engineVars, VenueOK
  <2> QED BY <1>1, <2>8, <2>9, Unchanged DEF Fill, engineVars
<1>2. CASE LoseReport
  <2>1. reports' \in Seq(Report)
    BY <1>2 DEF LoseReport, VenueOK
  <2>2. VenueOK'
    BY <1>2, <2>1 DEF LoseReport, VenueOK
  <2>3. CountsOK'
    BY <1>2, FaultTyped DEF LoseReport
  <2>4. PhaseOK'
    BY <1>2 DEF LoseReport, PhaseOK, engineVars
  <2> QED BY <1>2, <2>2, <2>3, <2>4, Unchanged DEF LoseReport, engineVars
<1> QED BY <1>1, <1>2 DEF Venue

LEMMA OperatorTyped == TypeInv /\ Operator => TypeInv'
<1> SUFFICES ASSUME TypeInv, SetHalt \/ ClearHalt PROVE TypeInv'
  BY DEF Operator
<1> USE DEF TypeInv, TypeOK
<1>1. FlagsOK'
  BY Zenon DEF FlagsOK, SetHalt, ClearHalt, engineVars
<1>2. CountsOK'
  BY DEF CountsOK, SetHalt, ClearHalt
<1>3. PhaseOK'
  BY DEF PhaseOK, SetHalt, ClearHalt, venueVars, engineVars
<1> QED BY <1>1, <1>2, <1>3, Unchanged DEF SetHalt, ClearHalt, engineVars

\* One handler moves on; the others stay where they are.
LEMMA GoTyped ==
  ASSUME TasksOK, NEW s \in Symbols, NEW phase \in Phases, Go(s, phase)
  PROVE  /\ handler' \in [Symbols -> [phase : Phases, signal : AllSignals, acted : BOOLEAN]]
         /\ handler'[s].phase = phase /\ handler'[s].signal = handler[s].signal
         /\ \A t \in Symbols \ {s} : handler'[t] = handler[t]
<1> DEFINE h == [handler[s] EXCEPT !.phase = phase]
<1>1. handler[s] \in [phase : Phases, signal : AllSignals, acted : BOOLEAN]
  BY DEF TasksOK
<1>2. h \in [phase : Phases, signal : AllSignals, acted : BOOLEAN] /\ h.phase = phase /\ h.signal = handler[s].signal
  BY <1>1
<1>3. handler' = [handler EXCEPT ![s] = h]
  BY DEF Go
<1> HIDE DEF h
<1> QED BY <1>2, <1>3 DEF TasksOK

LEMMA DecideTyped ==
  ASSUME TasksOK, NEW s \in Symbols, NEW acted \in BOOLEAN, Decide(s, acted)
  PROVE  /\ handler' \in [Symbols -> [phase : Phases, signal : AllSignals, acted : BOOLEAN]]
         /\ handler'[s].phase = "done" /\ handler'[s].signal = handler[s].signal
         /\ \A t \in Symbols \ {s} : handler'[t] = handler[t]
<1> DEFINE h == [handler[s] EXCEPT !.phase = "done", !.acted = acted]
<1>1. handler[s] \in [phase : Phases, signal : AllSignals, acted : BOOLEAN]
  BY DEF TasksOK
<1>2. h \in [phase : Phases, signal : AllSignals, acted : BOOLEAN] /\ h.phase = "done" /\ h.signal = handler[s].signal
  BY <1>1 DEF Phases
<1>3. handler' = [handler EXCEPT ![s] = h]
  BY DEF Decide
<1> HIDE DEF h
<1> QED BY <1>2, <1>3 DEF TasksOK

\* A handler that returns, or returns to sweep, passes the lock on.
LEMMA ReturnTyped ==
  ASSUME TasksOK, NEW s \in Symbols, NEW lock \in Seq(Tasks), MaybeReconcile(s, lock), UNCHANGED updating
  PROVE  /\ TasksOK'
         /\ handler'[s].phase \in {"idle", "sync"}
         /\ \A t \in Symbols \ {s} : handler'[t] = handler[t]
<1> DEFINE h == IF sweepDue THEN [Idle EXCEPT !.phase = "sync"] ELSE Idle
<1>1. h \in [phase : Phases, signal : AllSignals, acted : BOOLEAN] /\ h.phase \in {"idle", "sync"}
  BY DEF Idle, Phases, AllSignals
<1>2. handler' = [handler EXCEPT ![s] = h]
  BY DEF MaybeReconcile
<1>3. queue' \in Seq(Tasks)
  BY DEF MaybeReconcile, Tasks
<1> HIDE DEF h
<1> QED BY <1>1, <1>2, <1>3 DEF TasksOK

\* A step inside one callback that takes no order and no bar.
LEMMA PhaseStep ==
  ASSUME PhaseOK, NEW s \in Symbols, UNCHANGED <<count, bar>>,
         \A t \in Symbols \ {s} : handler'[t] = handler[t],
         handler'[s].phase \in Working => handler[s].phase \in Working,
         handler'[s].phase \in Entering => handler[s].phase \in Entering \/ handler[s].signal \in EntrySignals,
         handler'[s].phase \in Working => handler'[s].signal = handler[s].signal
  PROVE  PhaseOK'
BY DEF PhaseOK, Working, Entering

\* The steps of a callback that read and decide.
LEMMA ReadingTyped ==
  ASSUME TypeInv, NEW s \in Symbols,
         ReadPosition(s) \/ Decline(s) \/ CheckHalt(s) \/ CheckOrdersAndLimits(s)
  PROVE  TypeInv'
<1> USE DEF TypeInv, TypeOK
<1>1. PICK phase \in {"halt", "cancel", "pending", "submit", "done"} :
        /\ Go(s, phase)
        /\ phase \in Entering => handler[s].phase \in Entering \/ handler[s].signal \in EntrySignals
  <2>1. CASE ReadPosition(s)
    BY <2>1 DEF ReadPosition, Entering
  <2>2. CASE Decline(s)
    BY <2>2 DEF Decline, Entering
  <2>3. CASE CheckHalt(s)
    BY <2>3 DEF CheckHalt, Entering
  <2>4. CASE CheckOrdersAndLimits(s)
    BY <2>4 DEF CheckOrdersAndLimits, Entering
  <2> QED BY <2>1, <2>2, <2>3, <2>4
<1>2. handler[s].phase \in Working
  BY DEF ReadPosition, Decline, CheckHalt, CheckOrdersAndLimits, Working
<1>3. /\ UNCHANGED <<venueVars, running, book, queue, updating, sweepDue, bar, halted, ledger, slipped>>
      /\ \E kind : NoFault \/ Fault(kind)
  BY DEF ReadPosition, Decline, CheckHalt, CheckOrdersAndLimits, NoFault
<1>4. phase \in Phases
  BY DEF Phases
<1>5. TasksOK'
  BY <1>1, <1>3, <1>4, GoTyped DEF TasksOK
<1>6. CountsOK'
  BY <1>3, FaultTyped
<1>7. PhaseOK'
  BY <1>1, <1>2, <1>3, <1>4, GoTyped, PhaseStep DEF venueVars
<1> QED BY <1>3, <1>5, <1>6, <1>7, Unchanged

\* An accepted order is an order, under an id of its own.
LEMMA AcceptTyped ==
  ASSUME VenueOK, NEW s \in Symbols, NEW kind \in Kinds, NEW sign \in {1, -1}, NEW qty \in Nat,
         count[s] < MaxOrders, Accept(s, kind, sign, qty)
  PROVE  /\ orders' \subseteq Order
         /\ count' \in [Symbols -> 0..MaxOrders]
         /\ \A t \in Symbols \ {s} : count'[t] = count[t]
<1>1. count[s] + 1 \in 1..MaxOrders
  BY TradingAssumption DEF VenueOK
<1>2. <<s, count[s] + 1, kind>> \in OrderId
  BY <1>1 DEF OrderId
<1>3. [id |-> <<s, count[s] + 1, kind>>, sign |-> sign, left |-> qty, done |-> 0] \in Order
  BY <1>2 DEF Order
<1>4. orders' \subseteq Order
  BY <1>3 DEF Accept, VenueOK
<1>5. count' \in [Symbols -> 0..MaxOrders] /\ \A t \in Symbols \ {s} : count'[t] = count[t]
  BY <1>1 DEF Accept, VenueOK
<1> QED BY <1>4, <1>5

LEMMA SubmitTyped ==
  ASSUME TypeInv, NEW s \in Symbols, Submit(s)
  PROVE  TypeInv'
<1> USE DEF TypeInv, TypeOK
<1>1. /\ handler[s].phase = "submit"
      /\ UNCHANGED <<position, reports, running, queue, updating, sweepDue, bar, halted, ledger>>
      /\ \E kind : NoFault \/ Fault(kind)
  BY DEF Submit
<1>2. PICK acted \in BOOLEAN : Decide(s, acted)
  BY Zenon DEF Submit
<1>3. TasksOK' /\ handler'[s].phase = "done" /\ \A t \in Symbols \ {s} : handler'[t] = handler[t]
  BY <1>1, <1>2, DecideTyped DEF TasksOK
<1>4. /\ handler[s].signal \in EntrySignals /\ bar[s] \in 1..MaxBars
      /\ count[s] < MaxOrders
      /\ SignOf(handler[s].signal) \in {1, -1}
  BY <1>1 DEF PhaseOK, Working, Entering, SignOf
<1>5. CASE UNCHANGED <<orders, count, accepted, slipped, book>>
  <2>1. VenueOK' /\ BookOK' /\ FlagsOK' /\ LedgerOK'
    BY <1>1, <1>5, Unchanged DEF venueVars
  <2>2. CountsOK'
    BY <1>1, <1>5, FaultTyped
  <2>3. PhaseOK'
    BY <1>1, <1>3, <1>5 DEF PhaseOK, Working, Entering
  <2> QED BY <1>3, <2>1, <2>2, <2>3
<1>6. ASSUME NEW answered \in BOOLEAN, PlaceEntry(s, answered) PROVE TypeInv'
  <2>1. /\ orders' \subseteq Order
        /\ count' \in [Symbols -> 0..MaxOrders]
        /\ \A t \in Symbols \ {s} : count'[t] = count[t]
    BY <1>4, <1>6, AcceptTyped, TradingAssumption DEF PlaceEntry, Kinds
  <2>2. ClientOrderId(s) \in Symbols \X EntrySignals \X (1..MaxBars)
    BY <1>4 DEF ClientOrderId
  <2>3. VenueOK'
    BY <1>1, <1>6, <2>1, <2>2 DEF VenueOK, PlaceEntry
  <2>4. BookOK'
    BY <1>1, <1>4, <1>6, TradingAssumption DEF BookOK, PlaceEntry
  <2>5. slipped' \in Nat
    BY <1>6 DEF PlaceEntry, CountsOK
  <2>6. faults' \in 0..MaxFaults
    BY <1>1, TradingAssumption DEF CountsOK, NoFault, Fault
  <2>7. PhaseOK'
    BY <1>1, <1>3, <2>1 DEF PhaseOK, Working, Entering
  <2> QED BY <1>1, <1>3, <2>3, <2>4, <2>5, <2>6, <2>7, Unchanged DEF CountsOK
<1> QED BY <1>5, <1>6, Zenon DEF Submit

LEMMA ExitTyped ==
  ASSUME TypeInv, NEW s \in Symbols, CancelResting(s) \/ ClosePosition(s)
  PROVE  TypeInv'
<1> USE DEF TypeInv, TypeOK
<1>1. CASE CancelResting(s)
  <2>1. TasksOK' /\ handler'[s].phase = "close" /\ handler'[s].signal = handler[s].signal
        /\ \A t \in Symbols \ {s} : handler'[t] = handler[t]
    BY <1>1, GoTyped DEF CancelResting, TasksOK, Phases
  <2>2. orders' \subseteq orders
    BY <1>1 DEF CancelResting, OrdersOf
  <2>3. VenueOK'
    BY <1>1, <2>2 DEF CancelResting, VenueOK
  <2>4. CountsOK'
    BY <1>1, FaultTyped DEF CancelResting
  <2>5. PhaseOK'
    BY <1>1, <2>1 DEF CancelResting, PhaseOK, Working, Entering
  <2> QED BY <1>1, <2>1, <2>3, <2>4, <2>5, Unchanged DEF CancelResting
<1>2. CASE ClosePosition(s)
  <2>1. PICK acted \in BOOLEAN : Decide(s, acted)
    BY <1>2, Zenon DEF ClosePosition
  <2>2. TasksOK' /\ handler'[s].phase = "done" /\ \A t \in Symbols \ {s} : handler'[t] = handler[t]
    BY <1>2, <2>1, DecideTyped DEF ClosePosition, TasksOK
  <2>3. count[s] < MaxOrders /\ -SignOf(handler[s].signal) \in {1, -1} /\ Abs(position[s]) \in Nat
    <3>1. handler[s].phase = "close"
      BY <1>2 DEF ClosePosition
    <3>2. count[s] < MaxOrders
      BY <3>1 DEF PhaseOK, Working
    <3>3. -SignOf(handler[s].signal) \in {1, -1}
      <4>1. SignOf(handler[s].signal) \in {1, -1}
        BY DEF SignOf
      <4> QED BY <4>1
    <3>4. position[s] \in Int
      BY DEF VenueOK
    <3> QED BY <3>2, <3>3, <3>4 DEF Abs
  <2>4. /\ orders' \subseteq Order
        /\ count' \in [Symbols -> 0..MaxOrders]
        /\ \A t \in Symbols \ {s} : count'[t] = count[t]
        /\ book' \in [Symbols -> Int]
    <3>1. CASE UNCHANGED <<orders, count, book>>
      BY <3>1 DEF VenueOK, BookOK
    <3>2. CASE /\ Accept(s, "close", -SignOf(handler[s].signal), Abs(position[s]))
               /\ book' = [book EXCEPT ![s] = 0] \/ UNCHANGED book
      BY <3>2, <2>3, AcceptTyped DEF Kinds, BookOK
    <3> QED BY <1>2, <3>1, <3>2 DEF ClosePosition
  <2>5. VenueOK' /\ BookOK'
    BY <1>2, <2>4 DEF ClosePosition, VenueOK, BookOK
  <2>6. CountsOK'
    BY <1>2, FaultTyped DEF ClosePosition
  <2>7. PhaseOK'
    BY <1>2, <2>2, <2>4 DEF ClosePosition, PhaseOK, Working, Entering
  <2> QED BY <1>2, <2>2, <2>5, <2>6, <2>7, Unchanged DEF ClosePosition
<1> QED BY <1>1, <1>2

\* A handler that has nothing to do with orders or bars left.
LEMMA IdleStep ==
  ASSUME PhaseOK, NEW s \in Symbols, UNCHANGED <<count, bar>>,
         handler'[s].phase \in {"idle", "sync"},
         \A t \in Symbols \ {s} : handler'[t] = handler[t]
  PROVE  PhaseOK'
BY DEF PhaseOK, Working, Entering

\* The lock is never passed on by a task that is not in the queue.
LEMMA TailTyped ==
  ASSUME TasksOK, NEW task, Holds(task)
  PROVE  Tail(queue) \in Seq(Tasks)
BY DEF TasksOK, Holds

LEMMA FinishTyped ==
  ASSUME TypeInv, NEW s \in Symbols, Finish(s)
  PROVE  TypeInv'
<1> USE DEF TypeInv, TypeOK
<1>1. /\ MaybeReconcile(s, Tail(queue))
      /\ UNCHANGED <<venueVars, running, book, updating, bar, halted, faults, slipped>>
  BY DEF Finish
<1>2. /\ TasksOK' /\ handler'[s].phase \in {"idle", "sync"}
      /\ \A t \in Symbols \ {s} : handler'[t] = handler[t]
  BY <1>1, ReturnTyped, TailTyped DEF Finish
<1>3. PhaseOK'
  BY <1>1, <1>2, IdleStep DEF venueVars
<1>4. FlagsOK'
  BY <1>1, Zenon DEF FlagsOK, MaybeReconcile
<1>5. LedgerOK'
  <2>1. CASE UNCHANGED ledger
    BY <2>1, Unchanged
  <2>2. CASE Record(CloseRecord(s))
    <3> DEFINE r == CloseRecord(s)
               ids == IdsOf(r.symbol)
    <3>1. ledger' \in {ledger, Apply(ledger, r, ids)}
      BY <2>2 DEF Record
    <3> HIDE DEF ids
    <3>2. Apply(ledger, r, ids) \in [base : [Symbols -> Int], live : [OrderId -> Int]]
      BY CloseTyped DEF LedgerOK
    <3> QED BY <3>1, <3>2 DEF LedgerOK
  <2> QED BY <2>1, <2>2 DEF Finish
<1> QED BY <1>1, <1>2, <1>3, <1>4, <1>5, Unchanged

LEMMA BarTyped ==
  ASSUME TypeInv, NEW s \in Symbols, QuietBar(s) \/ NextBar(s)
  PROVE  TypeInv'
<1> USE DEF TypeInv, TypeOK
<1>1. CASE QuietBar(s)
  <2>1. /\ TasksOK' /\ handler'[s].phase \in {"idle", "sync"}
        /\ \A t \in Symbols \ {s} : handler'[t] = handler[t]
    <3>1. MaybeReconcile(s, queue) /\ queue \in Seq(Tasks) /\ UNCHANGED updating
      BY <1>1 DEF QuietBar, TasksOK
    <3> QED BY <3>1, ReturnTyped
  <2>2. PhaseOK'
    BY <1>1, <2>1, IdleStep DEF QuietBar, venueVars
  <2>3. FlagsOK'
    BY <1>1, Zenon DEF FlagsOK, QuietBar, MaybeReconcile
  <2> QED BY <1>1, <2>1, <2>2, <2>3, Unchanged DEF QuietBar
<1>2. CASE NextBar(s)
  <2>1. bar' \in [Symbols -> 0..MaxBars] /\ bar'[s] \in 1..MaxBars
        /\ \A t \in Symbols \ {s} : bar'[t] = bar[t]
    BY <1>2, TradingAssumption DEF NextBar, BookOK
  <2>2. BookOK'
    BY <1>2, <2>1 DEF NextBar, BookOK
  <2>3. PhaseOK'
    BY <1>2, <2>1 DEF NextBar, PhaseOK, venueVars
  <2> QED BY <1>2, <2>2, <2>3, Unchanged DEF NextBar
<1> QED BY <1>1, <1>2

LEMMA SignalTyped ==
  ASSUME TypeInv, NEW s \in Symbols, NEW signal \in AllSignals, SignalBar(s, signal)
  PROVE  TypeInv'
<1> USE DEF TypeInv, TypeOK
<1> DEFINE h == [Idle EXCEPT !.phase = "read", !.signal = signal]
<1>1. /\ handler' = [handler EXCEPT ![s] = h] /\ count[s] < MaxOrders /\ bar'[s] <= MaxBars
      /\ queue' = Append(queue, s)
      /\ UNCHANGED <<venueVars, running, book, updating, sweepDue, halted, ledger, faults, slipped>>
  BY DEF SignalBar, Await
<1>2. h \in [phase : Phases, signal : AllSignals, acted : BOOLEAN] /\ h.phase = "read" /\ h.signal = signal
  BY DEF Idle, Phases
<1> HIDE DEF h
<1>3. TasksOK'
  BY <1>1, <1>2 DEF TasksOK, Tasks
<1>4. /\ bar' \in [Symbols -> 0..MaxBars]
      /\ signal \in EntrySignals => bar'[s] \in 1..MaxBars
      /\ \A t \in Symbols \ {s} : bar'[t] = bar[t]
  <2>1. CASE signal \in EntrySignals
    <3>1. bar' = [bar EXCEPT ![s] = IF @ = 0 THEN 1 ELSE @]
      BY <2>1 DEF SignalBar
    <3> QED BY <1>1, <3>1, TradingAssumption DEF BookOK
  <2>2. CASE signal \notin EntrySignals
    BY <2>2 DEF SignalBar, BookOK
  <2> QED BY <2>1, <2>2
<1>5. BookOK'
  BY <1>1, <1>4 DEF BookOK
<1>6. PhaseOK'
  <2> SUFFICES ASSUME NEW t \in Symbols
               PROVE  /\ handler'[t].phase \in Working =>
                           /\ count'[t] < MaxOrders
                           /\ handler'[t].signal \in EntrySignals => bar'[t] \in 1..MaxBars
                      /\ handler'[t].phase \in Entering => handler'[t].signal \in EntrySignals
    BY DEF PhaseOK
  <2>1. CASE t = s
    <3>1. handler'[t] = h
      BY <1>1, <2>1 DEF TasksOK
    <3> QED BY <1>1, <1>2, <1>4, <2>1, <3>1 DEF venueVars, Entering
  <2>2. CASE t # s
    <3>1. handler'[t] = handler[t] /\ bar'[t] = bar[t] /\ count'[t] = count[t]
      BY <1>1, <1>4, <2>2 DEF TasksOK, venueVars
    <3> QED BY <3>1 DEF PhaseOK
  <2> QED BY <2>1, <2>2
<1> QED BY <1>1, <1>3, <1>5, <1>6, Unchanged

LEMMA SweepTyped ==
  ASSUME TypeInv, SweepTimer \/ \E s \in Symbols : SyncBook(s)
  PROVE  TypeInv'
<1> USE DEF TypeInv, TypeOK
<1>1. CASE SweepTimer
  <2>1. FlagsOK'
    BY <1>1, Zenon DEF FlagsOK, SweepTimer
  <2>2. PhaseOK'
    BY <1>1 DEF SweepTimer, PhaseOK, venueVars
  <2> QED BY <1>1, <2>1, <2>2, Unchanged DEF SweepTimer
<1>2. ASSUME NEW s \in Symbols, SyncBook(s) PROVE TypeInv'
  <2>1. book' \in [Symbols -> Int]
    BY <1>2 DEF SyncBook, VenueOK, BookOK
  <2>2. BookOK'
    BY <1>2, <2>1 DEF SyncBook, BookOK
  <2>3. Idle \in [phase : Phases, signal : AllSignals, acted : BOOLEAN] /\ Idle.phase = "idle"
    BY DEF Idle, Phases, AllSignals
  <2>4. queue' \in Seq(Tasks)
    BY <1>2, TailTyped DEF SyncBook, Release
  <2>5. TasksOK' /\ handler'[s] = Idle /\ \A t \in Symbols \ {s} : handler'[t] = handler[t]
    BY <1>2, <2>3, <2>4 DEF SyncBook, TasksOK
  <2>6. CountsOK'
    BY <1>2, FaultTyped DEF SyncBook
  <2>7. PhaseOK'
    BY <1>2, <2>3, <2>5, IdleStep DEF SyncBook, venueVars
  <2> QED BY <1>2, <2>2, <2>5, <2>6, <2>7, Unchanged DEF SyncBook
<1> QED BY <1>1, <1>2

LEMMA UpdateTyped ==
  ASSUME TypeInv, TakeReport \/ RefreshPosition
  PROVE  TypeInv'
<1> USE DEF TypeInv, TypeOK
<1>1. CASE TakeReport
  <2> DEFINE report == Head(reports)
             symbol == report.id[1]
  <2>1. report \in Report /\ Tail(reports) \in Seq(Report)
    BY <1>1 DEF TakeReport, VenueOK
  <2>2. report.id \in OrderId /\ report.qty \in Int /\ symbol \in Symbols
    BY <2>1 DEF Report, OrderId
  <2>3. /\ Record(FillRecord(report.id, symbol, report.qty, "cumulative"))
        /\ updating' = symbol /\ reports' = Tail(reports) /\ queue' = Append(queue, Updater)
        /\ UNCHANGED <<position, orders, accepted, count, running, book, handler, sweepDue, bar, halted, faults, slipped>>
    BY <1>1 DEF TakeReport, SymbolOf, Await
  <2> HIDE DEF report, symbol
  <2>4. LedgerOK'
    BY <2>2, <2>3, FillTyped DEF Record, LedgerOK
  <2>5. VenueOK'
    BY <2>1, <2>3 DEF VenueOK
  <2>6. TasksOK'
    BY <2>2, <2>3 DEF TasksOK, Tasks
  <2>7. PhaseOK'
    BY <2>3 DEF PhaseOK
  <2> QED BY <2>3, <2>4, <2>5, <2>6, <2>7, Unchanged
<1>2. CASE RefreshPosition
  <2>1. book' \in [Symbols -> Int]
    BY <1>2 DEF RefreshPosition, VenueOK, BookOK
  <2>2. BookOK'
    BY <1>2, <2>1 DEF RefreshPosition, BookOK
  <2>3. TasksOK'
    BY <1>2, TailTyped DEF RefreshPosition, Release, TasksOK
  <2>4. CountsOK'
    BY <1>2, FaultTyped DEF RefreshPosition
  <2>5. PhaseOK'
    BY <1>2 DEF RefreshPosition, PhaseOK, venueVars
  <2> QED BY <1>2, <2>2, <2>3, <2>4, <2>5, Unchanged DEF RefreshPosition
<1> QED BY <1>1, <1>2

LEMMA LifeTyped ==
  ASSUME TypeInv, Start \/ Crash
  PROVE  TypeInv'
<1> USE DEF TypeInv, TypeOK
<1>1. CASE Start
  <2>1. book' \in [Symbols -> Int]
    BY <1>1 DEF Start, VenueOK, BookOK
  <2>2. BookOK'
    BY <1>1, <2>1 DEF Start, BookOK
  <2>3. FlagsOK'
    <3>1. running' \in BOOLEAN /\ sweepDue' \in BOOLEAN
      BY <1>1, Zenon DEF Start
    <3>2. halted' = halted
      BY <1>1 DEF Start
    <3> QED BY <3>1, <3>2, Zenon DEF FlagsOK
  <2>4. LedgerOK'
    <3>1. Adopted \in [base : [Symbols -> Int], live : [OrderId -> Int]]
      BY DEF Adopted, LedgerOK, VenueOK, OrderId, SymbolOf
    <3> QED BY <1>1, <3>1 DEF Start, LedgerOK
  <2>5. CountsOK'
    BY <1>1, FaultTyped DEF Start
  <2>6. PhaseOK'
    BY <1>1 DEF Start, PhaseOK, venueVars
  <2> QED BY <1>1, <2>2, <2>3, <2>4, <2>5, <2>6, Unchanged DEF Start
<1>2. CASE Crash
  <2>1. VenueOK'
    BY <1>2 DEF Crash, VenueOK
  <2>2. Idle \in [phase : Phases, signal : AllSignals, acted : BOOLEAN] /\ Idle.phase = "idle"
    BY DEF Idle, Phases, AllSignals
  <2>3. TasksOK'
    BY <1>2, <2>2 DEF Crash, TasksOK
  <2>4. BookOK'
    BY <1>2 DEF Crash, BookOK
  <2>5. FlagsOK'
    BY <1>2, Zenon DEF Crash, FlagsOK
  <2>6. CountsOK'
    BY <1>2, FaultTyped DEF Crash
  <2>7. PhaseOK'
    BY <1>2, <2>2 DEF Crash, PhaseOK, Working, Entering
  <2> QED BY <1>2, <2>1, <2>3, <2>4, <2>5, <2>6, <2>7, Unchanged DEF Crash
<1> QED BY <1>1, <1>2

LEMMA TypesKept == TypeInv /\ [Next]_vars => TypeInv'
<1> SUFFICES ASSUME TypeInv, [Next]_vars PROVE TypeInv'
  OBVIOUS
<1>1. CASE Venue
  BY <1>1, VenueTyped
<1>2. CASE Operator
  BY <1>2, OperatorTyped
<1>3. ASSUME NEW s \in Symbols, Handle(s) \/ Decline(s) PROVE TypeInv'
  BY <1>3, ReadingTyped, SubmitTyped, ExitTyped, FinishTyped, SweepTyped DEF Handle
<1>4. CASE Engine
  BY <1>3, <1>4, BarTyped, SignalTyped, SweepTyped, UpdateTyped, LifeTyped DEF Engine
<1>5. CASE UNCHANGED vars
  <2>1. PhaseOK'
    BY <1>5 DEF TypeInv, PhaseOK, vars, venueVars, engineVars
  <2> QED BY <1>5, <2>1, Unchanged DEF TypeInv, TypeOK, vars, engineVars
<1> QED BY <1>1, <1>2, <1>4, <1>5 DEF Next

\* Every reachable state is well typed: the orders the venue takes, the ids it
\* has seen, the tasks in the lock's queue and the folded ledger.
THEOREM TypeCorrect == Spec => []TypeOK
<1>1. Spec => []TypeInv
  BY InitTyped, TypesKept, PTL DEF Spec
<1>2. TypeInv => TypeOK
  BY DEF TypeInv
<1> QED BY <1>1, <1>2, PTL

-----------------------------------------------------------------------------
(* The order lock.  A callback past the lock is at the head of the queue, so *)
(* there is at most one; a stopped engine has none.                          *)

Locked == {"halt", "pending", "submit", "cancel", "close", "done"}

LockInv ==
  /\ \A s \in Symbols : handler[s].phase \in Locked => Holds(s)
  /\ ~running => \A s \in Symbols : handler[s] = Idle

\* Joining the queue never displaces the holder.
LEMMA JoinKeepsHolder ==
  ASSUME TasksOK, NEW task \in Tasks, NEW joiner \in Tasks, Holds(task), queue' = Append(queue, joiner)
  PROVE  Holds(task)'
BY DEF TasksOK, Holds

\* The steps that leave every callback where it is.
Aside ==
  /\ UNCHANGED <<handler, running, book>>
  /\ queue' = queue \/ queue' = Append(queue, Updater)

LEMMA AsideSteps ==
  ASSUME Venue \/ Operator \/ SweepTimer \/ TakeReport \/ UNCHANGED vars \/ \E s \in Symbols : NextBar(s)
  PROVE  Aside
BY DEF Aside, Venue, Operator, Fill, LoseReport, SetHalt, ClearHalt, NextBar, SweepTimer, TakeReport, Await,
       vars, engineVars

\* The steps of the callback that holds the lock and goes on holding it.
LEMMA TurnSteps ==
  ASSUME TypeInv, NEW s \in Symbols,
         \/ ReadPosition(s) \/ Decline(s) \/ CheckHalt(s) \/ CheckOrdersAndLimits(s)
         \/ Submit(s) \/ CancelResting(s) \/ ClosePosition(s)
  PROVE  /\ Holds(s) /\ UNCHANGED <<queue, running>>
         /\ handler[s].phase \in Working
         /\ \A t \in Symbols \ {s} : handler'[t] = handler[t]
<1> USE DEF TypeInv, TypeOK
<1>1. Holds(s) /\ UNCHANGED <<queue, running>> /\ handler[s].phase \in Working
  BY DEF ReadPosition, Decline, CheckHalt, CheckOrdersAndLimits, Submit, CancelResting, ClosePosition, Working
<1>2. (\E phase \in Phases : Go(s, phase)) \/ (\E acted \in BOOLEAN : Decide(s, acted))
  <2>1. CASE ReadPosition(s) \/ Decline(s) \/ CheckHalt(s) \/ CheckOrdersAndLimits(s) \/ CancelResting(s)
    BY <2>1 DEF ReadPosition, Decline, CheckHalt, CheckOrdersAndLimits, CancelResting, Phases
  <2>2. CASE Submit(s) \/ ClosePosition(s)
    BY <2>2, Zenon DEF Submit, ClosePosition
  <2> QED BY <2>1, <2>2
<1>3. \A t \in Symbols \ {s} : handler'[t] = handler[t]
  BY <1>2, GoTyped, DecideTyped
<1> QED BY <1>1, <1>3

\* The steps that begin or end a callback: QuietBar and SignalBar touch the
\* handler of one symbol, Finish and SyncBook also give the lock up.
LEMMA EdgeSteps ==
  ASSUME TypeInv, NEW s \in Symbols, NEW signal,
         QuietBar(s) \/ SignalBar(s, signal) \/ Finish(s) \/ SyncBook(s)
  PROVE  /\ handler'[s].phase \in {"idle", "sync", "read"}
         /\ \A t \in Symbols \ {s} : handler'[t] = handler[t]
         /\ running' = running
         /\ QuietBar(s) \/ SignalBar(s, signal) => running /\ queue' \in {queue, Append(queue, s)}
         /\ Finish(s) \/ SyncBook(s) => Holds(s)
<1> USE DEF TypeInv, TypeOK
<1> DEFINE sync == [Idle EXCEPT !.phase = "sync"]
           read == [Idle EXCEPT !.phase = "read", !.signal = signal]
<1>1. Idle.phase = "idle" /\ sync.phase = "sync" /\ read.phase = "read"
  BY DEF Idle
<1>2. /\ handler'[s].phase \in {"idle", "sync", "read"}
      /\ \A t \in Symbols \ {s} : handler'[t] = handler[t]
  <2>1. \/ handler' = [handler EXCEPT ![s] = Idle]
        \/ handler' = [handler EXCEPT ![s] = sync]
        \/ handler' = [handler EXCEPT ![s] = read]
    BY DEF QuietBar, SignalBar, Finish, SyncBook, MaybeReconcile
  <2> HIDE DEF sync, read
  <2> QED BY <1>1, <2>1 DEF TasksOK
<1>3. running' = running
  BY DEF QuietBar, SignalBar, Finish, SyncBook
<1>4. QuietBar(s) \/ SignalBar(s, signal) => running /\ queue' \in {queue, Append(queue, s)}
  BY DEF QuietBar, SignalBar, MaybeReconcile, Await
<1>5. Finish(s) \/ SyncBook(s) => Holds(s)
  BY DEF Finish, SyncBook
<1> QED BY <1>2, <1>3, <1>4, <1>5

LEMMA LockKept == TypeInv /\ LockInv /\ [Next]_vars => LockInv'
<1> SUFFICES ASSUME TypeInv, LockInv, [Next]_vars PROVE LockInv'
  OBVIOUS
<1> USE DEF LockInv
<1>1. CASE Aside
  <2>1. ASSUME NEW t \in Symbols, handler'[t].phase \in Locked PROVE Holds(t)'
    <3>1. Holds(t)
      BY <1>1, <2>1 DEF Aside
    <3>2. CASE queue' = queue
      BY <3>1, <3>2 DEF Holds
    <3>3. CASE queue' = Append(queue, Updater)
      BY <3>1, <3>3, JoinKeepsHolder DEF Tasks, TypeInv, TypeOK
    <3> QED BY <1>1, <3>2, <3>3 DEF Aside
  <2> QED BY <1>1, <2>1 DEF Aside
<1>2. ASSUME NEW s \in Symbols,
             \/ ReadPosition(s) \/ Decline(s) \/ CheckHalt(s) \/ CheckOrdersAndLimits(s)
             \/ Submit(s) \/ CancelResting(s) \/ ClosePosition(s)
      PROVE  LockInv'
  <2>1. /\ Holds(s) /\ UNCHANGED <<queue, running>> /\ handler[s].phase \in Working
        /\ \A t \in Symbols \ {s} : handler'[t] = handler[t]
    BY <1>2, TurnSteps
  <2>2. running
    BY <2>1 DEF Idle, Working
  <2> QED BY <2>1, <2>2 DEF Holds
<1>3. ASSUME NEW s \in Symbols, NEW signal, QuietBar(s) \/ SignalBar(s, signal) PROVE LockInv'
  <2>1. /\ handler'[s].phase \in {"idle", "sync", "read"} /\ running /\ running'
        /\ \A t \in Symbols \ {s} : handler'[t] = handler[t]
        /\ queue' \in {queue, Append(queue, s)}
    BY <1>3, EdgeSteps
  <2>2. ASSUME NEW t \in Symbols, handler'[t].phase \in Locked PROVE Holds(t)'
    <3>1. t # s /\ Holds(t)
      BY <2>1, <2>2 DEF Locked
    <3>2. CASE queue' = queue
      BY <3>1, <3>2 DEF Holds
    <3>3. CASE queue' = Append(queue, s)
      BY <3>1, <3>3, JoinKeepsHolder DEF Tasks, TypeInv, TypeOK
    <3> QED BY <2>1, <3>2, <3>3
  <2> QED BY <2>1, <2>2
<1>4. ASSUME NEW s \in Symbols, Finish(s) \/ SyncBook(s) PROVE LockInv'
  <2>1. /\ handler'[s].phase \in {"idle", "sync", "read"} /\ running' = running
        /\ \A t \in Symbols \ {s} : handler'[t] = handler[t]
        /\ Holds(s) /\ handler[s].phase \in {"done", "sync"}
    BY <1>4, EdgeSteps DEF Finish, SyncBook
  <2>2. ASSUME NEW t \in Symbols PROVE handler'[t].phase \notin Locked
    <3>1. CASE t = s
      BY <2>1, <3>1 DEF Locked
    <3>2. CASE t # s
      BY <2>1, <3>2 DEF Holds
    <3> QED BY <3>1, <3>2
  <2>3. running
    BY <2>1 DEF Idle
  <2> QED BY <2>1, <2>2, <2>3
<1>5. CASE RefreshPosition
  <2>1. Holds(Updater) /\ UNCHANGED <<handler, running>>
    BY <1>5 DEF RefreshPosition
  <2>2. \A t \in Symbols : handler[t].phase \notin Locked
    BY <2>1, TradingAssumption DEF Holds
  <2> QED BY <2>1, <2>2
<1>6. CASE Start
  <2>1. running' /\ UNCHANGED <<handler, queue>>
    BY <1>6 DEF Start
  <2> QED BY <2>1 DEF Holds
<1>7. CASE Crash
  BY <1>7 DEF Crash, Idle, Locked
<1>8. ASSUME NEW s \in Symbols PROVE Handle(s) \/ Decline(s) => LockInv'
  BY <1>2, <1>4 DEF Handle
<1>9. CASE Engine
  <2>1. CASE SweepTimer \/ TakeReport
    BY <1>1, <2>1, AsideSteps
  <2>2. ASSUME NEW s \in Symbols, NextBar(s) PROVE LockInv'
    BY <1>1, <2>2, AsideSteps
  <2> QED BY <1>3, <1>5, <1>6, <1>7, <1>8, <1>9, <2>1, <2>2 DEF Engine
<1>10. CASE Venue \/ Operator \/ UNCHANGED vars
  BY <1>1, <1>10, AsideSteps
<1> QED BY <1>9, <1>10 DEF Next

LEMMA InitLocked == Init => LockInv
BY DEF Init, LockInv, Idle, Locked

\* No two callbacks are past the lock at once.
LEMMA Alone ==
  ASSUME LockInv, NEW s \in Symbols, NEW t \in Symbols,
         Holds(s), handler[t].phase \in Locked
  PROVE  t = s
BY DEF LockInv, Holds

-----------------------------------------------------------------------------
(* Check, then submit.  The verdict on the limits is kept because nobody but *)
(* the holder of the lock touches the book.                                  *)

LimitKept(s) == handler[s].phase = "submit" => ~BreachIn(book, s, SignOf(handler[s].signal) * Size)

LEMMA LimitsKept == TypeInv /\ LockInv /\ LimitStillHolds /\ [Next]_vars => LimitStillHolds'
<1> SUFFICES ASSUME TypeInv, LockInv, LimitStillHolds, [Next]_vars, NEW t \in Symbols PROVE LimitKept(t)'
  BY DEF LimitStillHolds, LimitKept, Breach
<1> USE DEF LimitKept
<1>1. LimitKept(t)
  BY DEF LimitStillHolds, Breach
\* Steps that change neither the book nor the callback.
<1>2. CASE handler'[t] = handler[t] /\ book' = book
  BY <1>1, <1>2
\* Steps of another task that holds the lock: this callback is not past it.
<1>3. ASSUME NEW task, Holds(task), task # t, handler'[t] = handler[t] PROVE LimitKept(t)'
  <2>1. handler[t].phase \notin Locked
    BY <1>3 DEF LockInv, Holds
  <2> QED BY <1>3, <2>1 DEF Locked
<1>4. CASE handler'[t].phase # "submit"
  BY <1>4
<1>5. CASE CheckOrdersAndLimits(t)
  <2>1. PICK phase \in {"submit", "done"} :
          /\ Go(t, phase)
          /\ phase = "submit" => ~BreachIn(book, t, SignOf(handler[t].signal) * Size)
    BY <1>5 DEF CheckOrdersAndLimits, Breach
  <2>2. handler'[t].phase = phase /\ handler'[t].signal = handler[t].signal /\ book' = book
    BY <1>5, <2>1, GoTyped DEF CheckOrdersAndLimits, Phases, TypeInv, TypeOK
  <2> QED BY <2>1, <2>2
<1>6. CASE Aside
  BY <1>2, <1>6 DEF Aside
<1>7. ASSUME NEW s \in Symbols, s # t, Handle(s) \/ Decline(s) PROVE LimitKept(t)'
  <2>1. CASE Finish(s) \/ SyncBook(s)
    BY <1>3, <1>7, <2>1, EdgeSteps
  <2>2. CASE ~(Finish(s) \/ SyncBook(s))
    BY <1>3, <1>7, <2>2, TurnSteps DEF Handle
  <2> QED BY <2>1, <2>2
<1>8. CASE Handle(t) \/ Decline(t)
  <2>1. CASE Finish(t) \/ SyncBook(t)
    BY <1>4, <2>1, EdgeSteps
  <2>2. CASE Submit(t) \/ ClosePosition(t)
    <3>1. PICK acted \in BOOLEAN : Decide(t, acted)
      BY <2>2, Zenon DEF Submit, ClosePosition
    <3> QED BY <1>4, <3>1, DecideTyped DEF TypeInv, TypeOK
  <2>3. CASE ReadPosition(t) \/ Decline(t) \/ CheckHalt(t) \/ CancelResting(t)
    <3>1. PICK phase \in Phases \ {"submit"} : Go(t, phase)
      BY <2>3 DEF ReadPosition, Decline, CheckHalt, CancelResting, Phases
    <3> QED BY <1>4, <3>1, GoTyped DEF TypeInv, TypeOK
  <2> QED BY <1>5, <1>8, <2>1, <2>2, <2>3 DEF Handle
<1>9. ASSUME NEW s \in Symbols, NEW signal, QuietBar(s) \/ SignalBar(s, signal) PROVE LimitKept(t)'
  <2>1. book' = book
    BY <1>9 DEF QuietBar, SignalBar
  <2> QED BY <1>2, <1>4, <1>9, <2>1, EdgeSteps
<1>10. CASE RefreshPosition
  BY <1>3, <1>10, TradingAssumption DEF RefreshPosition
<1>11. CASE Start \/ Crash
  <2>1. handler'[t] = Idle
    BY <1>11 DEF Start, Crash, LockInv
  <2> QED BY <1>4, <2>1 DEF Idle
<1>12. CASE Engine
  BY <1>6, <1>7, <1>8, <1>9, <1>10, <1>11, <1>12, AsideSteps DEF Engine
<1> QED BY <1>6, <1>12, AsideSteps DEF Next

\* Every reachable state in which an entry is about to be sent is one in which
\* it still passes the limits it was checked against: the order lock makes the
\* check and the submission one step, for any universe and any limits.
THEOREM CheckedLimitsStand == Spec => []LimitStillHolds
<1>1. Init => LimitStillHolds
  BY DEF Init, LimitStillHolds, Idle
<1> QED BY <1>1, InitTyped, TypesKept, InitLocked, LockKept, LimitsKept, PTL DEF Spec

-----------------------------------------------------------------------------
(* The halt.  A callback that has read "no halt" and not yet submitted is    *)
(* the only one an entry can slip past a halt through.                       *)

Past == {"pending", "submit"}

HaltInv ==
  halted => /\ slipped <= 1
            /\ \A s \in Symbols : handler[s].phase \in Past => slipped = 0

LEMMA HaltKept == TypeInv /\ LockInv /\ HaltInv /\ [Next]_vars => HaltInv'
<1> SUFFICES ASSUME TypeInv, LockInv, HaltInv, [Next]_vars PROVE HaltInv'
  OBVIOUS
<1> USE DEF HaltInv
\* Steps that take no callback past the halt check, and no entry to the venue.
<1>1. ASSUME UNCHANGED <<halted, slipped>>,
             \A s \in Symbols : handler'[s].phase \in Past => handler[s].phase \in Past
      PROVE  HaltInv'
  BY <1>1
<1>2. CASE Operator
  BY <1>2 DEF Operator, SetHalt, ClearHalt, engineVars
<1>3. CASE Aside /\ UNCHANGED <<halted, slipped>>
  BY <1>1, <1>3 DEF Aside
<1>4. ASSUME NEW s \in Symbols, Submit(s) PROVE HaltInv'
  <2>1. PICK acted \in BOOLEAN : Decide(s, acted)
    BY <1>4, Zenon DEF Submit
  <2>2. handler'[s].phase = "done" /\ \A t \in Symbols \ {s} : handler'[t] = handler[t]
    BY <2>1, DecideTyped DEF TypeInv, TypeOK
  <2>3. Holds(s) /\ handler[s].phase = "submit" /\ halted' = halted /\ slipped' \in {slipped, slipped + 1}
        /\ (~halted => slipped' = slipped)
    BY <1>4 DEF Submit, PlaceEntry
  <2>4. \A t \in Symbols : handler'[t].phase \notin Past
    BY <2>2, <2>3, Alone DEF Past, Locked
  <2>5. halted => slipped = 0
    BY <2>3 DEF Past
  <2> QED BY <2>3, <2>4, <2>5
<1>5. ASSUME NEW s \in Symbols,
             ReadPosition(s) \/ Decline(s) \/ CheckOrdersAndLimits(s) \/ CancelResting(s) \/ ClosePosition(s)
      PROVE  HaltInv'
  <2>1. UNCHANGED <<halted, slipped>>
    BY <1>5 DEF ReadPosition, Decline, CheckOrdersAndLimits, CancelResting, ClosePosition
  <2>2. \A t \in Symbols \ {s} : handler'[t] = handler[t]
    BY <1>5, TurnSteps
  <2>3. handler'[s].phase \in Past => handler[s].phase \in Past
    <3>1. CASE ClosePosition(s)
      <4>1. PICK acted \in BOOLEAN : Decide(s, acted)
        BY <3>1, Zenon DEF ClosePosition
      <4> QED BY <4>1, DecideTyped DEF TypeInv, TypeOK, Past
    <3>2. CASE ReadPosition(s) \/ Decline(s) \/ CheckOrdersAndLimits(s) \/ CancelResting(s)
      <4>1. PICK phase \in Phases : Go(s, phase) /\ (phase \in Past => handler[s].phase \in Past)
        BY <3>2 DEF ReadPosition, Decline, CheckOrdersAndLimits, CancelResting, Phases, Past
      <4> QED BY <4>1, GoTyped DEF TypeInv, TypeOK
    <3> QED BY <1>5, <3>1, <3>2
  <2> QED BY <1>1, <2>1, <2>2, <2>3
<1>6. ASSUME NEW s \in Symbols, CheckHalt(s) PROVE HaltInv'
  <2>1. Holds(s) /\ handler[s].phase = "halt" /\ UNCHANGED <<halted, slipped>>
    BY <1>6 DEF CheckHalt
  <2>2. PICK phase \in Phases : Go(s, phase) /\ (halted => phase = "done")
    BY <1>6 DEF CheckHalt, Phases
  <2>3. handler'[s].phase = phase /\ \A t \in Symbols \ {s} : handler'[t] = handler[t]
    BY <2>2, GoTyped DEF TypeInv, TypeOK
  <2> QED BY <2>1, <2>2, <2>3 DEF Past
<1>7. ASSUME NEW s \in Symbols, NEW signal, QuietBar(s) \/ SignalBar(s, signal) \/ Finish(s) \/ SyncBook(s)
      PROVE  HaltInv'
  <2>1. UNCHANGED <<halted, slipped>>
    BY <1>7 DEF QuietBar, SignalBar, Finish, SyncBook
  <2>2. /\ handler'[s].phase \in {"idle", "sync", "read"}
        /\ \A t \in Symbols \ {s} : handler'[t] = handler[t]
    BY <1>7, EdgeSteps
  <2> QED BY <1>1, <2>1, <2>2 DEF Past
<1>8. CASE RefreshPosition \/ Start \/ Crash
  <2>1. UNCHANGED <<halted, slipped>>
    BY <1>8 DEF RefreshPosition, Start, Crash
  <2>2. \A s \in Symbols : handler'[s] = handler[s] \/ handler'[s] = Idle
    BY <1>8 DEF RefreshPosition, Start, Crash
  <2> QED BY <1>1, <2>1, <2>2 DEF Past, Idle
<1>9. CASE Venue \/ SweepTimer \/ TakeReport \/ UNCHANGED vars \/ \E s \in Symbols : NextBar(s)
  <2>1. UNCHANGED <<halted, slipped>>
    BY <1>9 DEF Venue, Fill, LoseReport, SweepTimer, TakeReport, NextBar, vars
  <2> QED BY <1>3, <1>9, <2>1, AsideSteps
<1> QED BY <1>2, <1>4, <1>5, <1>6, <1>7, <1>8, <1>9 DEF Next, Engine, Handle

\* While a halt stands at most one entry reaches the venue, for any number of
\* symbols: the one whose callback had read the halt file and held the lock.
THEOREM HaltBoundsEntries == Spec => []OneSlipsPastHalt
<1>1. Init => HaltInv
  BY DEF Init, HaltInv
<1>2. HaltInv => OneSlipsPastHalt
  BY DEF HaltInv, OneSlipsPastHalt
<1> QED BY <1>1, <1>2, InitTyped, TypesKept, InitLocked, LockKept, HaltKept, PTL DEF Spec

-----------------------------------------------------------------------------
(* One entry per symbol.  What a symbol's one working order has to do with    *)
(* its position, and what each stage of a callback may rely on.  Both hold    *)
(* only while a callback's own reads are answered truthfully and what it      *)
(* cancels is cancelled: the code trades on without an answer.                *)

OrderFits(s, o) ==
  /\ o.left > 0
  /\ IF o.id[3] = "entry"
     THEN position[s] = o.sign * o.done /\ SideHeld(o.sign) \in Offered
     ELSE position[s] = -o.sign * o.left

OrdersFit(s) == \A o \in OrdersOf(s) : OrdersOf(s) = {o} /\ OrderFits(s, o)

SideOffered(s) == position[s] # 0 => SideHeld(position[s]) \in Offered

NothingThere(s) == position[s] = 0 /\ OrdersOf(s) = {}
Closing(s)      == position[s] # 0 /\ handler[s].signal = CloseOf(SideHeld(position[s]))

CallbackFits(s) ==
  /\ handler[s].phase \in Working => handler[s].signal \in Offered
  /\ handler[s].phase \in {"halt", "pending"} /\ OrdersOf(s) = {} => position[s] = 0
  /\ handler[s].phase = "submit" => NothingThere(s)
  /\ handler[s].phase = "cancel" => NothingThere(s) \/ Closing(s)
  /\ handler[s].phase = "close" => OrdersOf(s) = {} /\ (position[s] = 0 \/ Closing(s))

EntryFits(s) == OrdersFit(s) /\ SideOffered(s) /\ CallbackFits(s)

EntryInv == \A s \in Symbols : EntryFits(s)

\* No read of this step's is left unanswered, no cancel fails.
Answered == ~Fault("read") /\ ~Fault("cancel")

LEMMA NeverUnanswered == {"read", "cancel"} \cap Faults = {} => Answered
BY DEF Answered, Fault

\* A step that leaves a symbol's orders and position alone, and its callback
\* where it is or done.
LEMMA FitsUntouched ==
  ASSUME NEW s \in Symbols, EntryFits(s), position'[s] = position[s], OrdersOf(s)' = OrdersOf(s),
         \/ handler'[s] = handler[s]
         \/ handler'[s].phase \notin Working
         \/ handler'[s].phase = "read" /\ handler'[s].signal \in Offered
  PROVE  EntryFits(s)'
<1>1. OrdersFit(s)' BY DEF EntryFits, OrdersFit, OrderFits
<1>2. SideOffered(s)' BY DEF EntryFits, SideOffered
<1>3. CallbackFits(s)' BY DEF EntryFits, CallbackFits, NothingThere, Closing, Working
<1> QED BY <1>1, <1>2, <1>3 DEF EntryFits

\* An order that is added or removed is of its own symbol.
LEMMA OtherOrders ==
  ASSUME NEW s, NEW t, t # s,
         \A o : SymbolOf(o.id) # s => (o \in orders' <=> o \in orders)
  PROVE  OrdersOf(t)' = OrdersOf(t)
BY DEF OrdersOf

\* What a fill makes of the symbol's orders and position: the side never changes,
\* a position is gone only with its last order, and no entry comes of it.
LEMMA FillOrders ==
  ASSUME TypeInv, NEW o \in orders, NEW n \in 1..o.left, Fill(o, n), OrdersFit(SymbolOf(o.id))
  PROVE  /\ OrdersFit(SymbolOf(o.id))'
         /\ o.id[3] = "entry" => SideHeld(position'[SymbolOf(o.id)]) \in Offered
         /\ position[SymbolOf(o.id)] # 0 /\ position'[SymbolOf(o.id)] # 0 =>
              SideHeld(position'[SymbolOf(o.id)]) = SideHeld(position[SymbolOf(o.id)])
         /\ OrdersOf(SymbolOf(o.id))' = {} <=> position'[SymbolOf(o.id)] = 0
         /\ OrdersOf(SymbolOf(o.id)) # {}
         /\ o.id[3] = "entry" \/ position[SymbolOf(o.id)] # 0
         /\ o.id[3] # "entry" => \A p \in OrdersOf(SymbolOf(o.id))' : p.id[3] # "entry"
<1> DEFINE s == SymbolOf(o.id)
           filled == [id |-> o.id, sign |-> o.sign, left |-> o.left - n, done |-> o.done + n]
           leg    == [id |-> <<o.id[1], o.id[2], "leg">>, sign |-> -o.sign, left |-> o.done + n, done |-> 0]
<1>1. /\ o \in Order /\ s \in Symbols /\ o.sign \in {1, -1} /\ n \in Nat /\ n <= o.left /\ n > 0
      /\ o.left \in Nat /\ o.done \in Nat /\ position[s] \in Int
  BY DEF TypeInv, TypeOK, VenueOK, Order, OrderId, SymbolOf
<1>2. OrdersOf(s) = {o} /\ OrderFits(s, o)
  <2>1. o \in OrdersOf(s) BY DEF OrdersOf
  <2> QED BY <2>1 DEF OrdersFit
<1>3. position'[s] = position[s] + o.sign * n
  BY <1>1 DEF Fill, TypeInv, TypeOK, VenueOK
<1>4. OrdersOf(s)' = IF o.left > n THEN {filled} ELSE IF o.id[3] = "entry" THEN {leg} ELSE {}
  <2>1. orders' = (orders \ {o}) \cup (IF filled.left > 0 THEN {filled}
                                       ELSE IF o.id[3] = "entry" THEN {leg} ELSE {})
    BY DEF Fill
  <2>2. SymbolOf(filled.id) = s /\ SymbolOf(leg.id) = s
    BY DEF SymbolOf
  <2>3. filled.left > 0 <=> o.left > n BY <1>1
  <2> HIDE DEF filled, leg, s
  <2>4. \A p \in orders \ {o} : SymbolOf(p.id) # s BY <1>2 DEF OrdersOf
  <2> QED BY <2>1, <2>2, <2>3, <2>4 DEF OrdersOf
<1>5. CASE o.id[3] = "entry"
  <2>1. position[s] = o.sign * o.done /\ SideHeld(o.sign) \in Offered
    BY <1>2, <1>5 DEF OrderFits
  <2>2. position'[s] = o.sign * (o.done + n) BY <1>1, <1>3, <2>1
  <2>3. /\ position'[s] # 0 /\ SideHeld(position'[s]) = SideHeld(o.sign)
        /\ position[s] # 0 => SideHeld(position'[s]) = SideHeld(position[s])
    BY <1>1, <2>1, <2>2 DEF SideHeld
  <2>4. OrdersFit(s)'
    <3>1. CASE o.left > n
      <4>1. OrderFits(s, filled)'
        BY <1>1, <1>5, <2>1, <2>2, <3>1 DEF OrderFits
      <4> QED BY <1>4, <3>1, <4>1 DEF OrdersFit
    <3>2. CASE ~(o.left > n)
      <4>1. OrderFits(s, leg)'
        BY <1>1, <2>2 DEF OrderFits
      <4> QED BY <1>4, <1>5, <3>2, <4>1 DEF OrdersFit
    <3> QED BY <3>1, <3>2
  <2>5. OrdersOf(s)' # {} BY <1>4, <1>5
  <2> HIDE DEF s
  <2> QED BY <1>2, <1>5, <2>1, <2>3, <2>4, <2>5 DEF s
<1>6. CASE o.id[3] # "entry"
  <2>1. position[s] = -o.sign * o.left BY <1>2, <1>6 DEF OrderFits
  <2>2. position'[s] = -o.sign * (o.left - n) BY <1>1, <1>3, <2>1
  <2>3. /\ position'[s] = 0 <=> o.left = n
        /\ position[s] # 0
        /\ position'[s] # 0 => SideHeld(position'[s]) = SideHeld(position[s])
    <3>1. CASE o.sign = 1
      <4>1. position[s] = -o.left /\ position'[s] = n - o.left BY <1>1, <2>1, <2>2, <3>1
      <4> QED BY <1>1, <4>1 DEF SideHeld
    <3>2. CASE o.sign = -1
      <4>1. position[s] = o.left /\ position'[s] = o.left - n BY <1>1, <2>1, <2>2, <3>2
      <4> QED BY <1>1, <4>1 DEF SideHeld
    <3> QED BY <1>1, <3>1, <3>2
  <2>4. OrdersFit(s)'
    <3>1. CASE o.left > n
      <4>1. OrderFits(s, filled)'
        BY <1>1, <1>6, <2>2, <3>1 DEF OrderFits
      <4> QED BY <1>4, <3>1, <4>1 DEF OrdersFit
    <3>2. CASE ~(o.left > n) BY <1>4, <1>6, <3>2 DEF OrdersFit
    <3> QED BY <3>1, <3>2
  <2>5. OrdersOf(s)' = {} <=> ~(o.left > n)
    <3> HIDE DEF s, filled, leg
    <3> QED BY <1>4, <1>6
  <2>6. OrdersOf(s)' = {} <=> position'[s] = 0 BY <1>1, <2>3, <2>5
  <2>7. filled.id[3] # "entry" BY <1>6
  <2> HIDE DEF filled
  <2>8. \A p \in OrdersOf(s)' : p.id[3] # "entry"
    <3> SUFFICES ASSUME NEW p \in OrdersOf(s)' PROVE p = filled BY <2>7
    <3> HIDE DEF s
    <3> QED BY <1>4, <1>6
  <2> HIDE DEF s
  <2> QED BY <1>2, <1>6, <2>3, <2>4, <2>6, <2>8 DEF s
<1> QED BY <1>5, <1>6

LEMMA FillFits ==
  ASSUME TypeInv, NEW o \in orders, NEW n \in 1..o.left, Fill(o, n),
         EntryFits(SymbolOf(o.id))
  PROVE  EntryFits(SymbolOf(o.id))'
<1> DEFINE s == SymbolOf(o.id)
<1>1. OrdersFit(s) /\ SideOffered(s) /\ CallbackFits(s) /\ handler' = handler
  BY DEF EntryFits, Fill, engineVars
<1> HIDE DEF s
<1>2. /\ OrdersFit(s)'
      /\ o.id[3] = "entry" => SideHeld(position'[s]) \in Offered
      /\ position[s] # 0 /\ position'[s] # 0 => SideHeld(position'[s]) = SideHeld(position[s])
      /\ OrdersOf(s)' = {} <=> position'[s] = 0
      /\ OrdersOf(s) # {}
      /\ o.id[3] = "entry" \/ position[s] # 0
  BY <1>1, FillOrders DEF s
<1>3. SideOffered(s)' BY <1>1, <1>2 DEF SideOffered
<1>4. CallbackFits(s)'
  <2>1. ~(OrdersOf(s) = {}) BY <1>2
  <2>2. Closing(s) /\ position'[s] # 0 => Closing(s)' BY <1>1, <1>2 DEF Closing
  <2>3. position'[s] = 0 => NothingThere(s)' BY <1>2 DEF NothingThere
  <2> QED BY <1>1, <1>2, <2>1, <2>2, <2>3 DEF CallbackFits, NothingThere
<1> QED BY <1>2, <1>3, <1>4 DEF EntryFits, s

\* The steps of a symbol's own callback.
LEMMA ReadingFits ==
  ASSUME TypeInv, NEW s \in Symbols, EntryFits(s), ~Fault("read"),
         ReadPosition(s) \/ Decline(s) \/ CheckHalt(s) \/ CheckOrdersAndLimits(s)
  PROVE  EntryFits(s)'
<1>1. /\ UNCHANGED <<position, orders>> /\ position[s] \in Int
      /\ handler[s].phase \in Working /\ handler[s].signal \in Offered
  <2>1. handler[s].phase \in Working
    BY DEF ReadPosition, Decline, CheckHalt, CheckOrdersAndLimits, Working
  <2> QED BY <2>1 DEF ReadPosition, Decline, CheckHalt, CheckOrdersAndLimits, venueVars, EntryFits,
                      CallbackFits, TypeInv, TypeOK, VenueOK
<1>2. PICK phase \in Phases :
        /\ Go(s, phase)
        /\ phase \in {"halt", "pending"} /\ OrdersOf(s) = {} => position[s] = 0
        /\ phase = "submit" => NothingThere(s)
        /\ phase = "cancel" => Closing(s)
        /\ phase # "close"
  <2>1. CASE ReadPosition(s)
    <3>1. PICK seen \in {position[s], 0} :
            /\ IF seen = position[s] THEN NoFault ELSE Fault("read")
            /\ IF handler[s].signal \in EntrySignals
               THEN Go(s, IF seen = 0 THEN "halt" ELSE "done")
               ELSE Go(s, IF SideHeld(seen) # "FLAT" /\ handler[s].signal = CloseOf(SideHeld(seen))
                          THEN "cancel" ELSE "done")
      BY <2>1 DEF ReadPosition
    <3>2. seen = position[s] BY <3>1
    <3>3. SideHeld(seen) # "FLAT" => seen # 0 BY DEF SideHeld
    <3>4. {"halt", "done", "cancel"} \subseteq Phases BY DEF Phases
    <3> QED BY <3>1, <3>2, <3>3, <3>4 DEF Closing
  <2>2. CASE Decline(s) BY <2>2 DEF Decline, Phases
  <2>3. CASE CheckHalt(s) BY <2>3 DEF CheckHalt, Phases, EntryFits, CallbackFits
  <2>4. CASE CheckOrdersAndLimits(s)
    <3>1. PICK seen \in {OrdersOf(s), {}} :
            /\ IF seen = OrdersOf(s) THEN NoFault ELSE Fault("read")
            /\ Go(s, IF seen = {} /\ ~Breach(s, SignOf(handler[s].signal) * Size) THEN "submit" ELSE "done")
      BY <2>4 DEF CheckOrdersAndLimits
    <3>2. seen = OrdersOf(s) BY <3>1
    <3>3. OrdersOf(s) = {} => NothingThere(s)
      BY <2>4 DEF CheckOrdersAndLimits, EntryFits, CallbackFits, NothingThere
    <3> QED BY <3>1, <3>2, <3>3 DEF Phases
  <2> QED BY <2>1, <2>2, <2>3, <2>4
<1>3. handler'[s].phase = phase /\ handler'[s].signal = handler[s].signal
  BY <1>2, GoTyped DEF TypeInv, TypeOK
<1>4. OrdersFit(s)' /\ SideOffered(s)'
  BY <1>1 DEF EntryFits, OrdersFit, OrderFits, OrdersOf, SideOffered
<1>5. CallbackFits(s)'
  BY <1>1, <1>2, <1>3 DEF CallbackFits, OrdersOf, NothingThere, Closing
<1> QED BY <1>4, <1>5 DEF EntryFits

LEMMA SubmitFits ==
  ASSUME TypeInv, NEW s \in Symbols, EntryFits(s), Submit(s)
  PROVE  EntryFits(s)'
<1>1. /\ handler[s].phase = "submit" /\ handler[s].signal \in Offered /\ handler[s].signal \in EntrySignals
      /\ position' = position /\ position[s] = 0 /\ OrdersOf(s) = {}
  BY DEF Submit, EntryFits, CallbackFits, NothingThere, Working, TypeInv, PhaseOK, Entering
<1>2. PICK acted \in BOOLEAN : Decide(s, acted)
  BY Zenon DEF Submit
<1>3. handler'[s].phase = "done"
  BY <1>2, DecideTyped DEF TypeInv, TypeOK
<1>4. CASE orders' = orders
  BY <1>1, <1>3, <1>4, FitsUntouched DEF OrdersOf, Working
<1>5. ASSUME NEW answered \in BOOLEAN, PlaceEntry(s, answered) PROVE EntryFits(s)'
  <2> DEFINE o == [id |-> <<s, count[s] + 1, "entry">>, sign |-> SignOf(handler[s].signal), left |-> Size, done |-> 0]
  <2>1. orders' = orders \cup {o} BY <1>5 DEF PlaceEntry, Accept
  <2>2. SymbolOf(o.id) = s /\ o.id[3] = "entry" BY DEF SymbolOf
  <2>3. o.left > 0 /\ o.sign \in {1, -1} /\ o.sign * o.done = 0 /\ SideHeld(o.sign) \in Offered
    BY <1>1, TradingAssumption DEF SignOf, SideHeld, EntrySignals
  <2> HIDE DEF o
  <2>4. OrdersOf(s)' = {o} BY <1>1, <2>1, <2>2 DEF OrdersOf
  <2>5. OrdersFit(s)' BY <1>1, <2>2, <2>3, <2>4 DEF OrdersFit, OrderFits
  <2>6. SideOffered(s)' BY <1>1 DEF SideOffered
  <2>7. CallbackFits(s)' BY <1>3 DEF CallbackFits, Working
  <2> QED BY <2>5, <2>6, <2>7 DEF EntryFits
<1> QED BY <1>4, <1>5, Zenon DEF Submit

LEMMA ExitFits ==
  ASSUME TypeInv, NEW s \in Symbols, EntryFits(s), Answered,
         CancelResting(s) \/ ClosePosition(s)
  PROVE  EntryFits(s)'
<1>1. CASE CancelResting(s)
  <2>1. /\ handler[s].phase = "cancel" /\ handler[s].signal \in Offered
        /\ position[s] = 0 \/ Closing(s)
        /\ position' = position
    BY <1>1 DEF CancelResting, EntryFits, CallbackFits, Working, NothingThere
  <2>2. orders' = orders \ OrdersOf(s) BY <1>1 DEF CancelResting, Answered
  <2>3. OrdersOf(s)' = {} BY <2>2 DEF OrdersOf
  <2>4. handler'[s].phase = "close" /\ handler'[s].signal = handler[s].signal
    BY <1>1, GoTyped DEF CancelResting, TypeInv, TypeOK, Phases
  <2>5. OrdersFit(s)' BY <2>3 DEF OrdersFit
  <2>6. SideOffered(s)' BY <2>1 DEF EntryFits, SideOffered
  <2>7. CallbackFits(s)' BY <2>1, <2>3, <2>4 DEF CallbackFits, Closing
  <2> QED BY <2>5, <2>6, <2>7 DEF EntryFits
<1>2. CASE ClosePosition(s)
  <2>1. /\ handler[s].phase = "close" /\ position' = position
        /\ OrdersOf(s) = {} /\ (position[s] = 0 \/ Closing(s))
        /\ position[s] \in Int
    BY <1>2 DEF ClosePosition, EntryFits, CallbackFits, TypeInv, TypeOK, VenueOK
  <2>2. PICK acted \in BOOLEAN : Decide(s, acted)
    BY <1>2, Zenon DEF ClosePosition
  <2>3. handler'[s].phase = "done"
    BY <2>2, DecideTyped DEF TypeInv, TypeOK
  <2>4. CASE orders' = orders
    BY <2>1, <2>3, <2>4, FitsUntouched DEF OrdersOf, Working
  <2>5. CASE position[s] # 0 /\ Accept(s, "close", -SignOf(handler[s].signal), Abs(position[s]))
    <3> DEFINE o == [id |-> <<s, count[s] + 1, "close">>, sign |-> -SignOf(handler[s].signal),
                     left |-> Abs(position[s]), done |-> 0]
    <3>1. orders' = orders \cup {o} BY <2>5 DEF Accept
    <3>2. SymbolOf(o.id) = s /\ o.id[3] # "entry" BY DEF SymbolOf
    <3>3. handler[s].signal = CloseOf(SideHeld(position[s])) BY <2>1, <2>5 DEF Closing
    <3>4. o.left > 0 /\ position[s] = -o.sign * o.left
      <4>1. CASE position[s] > 0
        <5>1. SignOf(handler[s].signal) = 1
          BY <2>1, <3>3, <4>1 DEF SignOf, CloseOf, SideHeld
        <5>2. Abs(position[s]) = position[s] BY <2>1, <4>1 DEF Abs
        <5> QED BY <2>1, <4>1, <5>1, <5>2
      <4>2. CASE position[s] < 0
        <5>1. SignOf(handler[s].signal) = -1
          BY <2>1, <3>3, <4>2 DEF SignOf, CloseOf, SideHeld
        <5>2. Abs(position[s]) = -position[s] BY <2>1, <4>2 DEF Abs
        <5> QED BY <2>1, <4>2, <5>1, <5>2
      <4> QED BY <2>1, <2>5, <4>1, <4>2
    <3> HIDE DEF o
    <3>5. OrdersOf(s)' = {o} BY <2>1, <3>1, <3>2 DEF OrdersOf
    <3>6. OrdersFit(s)' BY <2>1, <3>2, <3>4, <3>5 DEF OrdersFit, OrderFits
    <3>7. SideOffered(s)' BY <2>1 DEF EntryFits, SideOffered
    <3>8. CallbackFits(s)' BY <2>3 DEF CallbackFits, Working
    <3> QED BY <3>6, <3>7, <3>8 DEF EntryFits
  <2> QED BY <1>2, <2>4, <2>5 DEF ClosePosition
<1> QED BY <1>1, <1>2

\* A callback changes the venue's orders of its own symbol only.
LEMMA OthersFit ==
  ASSUME TypeInv, NEW s \in Symbols, NEW t \in Symbols, t # s, EntryFits(t),
         \/ ReadPosition(s) \/ Decline(s) \/ CheckHalt(s) \/ CheckOrdersAndLimits(s)
         \/ Submit(s) \/ CancelResting(s) \/ ClosePosition(s)
  PROVE  EntryFits(t)'
<1>1. handler'[t] = handler[t] BY TurnSteps
<1>2. position' = position
  BY DEF ReadPosition, Decline, CheckHalt, CheckOrdersAndLimits, Submit, CancelResting, ClosePosition, venueVars
<1>3. \A o : SymbolOf(o.id) # s => (o \in orders' <=> o \in orders)
  <2>1. CASE UNCHANGED orders BY <2>1
  <2>2. ASSUME NEW kind, NEW sign, NEW qty, Accept(s, kind, sign, qty)
        PROVE  \A o : SymbolOf(o.id) # s => (o \in orders' <=> o \in orders)
    <3> DEFINE new == [id |-> <<s, count[s] + 1, kind>>, sign |-> sign, left |-> qty, done |-> 0]
    <3>1. orders' = orders \cup {new} /\ SymbolOf(new.id) = s BY <2>2 DEF Accept, SymbolOf
    <3> HIDE DEF new
    <3> QED BY <3>1
  <2>3. CASE CancelResting(s) BY <2>3 DEF CancelResting, OrdersOf
  <2>4. CASE Submit(s) BY <2>1, <2>2, <2>4 DEF Submit, PlaceEntry
  <2>5. CASE ClosePosition(s) BY <2>1, <2>2, <2>5 DEF ClosePosition
  <2> QED BY <2>1, <2>3, <2>4, <2>5
          DEF ReadPosition, Decline, CheckHalt, CheckOrdersAndLimits, venueVars
<1> QED BY <1>1, <1>2, <1>3, OtherOrders, FitsUntouched

LEMMA EntriesKept ==
  ASSUME Answered, TypeInv, EntryInv, [Next]_vars
  PROVE  EntryInv'
<1> SUFFICES ASSUME NEW t \in Symbols PROVE EntryFits(t)'
  BY DEF EntryInv
<1>1. EntryFits(t) BY DEF EntryInv
<1>2. ASSUME NEW o \in orders, NEW n \in 1..o.left, Fill(o, n) PROVE EntryFits(t)'
  <2>1. CASE t = SymbolOf(o.id) BY <1>1, <1>2, <2>1, FillFits
  <2>2. CASE t # SymbolOf(o.id)
    <3> DEFINE s == SymbolOf(o.id)
               filled == [id |-> o.id, sign |-> o.sign, left |-> o.left - n, done |-> o.done + n]
               leg    == [id |-> <<o.id[1], o.id[2], "leg">>, sign |-> -o.sign, left |-> o.done + n, done |-> 0]
    <3>1. s \in Symbols BY DEF TypeInv, TypeOK, VenueOK, Order, OrderId, SymbolOf
    <3>2. position'[t] = position[t] /\ handler' = handler
      BY <1>2, <2>2, <3>1 DEF Fill, engineVars, TypeInv, TypeOK, VenueOK
    <3>3. \E new \in {{filled}, {leg}, {}} : orders' = (orders \ {o}) \cup new
      BY <1>2 DEF Fill
    <3>4. SymbolOf(filled.id) = s /\ SymbolOf(leg.id) = s BY DEF SymbolOf
    <3> HIDE DEF filled, leg
    <3>5. \A p : SymbolOf(p.id) # s => (p \in orders' <=> p \in orders) BY <3>3, <3>4
    <3> QED BY <1>1, <2>2, <3>2, <3>5, OtherOrders, FitsUntouched
  <2> QED BY <2>1, <2>2
<1>3. ASSUME NEW s \in Symbols, Handle(s) \/ Decline(s), ~(Finish(s) \/ SyncBook(s)) PROVE EntryFits(t)'
  <2>1. CASE t = s BY <1>1, <1>3, <2>1, ReadingFits, SubmitFits, ExitFits DEF Handle, Answered
  <2>2. CASE t # s BY <1>1, <1>3, <2>2, OthersFit DEF Handle
  <2> QED BY <2>1, <2>2
\* The steps that leave the venue's book of orders alone.
<1>4. ASSUME UNCHANGED <<position, orders>>,
             \/ handler'[t] = handler[t]
             \/ handler'[t].phase \notin Working
             \/ handler'[t].phase = "read" /\ handler'[t].signal \in Offered
      PROVE  EntryFits(t)'
  BY <1>1, <1>4, FitsUntouched DEF OrdersOf
<1>5. ASSUME NEW s \in Symbols, NEW signal, SignalBar(s, signal) PROVE EntryFits(t)'
  <2> DEFINE read == [Idle EXCEPT !.phase = "read", !.signal = signal]
  <2>1. handler' = [handler EXCEPT ![s] = read] /\ signal \in Offered /\ UNCHANGED <<position, orders>>
    BY <1>5 DEF SignalBar, venueVars
  <2>2. read.phase = "read" /\ read.signal = signal BY DEF Idle
  <2> HIDE DEF read
  <2>3. handler'[t] = handler[t] \/ handler'[t] = read BY <2>1 DEF TypeInv, TypeOK, TasksOK
  <2> QED BY <1>4, <2>1, <2>2, <2>3
<1>6. ASSUME NEW s \in Symbols, QuietBar(s) \/ Finish(s) \/ SyncBook(s) PROVE EntryFits(t)'
  <2>1. UNCHANGED <<position, orders>> BY <1>6 DEF QuietBar, Finish, SyncBook, venueVars
  <2>2. handler'[s].phase \in {"idle", "sync", "read"} /\ (t # s => handler'[t] = handler[t])
    BY <1>6, EdgeSteps
  <2>3. handler'[s].phase \in {"idle", "sync"}
    <3>1. (\E lock \in {queue, Tail(queue)} : MaybeReconcile(s, lock)) \/ handler' = [handler EXCEPT ![s] = Idle]
      BY <1>6 DEF QuietBar, Finish, SyncBook
    <3>2. handler'[s] \in {Idle, [Idle EXCEPT !.phase = "sync"]}
      BY <3>1 DEF MaybeReconcile, TypeInv, TypeOK, TasksOK
    <3> QED BY <3>2 DEF Idle
  <2> QED BY <1>4, <2>1, <2>2, <2>3 DEF Working
<1>7. CASE Crash
  <2>1. UNCHANGED <<position, orders>> /\ handler'[t] = Idle BY <1>7 DEF Crash
  <2> QED BY <1>4, <2>1 DEF Idle, Working
<1>8. CASE RefreshPosition \/ Start
  BY <1>4, <1>8 DEF RefreshPosition, Start, venueVars
<1>9. CASE LoseReport \/ Operator \/ SweepTimer \/ TakeReport \/ UNCHANGED vars \/ \E s \in Symbols : NextBar(s)
  BY <1>4, <1>9 DEF LoseReport, Operator, SetHalt, ClearHalt, SweepTimer, TakeReport, NextBar, vars,
                    venueVars, engineVars
<1> QED BY <1>2, <1>3, <1>5, <1>6, <1>7, <1>8, <1>9 DEF Next, Venue, Engine, Handle

LEMMA InitEntries == Init => EntryInv
BY DEF Init, EntryInv, EntryFits, OrdersFit, OrdersOf, SideOffered, CallbackFits, NothingThere, Closing,
       Idle, Working

\* A working entry is the only order of its symbol and what the symbol holds is
\* what that entry filled, for any universe and any sizes, whatever is declined,
\* refused, unanswered, lost or cut off by a crash: it takes a read the code answers
\* for itself, or a cancel it tolerates the failure of, to break it.
THEOREM NoSecondEntry ==
  ASSUME {"read", "cancel"} \cap Faults = {}
  PROVE  Spec => []OneEntryPerSymbol
<1>1. TypeInv /\ EntryInv /\ [Next]_vars => (TypeInv /\ EntryInv)'
  BY TypesKept, EntriesKept, NeverUnanswered
<1>2. EntryInv => OneEntryPerSymbol
  BY DEF EntryInv, EntryFits, OrdersFit, OrderFits, OneEntryPerSymbol
<1>3. Init => TypeInv /\ EntryInv BY InitTyped, InitEntries
<1> QED BY <1>1, <1>2, <1>3, PTL DEF Spec

\* Under the same faults exits, protective legs and cancels never turn a position
\* into one the strategy does not offer.
THEOREM NothingOversold ==
  ASSUME {"read", "cancel"} \cap Faults = {}
  PROVE  Spec => []NoOversell
<1>1. TypeInv /\ EntryInv /\ [Next]_vars => (TypeInv /\ EntryInv)'
  BY TypesKept, EntriesKept, NeverUnanswered
<1>2. EntryInv => NoOversell
  BY DEF EntryInv, EntryFits, SideOffered, NoOversell
<1>3. Init => TypeInv /\ EntryInv BY InitTyped, InitEntries
<1> QED BY <1>1, <1>2, <1>3, PTL DEF Spec

-----------------------------------------------------------------------------
(* The ledger of entries.  While the engine lives and no update is lost, what *)
(* an order has filled is the last word of the updates still to be taken, or, *)
(* when there are none, what the ledger has of it.                            *)

EntriesTold == WithLedger /\ Offered \subseteq EntrySignals /\ {"lost", "crash"} \cap Faults = {}

LegOf(id) == <<id[1], id[2], "leg">>

Pending(id) == {i \in DOMAIN reports : reports[i].id = id}

LastWord(id, total) ==
  IF Pending(id) = {} THEN ledger.live[id] = total
  ELSE \A i \in Pending(id) : (\A j \in Pending(id) : j <= i) => reports[i].qty = total

\* The orders are entries and legs, at most one of a number.
OrdersPlain ==
  \A o \in orders :
    /\ o.id[3] \in {"entry", "leg"} /\ o.id[2] <= count[o.id[1]]
    /\ \A p \in orders : p.id[1] = o.id[1] /\ p.id[2] = o.id[2] => p = o

EntriesOnly ==
  \A s \in Symbols : handler[s].phase \notin {"cancel", "close"} /\ handler[s].signal \notin ExitSignals

Unbased ==
  /\ \A s \in Symbols : ledger.base[s] = 0
  /\ ~running => orders = {} /\ \A s \in Symbols : position[s] = 0

\* tot is what each order has filled, bought or sold.
Totals(tot) ==
  /\ \A id \in OrderId : LastWord(id, tot[id])
  /\ \A s \in Symbols : position[s] = SumFunction([id \in IdsOf(s) |-> tot[id]])

Accounts(tot) ==
  /\ \A o \in orders : tot[o.id] = o.sign * o.done
  /\ \A o \in orders : o.id[3] = "entry" => tot[LegOf(o.id)] = 0
  /\ \A id \in OrderId : id[2] > count[id[1]] => tot[id] = 0

LedgerInv == OrdersPlain /\ EntriesOnly /\ Unbased /\ \E tot \in [OrderId -> Int] : Totals(tot) /\ Accounts(tot)

LEMMA IdsFinite == ASSUME NEW s \in Symbols PROVE IsFiniteSet(IdsOf(s)) /\ IdsOf(s) \subseteq OrderId
<1> DEFINE P == (Symbols \X (1..MaxOrders)) \X Kinds
           f == [id \in OrderId |-> <<<<id[1], id[2]>>, id[3]>>]
<1>1. IsFiniteSet(Kinds)
  <2>1. IsFiniteSet({}) BY FS_EmptySet
  <2>2. IsFiniteSet({} \cup {"entry"}) BY <2>1, FS_AddElement
  <2>3. IsFiniteSet({"entry"} \cup {"leg"}) BY <2>2, FS_AddElement
  <2>4. IsFiniteSet({"entry", "leg"} \cup {"close"}) BY <2>3, FS_AddElement
  <2>5. IsFiniteSet({"entry", "leg", "close"} \cup {"flat"}) BY <2>4, FS_AddElement
  <2>6. Kinds = {"entry", "leg", "close"} \cup {"flat"} BY DEF Kinds
  <2> QED BY <2>5, <2>6
<1>2. IsFiniteSet(1..MaxOrders) BY FS_Interval, TradingAssumption DEF TradingAssumption
<1>3. IsFiniteSet(Symbols \X (1..MaxOrders)) BY <1>2, FS_Product, TradingAssumption DEF TradingAssumption
<1>4. IsFiniteSet(P) BY <1>1, <1>3, FS_Product
<1>5. f \in Injection(OrderId, P) BY DEF OrderId, Injection, IsInjective
<1> HIDE DEF P, f
<1>6. IsFiniteSet(OrderId) BY <1>4, <1>5, FS_Injection
<1>7. IdsOf(s) \subseteq OrderId BY DEF IdsOf
<1> QED BY <1>6, <1>7, FS_Subset

\* A symbol's sum follows one of its orders.
LEMMA SumFollows ==
  ASSUME NEW tot \in [OrderId -> Int], NEW now \in [OrderId -> Int], NEW x \in OrderId, NEW s \in Symbols,
         \A id \in OrderId \ {x} : now[id] = tot[id]
  PROVE  SumFunction([id \in IdsOf(s) |-> now[id]])
           = SumFunction([id \in IdsOf(s) |-> tot[id]]) + (IF s = SymbolOf(x) THEN now[x] - tot[x] ELSE 0)
<1> DEFINE S == IdsOf(s)
           f == [id \in S |-> tot[id]]
           h == [id \in S |-> now[id]]
<1>1. IsFiniteSet(S) /\ S \subseteq OrderId BY IdsFinite
<1>2. f \in [S -> Int] /\ h \in [S -> Int] BY <1>1
<1>3. SumFunction(f) \in Int
  <2> HIDE DEF f, S
  <2> QED BY <1>1, <1>2, SumTyped
<1>4. CASE s = SymbolOf(x)
  <2>1. x \in S BY <1>4 DEF IdsOf
  <2>2. Agree(f, h, S \ {x}) BY <1>1 DEF Agree
  <2>3. f[x] = tot[x] /\ h[x] = now[x] /\ tot[x] \in Int /\ now[x] \in Int BY <2>1
  <2> HIDE DEF f, h, S
  <2>4. SumFunction(h) = SumFunction(f) + h[x] - f[x] BY <1>1, <1>2, <2>1, <2>2, SumChange
  <2>5. SumFunction(h) = SumFunction(f) + (now[x] - tot[x]) BY <1>3, <2>3, <2>4
  <2> QED BY <1>4, <2>5 DEF f, h, S
<1>5. CASE s # SymbolOf(x)
  <2>1. x \notin S BY <1>5 DEF IdsOf
  <2>2. f = h BY <1>1, <2>1
  <2>3. SumFunction(h) = SumFunction(f) + 0 BY <1>3, <2>2
  <2> QED BY <1>5, <2>3
<1> QED BY <1>4, <1>5

\* What the next update to be taken, or one more update, does to an order's last word.
LEMMA WordAdded ==
  ASSUME VenueOK, NEW x \in OrderId, NEW q \in Int, NEW id \in OrderId, NEW total \in Int,
         reports' = Append(reports, [id |-> x, qty |-> q]), UNCHANGED ledger, LastWord(id, total)
  PROVE  LastWord(id, IF id = x THEN q ELSE total)'
<1> DEFINE n == Len(reports)
<1>1. reports \in Seq(Report) /\ n \in Nat /\ DOMAIN reports = 1..n BY DEF VenueOK
<1>2. DOMAIN reports' = 1..(n + 1) /\ reports'[n + 1] = [id |-> x, qty |-> q]
      /\ \A i \in 1..n : reports'[i] = reports[i]
  BY <1>1
<1> HIDE DEF n
<1>3. CASE id = x
  <2>1. n + 1 \in Pending(id)' BY <1>1, <1>2, <1>3 DEF Pending
  <2>2. \A i \in Pending(id)' : (\A j \in Pending(id)' : j <= i) => i = n + 1
    <3> SUFFICES ASSUME NEW i \in Pending(id)', \A j \in Pending(id)' : j <= i PROVE i = n + 1 OBVIOUS
    <3>1. n + 1 <= i BY <2>1
    <3>2. i \in 1..(n + 1) BY <1>2 DEF Pending
    <3> QED BY <1>1, <3>1, <3>2
  <2>3. reports'[n + 1].qty = q
    <3> DEFINE added == reports'[n + 1]
    <3>1. added = [id |-> x, qty |-> q] BY <1>2
    <3> HIDE DEF added
    <3>2. added.qty = q BY <3>1
    <3> QED BY <3>2 DEF added
  <2>4. \A i \in Pending(id)' : (\A j \in Pending(id)' : j <= i) => reports'[i].qty = q BY <2>2, <2>3
  <2>5. Pending(id)' # {} BY <2>1
  <2> QED BY <1>3, <2>4, <2>5 DEF LastWord
<1>4. CASE id # x
  <2>1. Pending(id)' = Pending(id) BY <1>1, <1>2, <1>4 DEF Pending
  <2>2. \A i \in Pending(id) : reports'[i] = reports[i] BY <1>1, <1>2 DEF Pending
  <2> QED BY <1>4, <2>1, <2>2 DEF LastWord
<1> QED BY <1>3, <1>4

LEMMA WordTaken ==
  ASSUME TypeInv, WithLedger, TakeReport, NEW id \in OrderId, NEW total \in Int, LastWord(id, total)
  PROVE  LastWord(id, total)' /\ ledger'.base = ledger.base
<1> DEFINE n == Len(reports)
           report == Head(reports)
<1>1. reports \in Seq(Report) /\ reports # <<>> /\ ledger \in [base : [Symbols -> Int], live : [OrderId -> Int]]
  BY DEF TypeInv, TypeOK, VenueOK, LedgerOK, TakeReport
<1>2. n \in Nat \ {0} /\ DOMAIN reports = 1..n /\ reports' = Tail(reports) /\ report = reports[1]
      /\ report \in Report
  BY <1>1 DEF TakeReport
<1>3. DOMAIN reports' = 1..(n - 1) /\ \A i \in 1..(n - 1) : reports'[i] = reports[i + 1]
  BY <1>1, <1>2
<1>4. ledger' = [ledger EXCEPT !.live[report.id] = report.qty]
  <2> DEFINE r == FillRecord(report.id, SymbolOf(report.id), report.qty, "cumulative")
  <2>1. r.event = "fill" /\ r.basis = "cumulative" /\ r.order = report.id /\ r.qty = report.qty
    BY DEF FillRecord
  <2>2. ledger' = Apply(ledger, r, IdsOf(r.symbol)) BY DEF TakeReport, Record
  <2> HIDE DEF r, report
  <2> QED BY <2>1, <2>2 DEF Apply
<1>5. report.id \in OrderId /\ report.qty \in Int BY <1>2 DEF Report
<1> HIDE DEF n, report
<1>6. /\ ledger'.base = ledger.base
      /\ ledger'.live[id] = IF id = report.id THEN report.qty ELSE ledger.live[id]
  BY <1>1, <1>4, <1>5
<1>7. \A i \in Nat : i \in Pending(id)' <=> i > 0 /\ i + 1 \in Pending(id)
  BY <1>2, <1>3 DEF Pending
<1>8. Pending(id) \subseteq 1..n /\ Pending(id)' \subseteq 1..(n - 1) BY <1>2, <1>3 DEF Pending
<1>9. CASE Pending(id)' # {}
  <2>1. PICK k \in Pending(id)' : TRUE BY <1>9
  <2>2. k \in Nat /\ k > 0 /\ k + 1 \in Pending(id) BY <1>2, <1>7, <1>8, <2>1
  <2>3. ASSUME NEW i \in Pending(id)', \A j \in Pending(id)' : j <= i PROVE reports'[i] = reports[i + 1] /\ reports[i + 1].qty = total
    <3>1. i \in Nat /\ i > 0 /\ i + 1 \in Pending(id) /\ i \in 1..(n - 1) BY <1>2, <1>7, <1>8
    <3>2. ASSUME NEW j \in Pending(id) PROVE j <= i + 1
      <4>1. j \in 1..n BY <1>8
      <4>2. CASE j = 1 BY <3>1, <4>2
      <4>3. CASE j # 1
        <5>1. j - 1 \in Nat /\ j - 1 > 0 /\ (j - 1) + 1 = j BY <1>2, <4>1, <4>3
        <5>2. j - 1 \in Pending(id)' BY <1>7, <5>1
        <5>3. j - 1 <= i BY <2>3, <5>2
        <5> QED BY <3>1, <4>1, <5>3
      <4> QED BY <4>2, <4>3
    <3> QED BY <1>3, <3>1, <3>2 DEF LastWord
  <2> QED BY <1>6, <1>9, <2>3 DEF LastWord
<1>10. CASE Pending(id)' = {}
  <2>1. \A j \in Pending(id) : j = 1
    <3> SUFFICES ASSUME NEW j \in Pending(id), j # 1 PROVE FALSE OBVIOUS
    <3>1. j \in 1..n BY <1>8
    <3>2. j - 1 \in Nat /\ j - 1 > 0 /\ (j - 1) + 1 = j BY <1>2, <3>1
    <3> QED BY <1>7, <1>10, <3>2
  <2>2. CASE Pending(id) = {}
    <3>1. id # report.id BY <1>2, <2>2 DEF Pending
    <3> QED BY <1>6, <1>10, <2>2, <3>1 DEF LastWord
  <2>3. CASE Pending(id) # {}
    <3>1. 1 \in Pending(id) /\ \A j \in Pending(id) : j <= 1 BY <2>1, <2>3
    <3>2. reports[1].id = id /\ reports[1].qty = total BY <3>1, <2>3 DEF LastWord, Pending
    <3> QED BY <1>2, <1>6, <1>10, <3>2 DEF LastWord
  <2> QED BY <2>2, <2>3
<1> QED BY <1>6, <1>9, <1>10

\* Only entries are ever handled.
LEMMA EntriesOnlyKept ==
  ASSUME EntriesTold, TypeInv, LockInv, EntriesOnly, [Next]_vars
  PROVE  EntriesOnly'
<1> SUFFICES ASSUME NEW t \in Symbols
             PROVE  handler'[t].phase \notin {"cancel", "close"} /\ handler'[t].signal \notin ExitSignals
  BY DEF EntriesOnly
<1>0. handler[t].phase \notin {"cancel", "close"} /\ handler[t].signal \notin ExitSignals
  BY DEF EntriesOnly
<1>1. CASE handler'[t] = handler[t] BY <1>0, <1>1
<1>2. CASE handler'[t].phase \notin {"cancel", "close"} /\ handler'[t].signal = handler[t].signal BY <1>0, <1>2
<1>3. CASE handler'[t].phase \in {"idle", "sync"} /\ handler'[t].signal = "HOLD" BY <1>3 DEF ExitSignals
<1>4. ASSUME NEW s \in Symbols,
             ReadPosition(s) \/ Decline(s) \/ CheckHalt(s) \/ CheckOrdersAndLimits(s)
      PROVE  EntriesOnly'
  <2>0. handler[s].signal \notin ExitSignals BY DEF EntriesOnly
  <2>1. PICK phase \in Phases \ {"cancel", "close"} : Go(s, phase)
    <3>1. CASE ReadPosition(s)
      <4>1. \A seen : handler[s].signal # CloseOf(SideHeld(seen)) BY <2>0 DEF CloseOf, ExitSignals
      <4> QED BY <3>1, <4>1 DEF ReadPosition, Phases
    <3>2. CASE Decline(s) \/ CheckHalt(s) \/ CheckOrdersAndLimits(s)
      BY <3>2 DEF Decline, CheckHalt, CheckOrdersAndLimits, Phases
    <3> QED BY <1>4, <3>1, <3>2
  <2>2. /\ handler'[s].phase = phase /\ handler'[s].signal = handler[s].signal
        /\ \A u \in Symbols \ {s} : handler'[u] = handler[u]
    BY <2>1, GoTyped DEF TypeInv, TypeOK
  <2> QED BY <2>2 DEF EntriesOnly
<1>5. ASSUME NEW s \in Symbols, Submit(s) PROVE EntriesOnly'
  <2>1. PICK acted \in BOOLEAN : Decide(s, acted)
    BY <1>5, Zenon DEF Submit
  <2>2. /\ handler'[s].phase = "done" /\ handler'[s].signal = handler[s].signal
        /\ \A u \in Symbols \ {s} : handler'[u] = handler[u]
    BY <2>1, DecideTyped DEF TypeInv, TypeOK
  <2> QED BY <2>2 DEF EntriesOnly
<1>6. ASSUME NEW s \in Symbols, CancelResting(s) \/ ClosePosition(s) PROVE FALSE
  BY <1>6 DEF CancelResting, ClosePosition, EntriesOnly
<1>7. ASSUME NEW s \in Symbols, QuietBar(s) \/ Finish(s) \/ SyncBook(s) PROVE EntriesOnly'
  <2> DEFINE sync == [Idle EXCEPT !.phase = "sync"]
  <2>1. Idle.phase = "idle" /\ Idle.signal = "HOLD" /\ sync.phase = "sync" /\ sync.signal = "HOLD" BY DEF Idle
  <2>2. \E h \in {Idle, sync} : handler' = [handler EXCEPT ![s] = h]
    BY <1>7 DEF QuietBar, Finish, SyncBook, MaybeReconcile
  <2> HIDE DEF sync
  <2> QED BY <2>1, <2>2 DEF EntriesOnly, TypeInv, TypeOK, TasksOK, ExitSignals
<1>8. ASSUME NEW s \in Symbols, NEW signal, SignalBar(s, signal) PROVE EntriesOnly'
  <2> DEFINE read == [Idle EXCEPT !.phase = "read", !.signal = signal]
  <2>1. read.phase = "read" /\ read.signal = signal BY DEF Idle
  <2>2. handler' = [handler EXCEPT ![s] = read] /\ signal \in EntrySignals
    BY <1>8 DEF SignalBar, EntriesTold
  <2> HIDE DEF read
  <2>3. signal \notin ExitSignals BY <2>2 DEF EntrySignals, ExitSignals
  <2> QED BY <2>1, <2>2, <2>3 DEF EntriesOnly, TypeInv, TypeOK, TasksOK
<1>9. CASE Aside BY <1>1, <1>9 DEF Aside
<1>10. CASE RefreshPosition \/ Start BY <1>1, <1>10 DEF RefreshPosition, Start
<1>11. CASE Crash BY <1>11 DEF Crash, Fault, EntriesTold
<1>12. \A s \in Symbols : Handle(s) \/ Decline(s) => EntriesOnly' BY <1>4, <1>5, <1>6, <1>7 DEF Handle
<1> QED BY <1>7, <1>8, <1>9, <1>10, <1>11, <1>12, AsideSteps DEF EntriesOnly, Next, Engine

\* A step that leaves the venue, the updates and the ledger alone.
LEMMA LedgerUntouched ==
  ASSUME LedgerInv, EntriesOnly', UNCHANGED <<position, orders, count, reports, ledger>>,
         running => running'
  PROVE  LedgerInv'
<1>1. OrdersPlain' BY DEF LedgerInv, OrdersPlain
<1>2. Unbased' BY DEF LedgerInv, Unbased
<1>3. PICK tot \in [OrderId -> Int] : Totals(tot) /\ Accounts(tot) BY DEF LedgerInv
<1>4. Totals(tot)' BY <1>3 DEF Totals, LastWord, Pending
<1>5. Accounts(tot)' BY <1>3 DEF Accounts
<1> QED BY <1>1, <1>2, <1>4, <1>5 DEF LedgerInv

LEMMA SubmitAccounted ==
  ASSUME TypeInv, LockInv, LedgerInv, EntriesOnly', NEW s \in Symbols, Submit(s)
  PROVE  LedgerInv'
<1>1. UNCHANGED <<position, reports, running, ledger>> BY DEF Submit
<1>2. CASE UNCHANGED <<orders, count>> BY <1>1, <1>2, LedgerUntouched
<1>3. ASSUME NEW answered, PlaceEntry(s, answered) PROVE LedgerInv'
  <2> DEFINE new == [id |-> <<s, count[s] + 1, "entry">>, sign |-> SignOf(handler[s].signal), left |-> Size, done |-> 0]
             id == new.id
  <2>1. orders' = orders \cup {new} /\ count' = [count EXCEPT ![s] = @ + 1]
    BY <1>3 DEF PlaceEntry, Accept
  <2>2. /\ count[s] < MaxOrders /\ count \in [Symbols -> 0..MaxOrders]
        /\ handler[s].phase = "submit"
        /\ \A o \in orders : o.id \in OrderId
    BY DEF TypeInv, TypeOK, VenueOK, PhaseOK, Working, Submit, Order
  <2>3. /\ id = <<s, count[s] + 1, "entry">> /\ id[1] = s /\ id[2] = count[s] + 1 /\ id[3] = "entry"
        /\ new.done = 0 /\ new.sign \in Int
    BY DEF SignOf
  <2>4. id \in OrderId /\ LegOf(id) \in OrderId /\ LegOf(id)[1] = s /\ LegOf(id)[2] = count[s] + 1
    BY <2>2, <2>3, TradingAssumption DEF OrderId, LegOf, Kinds, TradingAssumption
  <2>5. running BY <2>2 DEF LockInv, Idle
  <2> HIDE DEF new
  <2>6. \A o \in orders : o.id[1] \in Symbols /\ o.id[2] \in Nat BY <2>2 DEF OrderId
  <2>7. \A u \in Symbols : count'[u] = IF u = s THEN count[s] + 1 ELSE count[u] BY <2>1, <2>2
  <2>8. \A o \in orders : o.id[2] <= count[o.id[1]] BY DEF LedgerInv, OrdersPlain
  <2>9. \A o \in orders : ~(o.id[1] = s /\ o.id[2] = count[s] + 1) BY <2>2, <2>6, <2>8
  <2>10. OrdersPlain'
    <3> SUFFICES ASSUME NEW o \in orders'
                 PROVE  /\ o.id[3] \in {"entry", "leg"} /\ o.id[2] <= count'[o.id[1]]
                        /\ \A p \in orders' : p.id[1] = o.id[1] /\ p.id[2] = o.id[2] => p = o
      BY DEF OrdersPlain
    <3>1. CASE o = new BY <2>1, <2>2, <2>3, <2>7, <2>9, <3>1
    <3>2. CASE o \in orders
      <4>1. o.id[3] \in {"entry", "leg"} /\ \A p \in orders : p.id[1] = o.id[1] /\ p.id[2] = o.id[2] => p = o
        BY <3>2 DEF LedgerInv, OrdersPlain
      <4>2. o.id[2] <= count'[o.id[1]] BY <2>2, <2>6, <2>7, <2>8, <3>2
      <4> QED BY <2>1, <2>3, <2>9, <3>2, <4>1, <4>2
    <3> QED BY <2>1, <3>1, <3>2
  <2>11. PICK tot \in [OrderId -> Int] : Totals(tot) /\ Accounts(tot) BY DEF LedgerInv
  <2>12. Totals(tot)' BY <1>1, <2>11 DEF Totals, LastWord, Pending
  <2>13. tot[id] = 0 /\ tot[LegOf(id)] = 0
    <3>1. id[2] > count[id[1]] /\ LegOf(id)[2] > count[LegOf(id)[1]] BY <2>2, <2>3, <2>4
    <3> QED BY <2>4, <2>11, <3>1 DEF Accounts
  <2>14. Accounts(tot)'
    <3>1. \A o \in orders' : tot[o.id] = o.sign * o.done
      BY <2>1, <2>3, <2>11, <2>13 DEF Accounts
    <3>2. \A o \in orders' : o.id[3] = "entry" => tot[LegOf(o.id)] = 0
      BY <2>1, <2>11, <2>13 DEF Accounts
    <3>3. \A x \in OrderId : x[2] > count'[x[1]] => tot[x] = 0
      <4> SUFFICES ASSUME NEW x \in OrderId, x[2] > count'[x[1]] PROVE tot[x] = 0 OBVIOUS
      <4>1. x[1] \in Symbols /\ x[2] \in Nat BY DEF OrderId
      <4>2. x[2] > count[x[1]] BY <2>2, <2>7, <4>1
      <4> QED BY <2>11, <4>2 DEF Accounts
    <3> QED BY <3>1, <3>2, <3>3 DEF Accounts
  <2>15. Unbased' BY <1>1, <2>5 DEF LedgerInv, Unbased
  <2> QED BY <2>10, <2>11, <2>12, <2>14, <2>15 DEF LedgerInv
<1> QED BY <1>2, <1>3 DEF Submit

LEMMA FillAccounted ==
  ASSUME TypeInv, LedgerInv, NEW o \in orders, NEW n \in 1..o.left, Fill(o, n)
  PROVE  LedgerInv'
<1> DEFINE s == SymbolOf(o.id)
           q == o.sign * (o.done + n)
           filled == [id |-> o.id, sign |-> o.sign, left |-> o.left - n, done |-> o.done + n]
           leg    == [id |-> <<o.id[1], o.id[2], "leg">>, sign |-> -o.sign, left |-> o.done + n, done |-> 0]
<1>1. /\ o \in Order /\ o.id \in OrderId /\ s \in Symbols /\ s = o.id[1] /\ o.id[2] \in Nat
      /\ o.sign \in {1, -1} /\ o.done \in Nat /\ n \in Nat /\ position \in [Symbols -> Int]
      /\ \A p \in orders : p.id \in OrderId
  BY DEF TypeInv, TypeOK, VenueOK, Order, OrderId, SymbolOf
<1>2. LegOf(o.id) \in OrderId BY <1>1 DEF LegOf, OrderId, Kinds
<1>3. /\ filled.id = o.id /\ filled.sign * filled.done = q /\ filled.sign = o.sign
      /\ leg.id = LegOf(o.id) /\ leg.sign * leg.done = 0
      /\ LegOf(o.id)[1] = o.id[1] /\ LegOf(o.id)[2] = o.id[2] /\ LegOf(o.id)[3] = "leg"
  BY <1>1 DEF LegOf
<1>4. q \in Int /\ q = o.sign * o.done + o.sign * n BY <1>1
<1>5. running BY DEF LedgerInv, Unbased
<1>6. /\ position' = [position EXCEPT ![s] = @ + o.sign * n]
      /\ reports' = Append(reports, [id |-> o.id, qty |-> q])
      /\ UNCHANGED <<accepted, count, running, handler, ledger>>
  BY <1>5 DEF Fill, engineVars
<1>7. PICK new \in {filled, leg} :
        /\ orders' \subseteq (orders \ {o}) \cup {new}
        /\ new = filled \/ o.id[3] = "entry"
  <2>1. orders' = (orders \ {o}) \cup (IF filled.left > 0 THEN {filled} ELSE IF o.id[3] = "entry" THEN {leg} ELSE {})
    BY DEF Fill
  <2> HIDE DEF filled, leg
  <2> QED BY <2>1
<1> HIDE DEF filled, leg, q, s
<1>8. \A p \in orders : p.id[1] = o.id[1] /\ p.id[2] = o.id[2] => p = o BY DEF LedgerInv, OrdersPlain
<1>9. OrdersPlain'
  <2> SUFFICES ASSUME NEW p \in orders'
               PROVE  /\ p.id[3] \in {"entry", "leg"} /\ p.id[2] <= count[p.id[1]]
                      /\ \A r \in orders' : r.id[1] = p.id[1] /\ r.id[2] = p.id[2] => r = p
    BY <1>6 DEF OrdersPlain
  <2>1. o.id[3] \in {"entry", "leg"} /\ o.id[2] <= count[o.id[1]] BY DEF LedgerInv, OrdersPlain
  <2>2. new.id[1] = o.id[1] /\ new.id[2] = o.id[2] /\ new.id[3] \in {"entry", "leg"} BY <1>3, <2>1
  <2>3. CASE p = new BY <1>7, <1>8, <2>1, <2>2, <2>3
  <2>4. CASE p \in orders \ {o}
    <3>1. /\ p.id[3] \in {"entry", "leg"} /\ p.id[2] <= count[p.id[1]]
          /\ \A r \in orders : r.id[1] = p.id[1] /\ r.id[2] = p.id[2] => r = p
      BY <2>4 DEF LedgerInv, OrdersPlain
    <3>2. ~(new.id[1] = p.id[1] /\ new.id[2] = p.id[2]) BY <1>8, <2>2, <2>4
    <3> QED BY <1>7, <3>1, <3>2
  <2> QED BY <1>7, <2>3, <2>4
<1>10. PICK tot \in [OrderId -> Int] : Totals(tot) /\ Accounts(tot) BY DEF LedgerInv
<1> DEFINE now == [tot EXCEPT ![o.id] = q]
<1>11. now \in [OrderId -> Int] /\ \A id \in OrderId : now[id] = IF id = o.id THEN q ELSE tot[id]
  BY <1>1, <1>4, <1>10
<1>12. tot[o.id] = o.sign * o.done BY <1>10 DEF Accounts
<1>13. \A t \in Symbols : position'[t] = SumFunction([id \in IdsOf(t) |-> now[id]])
  <2> SUFFICES ASSUME NEW t \in Symbols PROVE position'[t] = SumFunction([id \in IdsOf(t) |-> now[id]]) OBVIOUS
  <2>1. position[t] = SumFunction([id \in IdsOf(t) |-> tot[id]]) BY <1>10 DEF Totals
  <2>2. SumFunction([id \in IdsOf(t) |-> now[id]])
          = SumFunction([id \in IdsOf(t) |-> tot[id]]) + (IF t = SymbolOf(o.id) THEN now[o.id] - tot[o.id] ELSE 0)
    <3> HIDE DEF now
    <3> QED BY <1>1, <1>10, <1>11, SumFollows
  <2>3. position'[t] = position[t] + (IF t = SymbolOf(o.id) THEN o.sign * n ELSE 0) BY <1>1, <1>6 DEF s
  <2>4. now[o.id] - tot[o.id] = o.sign * n BY <1>1, <1>4, <1>11, <1>12
  <2> HIDE DEF now
  <2> QED BY <2>1, <2>2, <2>3, <2>4
<1> HIDE DEF now
<1>14. \A id \in OrderId : LastWord(id, now[id])'
  <2> SUFFICES ASSUME NEW id \in OrderId PROVE LastWord(id, now[id])' OBVIOUS
  <2>1. VenueOK BY DEF TypeInv, TypeOK
  <2>2. LastWord(id, tot[id]) /\ tot[id] \in Int BY <1>10 DEF Totals
  <2>3. LastWord(id, IF id = o.id THEN q ELSE tot[id])' BY <1>1, <1>4, <1>6, <2>1, <2>2, WordAdded
  <2>4. now[id] = IF id = o.id THEN q ELSE tot[id] BY <1>11
  <2> QED BY <2>3, <2>4
<1>15. Totals(now)' BY <1>13, <1>14 DEF Totals
<1>16. Accounts(now)'
  <2>1. ASSUME NEW p \in orders \ {o} PROVE now[p.id] = p.sign * p.done
    <3>1. p.id # o.id /\ p.id \in OrderId BY <1>1, <1>8
    <3> QED BY <1>10, <1>11, <3>1 DEF Accounts
  <2>2. now[new.id] = new.sign * new.done
    <3>1. CASE new = filled BY <1>1, <1>3, <1>11, <3>1
    <3>2. CASE new = leg /\ o.id[3] = "entry"
      <4>1. tot[LegOf(o.id)] = 0 BY <1>10, <3>2 DEF Accounts
      <4>2. LegOf(o.id) # o.id BY <1>3, <3>2
      <4> QED BY <1>2, <1>3, <1>11, <3>2, <4>1, <4>2
    <3> QED BY <1>7, <3>1, <3>2
  <2>3. ASSUME NEW p \in orders \ {o}, p.id[3] = "entry" PROVE now[LegOf(p.id)] = 0
    <3>1. p.id \in OrderId /\ LegOf(p.id) \in OrderId /\ LegOf(p.id)[1] = p.id[1] /\ LegOf(p.id)[2] = p.id[2]
      BY <1>1 DEF LegOf, OrderId, Kinds
    <3>2. LegOf(p.id) # o.id BY <1>8, <3>1
    <3> QED BY <1>10, <1>11, <2>3, <3>1, <3>2 DEF Accounts
  <2>4. new.id[3] = "entry" => now[LegOf(new.id)] = 0
    <3> SUFFICES ASSUME new.id[3] = "entry" PROVE now[LegOf(new.id)] = 0 OBVIOUS
    <3>1. new.id = o.id /\ o.id[3] = "entry" BY <1>3, <1>7
    <3>2. tot[LegOf(o.id)] = 0 BY <1>10, <3>1 DEF Accounts
    <3>3. LegOf(o.id) # o.id BY <1>3, <3>1
    <3> QED BY <1>2, <1>11, <3>1, <3>2, <3>3
  <2>5. ASSUME NEW id \in OrderId, id[2] > count[id[1]] PROVE now[id] = 0
    <3>1. id # o.id
      <4>1. o.id[2] <= count[o.id[1]] BY DEF LedgerInv, OrdersPlain
      <4>2. count[o.id[1]] \in Nat BY <1>1 DEF TypeInv, TypeOK, VenueOK, SymbolOf, s
      <4> QED BY <1>1, <2>5, <4>1, <4>2
    <3> QED BY <1>10, <1>11, <2>5, <3>1 DEF Accounts
  <2> QED BY <1>6, <1>7, <2>1, <2>2, <2>3, <2>4, <2>5 DEF Accounts
<1>17. Unbased' BY <1>5, <1>6 DEF LedgerInv, Unbased
<1>18. EntriesOnly' BY <1>6 DEF LedgerInv, EntriesOnly
<1> QED BY <1>9, <1>11, <1>15, <1>16, <1>17, <1>18 DEF LedgerInv

LEMMA TakeAccounted ==
  ASSUME EntriesTold, TypeInv, LedgerInv, TakeReport
  PROVE  LedgerInv'
<1>1. UNCHANGED <<position, orders, count, running, handler>> BY DEF TakeReport
<1>2. WithLedger /\ ledger'.base = ledger.base
  <2>1. WithLedger BY DEF EntriesTold
  <2>2. PICK tot \in [OrderId -> Int] : Totals(tot) BY DEF LedgerInv
  <2>3. Head(reports).id \in OrderId
    <3>1. reports \in Seq(Report) /\ reports # <<>> BY DEF TakeReport, TypeInv, TypeOK, VenueOK
    <3>2. Head(reports) \in Report BY <3>1
    <3> QED BY <3>2 DEF Report
  <2>4. LastWord(Head(reports).id, tot[Head(reports).id]) /\ tot[Head(reports).id] \in Int BY <2>2, <2>3 DEF Totals
  <2> QED BY <2>1, <2>3, <2>4, WordTaken
<1>3. PICK tot \in [OrderId -> Int] : Totals(tot) /\ Accounts(tot) BY DEF LedgerInv
<1>4. \A id \in OrderId : LastWord(id, tot[id])'
  <2> SUFFICES ASSUME NEW id \in OrderId PROVE LastWord(id, tot[id])' OBVIOUS
  <2>1. LastWord(id, tot[id]) /\ tot[id] \in Int BY <1>3 DEF Totals
  <2> QED BY <1>2, <2>1, WordTaken
<1>5. Totals(tot)' BY <1>1, <1>3, <1>4 DEF Totals
<1>6. Accounts(tot)' BY <1>1, <1>3 DEF Accounts
<1>7. OrdersPlain' /\ EntriesOnly' /\ Unbased' BY <1>1, <1>2 DEF LedgerInv, OrdersPlain, EntriesOnly, Unbased
<1> QED BY <1>5, <1>6, <1>7 DEF LedgerInv

LEMMA LedgerKept ==
  ASSUME EntriesTold, TypeInv, LockInv, LedgerInv, [Next]_vars
  PROVE  LedgerInv'
<1>1. EntriesOnly' BY EntriesOnlyKept DEF LedgerInv
<1>2. ASSUME UNCHANGED <<position, orders, count, reports, ledger, running>> PROVE LedgerInv'
  BY <1>1, <1>2, LedgerUntouched
<1>3. CASE Venue
  <2>1. ~LoseReport BY DEF LoseReport, Fault, EntriesTold
  <2> QED BY <1>3, <2>1, FillAccounted DEF Venue
<1>4. ASSUME NEW s \in Symbols, Handle(s) \/ Decline(s) PROVE LedgerInv'
  <2>1. handler[s].phase \notin {"cancel", "close"} /\ handler[s].signal \notin ExitSignals
    BY DEF LedgerInv, EntriesOnly
  <2>2. CASE Submit(s) BY <1>1, <2>2, SubmitAccounted
  <2>3. CASE CancelResting(s) \/ ClosePosition(s) BY <2>1, <2>3 DEF CancelResting, ClosePosition
  <2>4. CASE Finish(s) BY <1>2, <2>1, <2>4 DEF Finish, venueVars
  <2>5. CASE ReadPosition(s) \/ Decline(s) \/ CheckHalt(s) \/ CheckOrdersAndLimits(s) \/ SyncBook(s)
    BY <1>2, <2>5 DEF ReadPosition, Decline, CheckHalt, CheckOrdersAndLimits, SyncBook, venueVars
  <2> QED BY <1>4, <2>2, <2>3, <2>4, <2>5 DEF Handle
<1>5. CASE Start
  <2>1. \A s \in Symbols : position[s] = 0 BY <1>5 DEF Start, LedgerInv, Unbased
  <2>2. Adopted = ledger
    <3>1. ledger \in [base : [Symbols -> Int], live : [OrderId -> Int]] BY DEF TypeInv, TypeOK, LedgerOK
    <3>2. \A id \in OrderId : SymbolOf(id) \in Symbols BY DEF OrderId, SymbolOf
    <3>3. [s \in Symbols |-> IF position[s] # 0 THEN position[s] ELSE ledger.base[s]] = ledger.base
      BY <2>1, <3>1
    <3>4. [id \in OrderId |-> IF position[SymbolOf(id)] # 0 THEN 0 ELSE ledger.live[id]] = ledger.live
      BY <2>1, <3>1, <3>2
    <3> QED BY <3>1, <3>3, <3>4 DEF Adopted
  <2>3. UNCHANGED <<position, orders, count, reports, ledger>> /\ running'
    BY <1>5, <2>2 DEF Start, venueVars
  <2> QED BY <1>1, <2>3, LedgerUntouched
<1>6. ~Crash BY DEF Crash, Fault, EntriesTold
<1>7. CASE TakeReport BY <1>7, TakeAccounted
<1>8. ASSUME NEW s \in Symbols, NEW signal, QuietBar(s) \/ NextBar(s) \/ SignalBar(s, signal) PROVE LedgerInv'
  BY <1>2, <1>8 DEF QuietBar, NextBar, SignalBar, venueVars
<1>9. CASE Operator \/ SweepTimer \/ RefreshPosition \/ UNCHANGED vars
  BY <1>2, <1>9 DEF Operator, SetHalt, ClearHalt, SweepTimer, RefreshPosition, venueVars, engineVars, vars
<1> QED BY <1>3, <1>4, <1>5, <1>6, <1>7, <1>8, <1>9 DEF Next, Engine

LEMMA InitAccounted == Init => LedgerInv
<1> SUFFICES ASSUME Init PROVE LedgerInv OBVIOUS
<1> DEFINE tot == [id \in OrderId |-> 0]
<1>1. tot \in [OrderId -> Int] OBVIOUS
<1>2. OrdersPlain /\ EntriesOnly /\ Unbased
  BY DEF Init, OrdersPlain, EntriesOnly, Unbased, Idle, EmptyLedger, ExitSignals
<1>3. \A id \in OrderId : Pending(id) = {} /\ ledger.live[id] = 0 BY DEF Init, Pending, EmptyLedger
<1>4. \A s \in Symbols : position[s] = SumFunction([id \in IdsOf(s) |-> tot[id]])
  <2> SUFFICES ASSUME NEW s \in Symbols PROVE SumFunction([id \in IdsOf(s) |-> tot[id]]) = 0 BY DEF Init
  <2> DEFINE S == IdsOf(s)
             f == [id \in S |-> tot[id]]
  <2>1. IsFiniteSet(S) /\ S \subseteq OrderId BY IdsFinite
  <2>2. f \in [S -> Nat] /\ \A id \in S : f[id] = 0 BY <2>1
  <2> HIDE DEF f, S
  <2>3. SumFunction(f) = 0 BY <2>1, <2>2, SumZero
  <2> QED BY <2>3 DEF f, S
<1>5. Totals(tot) BY <1>3, <1>4 DEF Totals, LastWord
<1>6. Accounts(tot)
  <2>1. orders = {} BY DEF Init
  <2> QED BY <2>1 DEF Accounts
<1> QED BY <1>1, <1>2, <1>5, <1>6 DEF LedgerInv

\* As long as the engine lives and no update is lost, a ledger of entries expects
\* what the account holds whenever nothing is in flight: for any universe, any
\* sizes, any partial fills, and whatever is declined, refused or unanswered.
THEOREM LedgerKeepsUp ==
  ASSUME EntriesTold
  PROVE  Spec => []LedgerExpectsAccount
<1>1. TypeInv /\ LockInv /\ LedgerInv /\ [Next]_vars => (TypeInv /\ LockInv /\ LedgerInv)'
  BY TypesKept, LockKept, LedgerKept
<1>2. TypeInv /\ LedgerInv => LedgerExpectsAccount
  <2> SUFFICES ASSUME TypeInv, LedgerInv, AtRest, NEW s \in Symbols PROVE ExpectedOf(s) = position[s]
    BY DEF LedgerExpectsAccount
  <2>1. PICK tot \in [OrderId -> Int] : Totals(tot) BY DEF LedgerInv
  <2>2. \A id \in OrderId : ledger.live[id] = tot[id]
    <3>1. \A id \in OrderId : Pending(id) = {} BY DEF AtRest, Pending
    <3> QED BY <2>1, <3>1 DEF Totals, LastWord
  <2>3. IdsOf(s) \subseteq OrderId BY IdsFinite
  <2>4. [id \in IdsOf(s) |-> ledger.live[id]] = [id \in IdsOf(s) |-> tot[id]] BY <2>2, <2>3
  <2>5. position[s] = SumFunction([id \in IdsOf(s) |-> tot[id]]) /\ position[s] \in Int
    BY <2>1 DEF Totals, TypeInv, TypeOK, VenueOK
  <2>6. ledger.base[s] = 0 BY DEF LedgerInv, Unbased
  <2>7. ExpectedOf(s) = ledger.base[s] + SumFunction([id \in IdsOf(s) |-> ledger.live[id]])
    BY DEF ExpectedOf, Expected
  <2> HIDE DEF Totals
  <2> QED BY <2>4, <2>5, <2>6, <2>7
<1>3. Init => TypeInv /\ LockInv /\ LedgerInv BY InitTyped, InitLocked, InitAccounted
<1> QED BY <1>1, <1>2, <1>3, PTL DEF Spec

-----------------------------------------------------------------------------
(* A flatten beside the engine: types.                                       *)

\* Whatever is held or worked was ordered, so a flatten has an id to close it by.
Counted == \A s \in Symbols : position[s] # 0 \/ OrdersOf(s) # {} => count[s] >= 1

FlattenInv ==
  /\ step \in Steps /\ outcome \in FlattenReport /\ closing \subseteq Symbols /\ since \in Since
  /\ Counted

\* How a step of the engine, the venue or the operator touches one symbol's
\* position and orders.
LEMMA SymbolSteps ==
  ASSUME TypeInv, [Next]_vars, NEW t \in Symbols
  PROVE  \/ position'[t] = position[t] /\ OrdersOf(t)' = OrdersOf(t)
         \/ \E o \in OrdersOf(t) : \E n \in 1..o.left : Fill(o, n)
         \/ Submit(t) /\ \E answered \in BOOLEAN : PlaceEntry(t, answered)
         \/ CancelResting(t)
         \/ ClosePosition(t) /\ Accept(t, "close", -SignOf(handler[t].signal), Abs(position[t]))
<1> DEFINE Untouched == position'[t] = position[t] /\ OrdersOf(t)' = OrdersOf(t)
           Goal == \/ Untouched
                   \/ \E o \in OrdersOf(t) : \E n \in 1..o.left : Fill(o, n)
                   \/ Submit(t) /\ \E answered \in BOOLEAN : PlaceEntry(t, answered)
                   \/ CancelResting(t)
                   \/ ClosePosition(t) /\ Accept(t, "close", -SignOf(handler[t].signal), Abs(position[t]))
<1>1. ASSUME UNCHANGED <<position, orders>> PROVE Untouched
  BY <1>1 DEF OrdersOf
<1>2. ASSUME NEW o \in orders, NEW n \in 1..o.left, Fill(o, n) PROVE Goal
  <2>1. CASE t = SymbolOf(o.id)
    <3>1. o \in OrdersOf(t) BY <2>1 DEF OrdersOf
    <3> QED BY <1>2, <3>1
  <2>2. CASE t # SymbolOf(o.id)
    <3> DEFINE s == SymbolOf(o.id)
               filled == [id |-> o.id, sign |-> o.sign, left |-> o.left - n, done |-> o.done + n]
               leg    == [id |-> <<o.id[1], o.id[2], "leg">>, sign |-> -o.sign, left |-> o.done + n, done |-> 0]
    <3>1. s \in Symbols BY DEF TypeInv, TypeOK, VenueOK, Order, OrderId, SymbolOf
    <3>2. position'[t] = position[t]
      BY <1>2, <2>2, <3>1 DEF Fill, TypeInv, TypeOK, VenueOK
    <3>3. \E new \in {{filled}, {leg}, {}} : orders' = (orders \ {o}) \cup new
      BY <1>2 DEF Fill
    <3>4. SymbolOf(filled.id) = s /\ SymbolOf(leg.id) = s BY DEF SymbolOf
    <3> HIDE DEF filled, leg
    <3>5. \A p : SymbolOf(p.id) # s => (p \in orders' <=> p \in orders) BY <3>3, <3>4
    <3> QED BY <2>2, <3>2, <3>5, OtherOrders
  <2> QED BY <2>1, <2>2
<1>3. ASSUME NEW s \in Symbols, NEW kind, NEW sign, NEW qty, Accept(s, kind, sign, qty), t # s
      PROVE  OrdersOf(t)' = OrdersOf(t)
  <2> DEFINE new == [id |-> <<s, count[s] + 1, kind>>, sign |-> sign, left |-> qty, done |-> 0]
  <2>1. orders' = orders \cup {new} /\ SymbolOf(new.id) = s BY <1>3 DEF Accept, SymbolOf
  <2> HIDE DEF new
  <2>2. \A p : SymbolOf(p.id) # s => (p \in orders' <=> p \in orders) BY <2>1
  <2> QED BY <1>3, <2>2, OtherOrders
<1>4. ASSUME NEW s \in Symbols, Submit(s) PROVE Goal
  <2>1. position' = position BY <1>4 DEF Submit
  <2>2. CASE UNCHANGED orders BY <1>1, <2>1, <2>2
  <2>3. ASSUME NEW answered \in BOOLEAN, PlaceEntry(s, answered) PROVE Goal
    <3>1. CASE t = s BY <1>4, <2>3, <3>1
    <3>2. CASE t # s BY <1>3, <2>1, <2>3, <3>2 DEF PlaceEntry
    <3> QED BY <3>1, <3>2
  <2> HIDE DEF Goal
  <2> QED BY <1>4, <2>2, <2>3, Zenon DEF Submit
<1>5. ASSUME NEW s \in Symbols, CancelResting(s) PROVE Goal
  <2>1. CASE t = s BY <1>5, <2>1
  <2>2. CASE t # s
    <3>1. position' = position /\ \A p : SymbolOf(p.id) # s => (p \in orders' <=> p \in orders)
      BY <1>5 DEF CancelResting, OrdersOf
    <3> QED BY <2>2, <3>1, OtherOrders
  <2> QED BY <2>1, <2>2
<1>6. ASSUME NEW s \in Symbols, ClosePosition(s) PROVE Goal
  <2>1. position' = position BY <1>6 DEF ClosePosition
  <2>2. CASE UNCHANGED orders BY <1>1, <2>1, <2>2
  <2>3. CASE Accept(s, "close", -SignOf(handler[s].signal), Abs(position[s]))
    <3>1. CASE t = s BY <1>6, <2>3, <3>1
    <3>2. CASE t # s BY <1>3, <2>1, <2>3, <3>2
    <3> QED BY <3>1, <3>2
  <2> QED BY <1>6, <2>2, <2>3 DEF ClosePosition
<1>7. ASSUME NEW s \in Symbols, NEW signal,
             \/ ReadPosition(s) \/ Decline(s) \/ CheckHalt(s) \/ CheckOrdersAndLimits(s)
             \/ QuietBar(s) \/ SignalBar(s, signal) \/ Finish(s) \/ SyncBook(s) \/ NextBar(s)
      PROVE  Untouched
  BY <1>1, <1>7 DEF ReadPosition, Decline, CheckHalt, CheckOrdersAndLimits, QuietBar, SignalBar, Finish, SyncBook,
                    NextBar, venueVars
<1>8. ASSUME LoseReport \/ Operator \/ SweepTimer \/ TakeReport \/ RefreshPosition \/ Start \/ Crash \/ UNCHANGED vars
      PROVE  Untouched
  BY <1>1, <1>8 DEF LoseReport, Operator, SetHalt, ClearHalt, SweepTimer, TakeReport, RefreshPosition, Start, Crash,
                    vars, venueVars
<1>9. ASSUME NEW s \in Symbols, Handle(s) \/ Decline(s) PROVE Goal
  <2> HIDE DEF Goal, Untouched
  <2>1. Untouched => Goal BY DEF Goal
  <2> QED BY <1>4, <1>5, <1>6, <1>7, <1>9, <2>1 DEF Handle
<1> HIDE DEF Goal, Untouched
<1>10. Untouched => Goal BY DEF Goal
<1>11. ASSUME Engine PROVE Goal BY <1>7, <1>8, <1>9, <1>10, <1>11 DEF Engine
<1>12. Goal BY <1>2, <1>8, <1>10, <1>11 DEF Next, Venue
<1> QED BY <1>12 DEF Goal, Untouched

LEMMA CountedKept ==
  ASSUME TypeInv, Counted, [Next]_vars
  PROVE  Counted'
<1> SUFFICES ASSUME NEW t \in Symbols, position'[t] # 0 \/ OrdersOf(t)' # {} PROVE count'[t] >= 1
  BY DEF Counted
<1>1. count[t] \in Nat /\ (position[t] # 0 \/ OrdersOf(t) # {} => count[t] >= 1)
  BY DEF Counted, TypeInv, TypeOK, VenueOK
<1>2. \/ count' = count
      \/ \E s \in Symbols : count' = [count EXCEPT ![s] = @ + 1]
  <2>1. ASSUME NEW s \in Symbols, Handle(s) \/ Decline(s)
        PROVE  count' = count \/ count' = [count EXCEPT ![s] = @ + 1]
    <3>1. CASE Submit(s) BY <3>1 DEF Submit, PlaceEntry, Accept
    <3>2. CASE ClosePosition(s) BY <3>2 DEF ClosePosition, Accept
    <3> QED BY <2>1, <3>1, <3>2 DEF Handle, ReadPosition, Decline, CheckHalt, CheckOrdersAndLimits, CancelResting,
                                    Finish, SyncBook, venueVars
  <2>2. ASSUME NEW s \in Symbols, NEW signal, QuietBar(s) \/ NextBar(s) \/ SignalBar(s, signal) PROVE count' = count
    BY <2>2 DEF QuietBar, NextBar, SignalBar, venueVars
  <2>4. CASE SweepTimer \/ TakeReport \/ RefreshPosition \/ Start \/ Crash
    BY <2>4 DEF SweepTimer, TakeReport, RefreshPosition, Start, Crash, venueVars
  <2>3. CASE Venue \/ Operator \/ UNCHANGED vars
    BY <2>3 DEF Venue, Fill, LoseReport, Operator, SetHalt, ClearHalt, vars, venueVars
  <2> QED BY <2>1, <2>2, <2>3, <2>4 DEF Next, Engine
<1>3. count'[t] >= count[t] /\ count'[t] \in Nat BY <1>1, <1>2 DEF TypeInv, TypeOK, VenueOK
<1>4. CASE position'[t] = position[t] /\ OrdersOf(t)' = OrdersOf(t) BY <1>1, <1>3, <1>4
<1>5. CASE OrdersOf(t) # {} BY <1>1, <1>3, <1>5
<1>6. CASE \E kind, sign, qty : Accept(t, kind, sign, qty)
  BY <1>1, <1>6 DEF Accept, TypeInv, TypeOK, VenueOK
<1>7. CASE CancelResting(t)
  <2>1. position' = position /\ OrdersOf(t)' \subseteq OrdersOf(t)
    BY <1>7 DEF CancelResting, OrdersOf
  <2> QED BY <1>1, <1>3, <2>1
<1> QED BY <1>4, <1>5, <1>6, <1>7, SymbolSteps DEF PlaceEntry

LEMMA SinceTyped ==
  ASSUME NEW upheld \in BOOLEAN, NEW alone \in BOOLEAN, NEW crossed \in SUBSET Symbols
  PROVE  [upheld |-> upheld, alone |-> alone, crossed |-> crossed] \in Since
BY Zenon DEF Since

\* A flatten never acts for the engine.
LEMMA FlattenLeaves ==
  ASSUME FlattenStep
  PROVE  /\ UNCHANGED <<position, accepted, count, reports, engineVars>>
         /\ NoFault \/ Fault("flatten") \/ Fault("refuse")
BY DEF FlattenStep, FlattenHalt, FlattenCancel, FlattenClose, ConfirmPositions, ConfirmOrders, ReadExpectation,
       RecordFlattened, EndFlatten, venueVars, vars, NoFault

\* What a flatten asks the venue for: an order against each position.
LEMMA FlatOrderFits ==
  ASSUME TypeInv, Counted, NEW s \in Symbols, position[s] # 0
  PROVE  /\ FlatOrder(s) \in Order /\ SymbolOf(FlatOrder(s).id) = s /\ FlatOrder(s).id[3] # "entry"
         /\ FlatOrder(s).left > 0 /\ position[s] = -FlatOrder(s).sign * FlatOrder(s).left
<1> DEFINE sign == IF position[s] > 0 THEN -1 ELSE 1
           left == Abs(position[s])
           id   == <<s, count[s], "flat">>
           o    == [id |-> id, sign |-> sign, left |-> left, done |-> 0]
<1>1. position[s] \in Int /\ count[s] \in 1..MaxOrders
  BY TradingAssumption DEF TypeInv, TypeOK, VenueOK, Counted, TradingAssumption
<1>2. left \in Nat /\ left > 0 /\ sign \in {1, -1} /\ position[s] = -sign * left
  <2>1. CASE position[s] > 0
    <3>1. left = position[s] /\ sign = -1 BY <1>1, <2>1 DEF Abs
    <3> QED BY <1>1, <2>1, <3>1
  <2>2. CASE position[s] < 0
    <3>1. left = -position[s] /\ sign = 1 BY <1>1, <2>2 DEF Abs
    <3> QED BY <1>1, <2>2, <3>1
  <2> QED BY <1>1, <2>1, <2>2
<1>3. id \in OrderId /\ SymbolOf(id) = s /\ id[3] # "entry" BY <1>1 DEF OrderId, Kinds, SymbolOf
<1> HIDE DEF sign, left, id
<1>4. FlatOrder(s) = o BY DEF FlatOrder, o, sign, left, id
<1>5. o \in Order /\ o.id = id /\ o.sign = sign /\ o.left = left BY <1>2, <1>3 DEF Order
<1> QED BY <1>2, <1>3, <1>4, <1>5

LEMMA RecordTyped ==
  ASSUME LedgerOK, NEW s \in Symbols, Record(FlattenRecord(s))
  PROVE  LedgerOK'
<1> DEFINE r == FlattenRecord(s)
<1>1. r.event = "flattened" /\ r.symbol = s
  BY DEF FlattenRecord
<1> HIDE DEF r
<1>2. Apply(ledger, r, IdsOf(s)) = Rebase(ledger, s, 0, IdsOf(s))
  BY <1>1 DEF Apply
<1>3. Rebase(ledger, s, 0, IdsOf(s)) \in [base : [Symbols -> Int], live : [OrderId -> Int]]
  BY DEF Rebase, LedgerOK
<1>4. ledger' = ledger \/ ledger' = Rebase(ledger, s, 0, IdsOf(s))
  BY <1>1, <1>2 DEF Record, r
<1> QED BY <1>3, <1>4 DEF LedgerOK

\* The orders a flatten leaves are those there were, or its own.
LEMMA FlattenOrders ==
  ASSUME TypeInv, Counted, FlattenStep
  PROVE  \A o \in orders' : o \in orders \/ \E s \in Symbols : position[s] # 0 /\ o = FlatOrder(s)
<1>1. CASE FlattenClose
  BY <1>1 DEF FlattenClose
<1>2. CASE FlattenCancel
  BY <1>2 DEF FlattenCancel
<1>3. CASE ~(FlattenClose \/ FlattenCancel)
  BY <1>3 DEF FlattenStep, FlattenHalt, ConfirmPositions, ConfirmOrders, ReadExpectation, RecordFlattened, EndFlatten,
              venueVars, vars
<1> QED BY <1>1, <1>2, <1>3

LEMMA FlattenStepTyped == TypeInv /\ Counted /\ FlattenStep => TypeInv' /\ Counted'
<1> SUFFICES ASSUME TypeInv, Counted, FlattenStep PROVE TypeInv' /\ Counted'
  OBVIOUS
<1>1. /\ UNCHANGED <<position, accepted, count, reports, engineVars>>
      /\ NoFault \/ Fault("flatten") \/ Fault("refuse")
  BY FlattenLeaves
<1>2. VenueOK'
  <2>1. orders' \subseteq Order
    <3>1. \A s \in Symbols : position[s] # 0 => FlatOrder(s) \in Order BY FlatOrderFits
    <3> QED BY <3>1, FlattenOrders DEF TypeInv, TypeOK, VenueOK
  <2> QED BY <1>1, <2>1 DEF TypeInv, TypeOK, VenueOK
<1>3. TasksOK' /\ BookOK'
  BY <1>1, Unchanged DEF TypeInv, TypeOK, engineVars
<1>4. FlagsOK'
  <2>1. UNCHANGED <<running, sweepDue>> BY <1>1 DEF engineVars
  <2>2. halted' = halted \/ halted' = TRUE
    BY DEF FlattenStep, FlattenHalt, FlattenCancel, FlattenClose, ConfirmPositions, ConfirmOrders, ReadExpectation,
           RecordFlattened, EndFlatten, vars
  <2> QED BY <2>1, <2>2, Zenon DEF TypeInv, TypeOK, FlagsOK
<1>5. LedgerOK'
  <2>1. UNCHANGED ledger \/ \E s \in Symbols : Record(FlattenRecord(s))
    BY DEF FlattenStep, FlattenHalt, FlattenCancel, FlattenClose, ConfirmPositions, ConfirmOrders, ReadExpectation,
           RecordFlattened, EndFlatten, vars
  <2> QED BY <2>1, RecordTyped, Unchanged DEF TypeInv, TypeOK
<1>6. CountsOK'
  <2>1. slipped' \in {slipped, 0}
    BY DEF FlattenStep, FlattenHalt, FlattenCancel, FlattenClose, ConfirmPositions, ConfirmOrders, ReadExpectation,
           RecordFlattened, EndFlatten, vars
  <2>2. faults' \in 0..MaxFaults
    BY <1>1, TradingAssumption DEF TypeInv, TypeOK, CountsOK, NoFault, Fault, TradingAssumption
  <2> QED BY <2>1, <2>2 DEF TypeInv, TypeOK, CountsOK
<1>7. PhaseOK'
  BY <1>1 DEF TypeInv, PhaseOK, engineVars
<1>8. Counted'
  <2> SUFFICES ASSUME NEW t \in Symbols, position[t] # 0 \/ OrdersOf(t)' # {} PROVE count[t] >= 1
    BY <1>1 DEF Counted
  <2>1. CASE position[t] # 0 \/ OrdersOf(t) # {} BY <2>1 DEF Counted
  <2>2. CASE position[t] = 0
    <3>1. PICK o \in orders' : SymbolOf(o.id) = t BY <2>2 DEF OrdersOf
    <3>2. ~(\E s \in Symbols : position[s] # 0 /\ o = FlatOrder(s)) BY <2>2, <3>1, FlatOrderFits
    <3>3. o \in orders BY <3>2, FlattenOrders
    <3> QED BY <2>1, <3>1, <3>3 DEF OrdersOf
  <2> QED BY <2>1, <2>2
<1> QED BY <1>2, <1>3, <1>4, <1>5, <1>6, <1>7, <1>8 DEF TypeInv, TypeOK

\* The report and what is left to be told stay what they are made of.
LEMMA FlattenVarsTyped ==
  ASSUME FlattenInv, TypeInv, FlattenStep
  PROVE  step' \in Steps /\ outcome' \in FlattenReport /\ closing' \subseteq Symbols /\ since' \in Since
<1>1. outcome \in FlattenReport /\ since \in Since /\ step \in Steps /\ closing \subseteq Symbols
  BY DEF FlattenInv
<1>2. step' \in Steps /\ closing' \subseteq Symbols
  BY <1>1 DEF FlattenStep, FlattenHalt, FlattenCancel, FlattenClose, ConfirmPositions, ConfirmOrders, ReadExpectation,
              RecordFlattened, EndFlatten, Do, Steps
<1>3. outcome' \in FlattenReport
  <2>1. CASE FlattenHalt
    <3>1. [outcome EXCEPT !.halted = TRUE] \in FlattenReport BY <1>1 DEF FlattenReport
    <3> QED BY <1>1, <2>1, <3>1 DEF FlattenHalt
  <2>2. CASE FlattenClose
    <3>1. [outcome EXCEPT !.submitted = TRUE] \in FlattenReport BY <1>1 DEF FlattenReport
    <3> QED BY <1>1, <2>2, <3>1 DEF FlattenClose
  <2>3. CASE ConfirmPositions
    <3>1. Observed \in {"unknown", "pending", "no", "closed"} BY DEF Observed
    <3>2. [outcome EXCEPT !.observed = Observed] \in FlattenReport BY <1>1, <3>1 DEF FlattenReport
    <3> QED BY <1>1, <2>3, <3>2 DEF ConfirmPositions
  <2>4. CASE ConfirmOrders
    <3>1. \A answer \in {"unknown", "none", "some"} : [outcome EXCEPT !.resting = answer] \in FlattenReport
      BY <1>1 DEF FlattenReport
    <3> QED BY <2>4, <3>1 DEF ConfirmOrders
  <2>5. CASE EndFlatten
    <3>1. \A told \in BOOLEAN : [outcome EXCEPT !.told = told] \in FlattenReport
      BY <1>1 DEF FlattenReport
    <3>2. \E told \in BOOLEAN : outcome' = [outcome EXCEPT !.told = told]
      BY <2>5, Zenon DEF EndFlatten
    <3> QED BY <3>1, <3>2
  <2>6. CASE FlattenCancel \/ ReadExpectation \/ \E s \in Symbols : RecordFlattened(s)
    BY <1>1, <2>6 DEF FlattenCancel, ReadExpectation, RecordFlattened
  <2> QED BY <2>1, <2>2, <2>3, <2>4, <2>5, <2>6 DEF FlattenStep
<1>4. since' \in Since
  <2>1. CASE FlattenHalt
    <3>1. outcome'.halted \in BOOLEAN BY <1>3 DEF FlattenReport
    <3>2. (~running) \in BOOLEAN BY Zenon
    <3>3. Exiting \in SUBSET Symbols BY DEF Exiting
    <3>4. since' = [upheld |-> outcome'.halted, alone |-> ~running, crossed |-> Exiting] BY <2>1, Zenon DEF FlattenHalt
    <3> QED BY <3>1, <3>2, <3>3, <3>4, SinceTyped
  <2>2. CASE ~FlattenHalt
    BY <1>1, <2>2 DEF FlattenStep, FlattenCancel, FlattenClose, ConfirmPositions, ConfirmOrders, ReadExpectation,
                      RecordFlattened, EndFlatten
  <2> QED BY <2>1, <2>2
<1> QED BY <1>2, <1>3, <1>4

LEMMA MeanwhileTyped ==
  ASSUME FlattenInv, TypeInv, TypeInv', Meanwhile
  PROVE  step' \in Steps /\ outcome' \in FlattenReport /\ closing' \subseteq Symbols /\ since' \in Since
<1>1. UNCHANGED <<step, outcome, closing>> BY DEF Meanwhile
<1>2. since' \in Since
  <2>1. CASE since' = since BY <2>1 DEF FlattenInv
  <2>2. CASE since' = [upheld |-> since.upheld /\ halted', alone |-> since.alone /\ ~running',
                       crossed |-> since.crossed \cup Exiting']
    <3>1. since.upheld \in BOOLEAN /\ since.alone \in BOOLEAN /\ since.crossed \in SUBSET Symbols
      BY DEF FlattenInv, Since
    <3>2. (since.upheld /\ halted') \in BOOLEAN /\ (since.alone /\ ~running') \in BOOLEAN BY Zenon
    <3>3. Exiting' \subseteq Symbols BY DEF Exiting
    <3>4. since.crossed \cup Exiting' \in SUBSET Symbols BY <3>1, <3>3
    <3> QED BY <2>2, <3>2, <3>4, SinceTyped
  <2> QED BY <2>1, <2>2, Zenon DEF Meanwhile
<1> QED BY <1>1, <1>2 DEF FlattenInv

LEMMA FlattenKept == TypeInv /\ FlattenInv /\ [Meanwhile \/ FlattenStep]_allVars => TypeInv' /\ FlattenInv'
<1> SUFFICES ASSUME TypeInv, FlattenInv, [Meanwhile \/ FlattenStep]_allVars PROVE TypeInv' /\ FlattenInv'
  OBVIOUS
<1>1. Counted BY DEF FlattenInv
<1>2. CASE Meanwhile
  <2>1. TypeInv' /\ Counted' BY <1>1, <1>2, TypesKept, CountedKept DEF Meanwhile
  <2> QED BY <1>2, <2>1, MeanwhileTyped DEF FlattenInv
<1>3. CASE FlattenStep
  BY <1>1, <1>3, FlattenStepTyped, FlattenVarsTyped DEF FlattenInv
<1>4. CASE UNCHANGED allVars
  <2>1. UNCHANGED vars /\ UNCHANGED <<step, outcome, closing, since>> BY <1>4 DEF allVars, flattenVars
  <2>2. TypeInv' /\ Counted' BY <1>1, <2>1, TypesKept, CountedKept
  <2> QED BY <2>1, <2>2 DEF FlattenInv
<1> QED BY <1>2, <1>3, <1>4

LEMMA InitFlattenTyped == FlattenInit => TypeInv /\ FlattenInv
<1> SUFFICES ASSUME FlattenInit PROVE TypeInv /\ FlattenInv
  OBVIOUS
<1>1. Init /\ TypeInv BY InitTyped DEF FlattenInit
<1>2. Counted BY <1>1 DEF Init, Counted, OrdersOf
<1>3. outcome \in FlattenReport BY DEF FlattenInit, FlattenReport
<1>4. since \in Since BY DEF FlattenInit, Since
<1> QED BY <1>1, <1>2, <1>3, <1>4 DEF FlattenInit, FlattenInv, Steps

\* A flatten and the engine beside it keep their types, and every order a flatten
\* places is a legal one: what it closes was ordered under a number it can reuse.
THEOREM FlattenTypeCorrect == FlattenSpec => []FlattenTypeOK
<1>1. TypeInv /\ FlattenInv => FlattenTypeOK
  BY DEF TypeInv, FlattenInv, FlattenTypeOK
<1> QED BY <1>1, InitFlattenTyped, FlattenKept, PTL DEF FlattenSpec

-----------------------------------------------------------------------------
(* The lock and the halt beside a flatten, which halts and never takes part. *)

Beside == TypeInv /\ FlattenInv /\ LockInv /\ HaltInv

LEMMA FlattenHalts ==
  ASSUME FlattenStep
  PROVE  \/ UNCHANGED <<halted, slipped>>
         \/ FlattenHalt /\ halted' = TRUE /\ slipped' = IF halted THEN slipped ELSE 0
BY DEF FlattenStep, FlattenHalt, FlattenCancel, FlattenClose, ConfirmPositions, ConfirmOrders, ReadExpectation,
       RecordFlattened, EndFlatten, vars

LEMMA BesideKept == Beside /\ [Meanwhile \/ FlattenStep]_allVars => Beside'
<1> SUFFICES ASSUME Beside, [Meanwhile \/ FlattenStep]_allVars PROVE Beside'
  OBVIOUS
<1>1. TypeInv' /\ FlattenInv' BY FlattenKept DEF Beside
<1>2. CASE [Next]_vars
  BY <1>1, <1>2, LockKept, HaltKept DEF Beside
<1>3. CASE FlattenStep
  <2>1. UNCHANGED <<handler, queue, running>> BY <1>3, FlattenLeaves DEF engineVars
  <2>2. LockInv' BY <2>1 DEF Beside, LockInv, Holds
  <2>3. HaltInv'
    <3>1. (halted /\ slipped' = slipped) \/ slipped' = 0 \/ UNCHANGED <<halted, slipped>> BY <1>3, FlattenHalts, Zenon
    <3>2. CASE slipped' = 0 BY <3>2 DEF HaltInv
    <3>3. CASE halted /\ slipped' = slipped BY <2>1, <3>3 DEF Beside, HaltInv
    <3>4. CASE UNCHANGED <<halted, slipped>> BY <2>1, <3>4 DEF Beside, HaltInv
    <3> QED BY <3>1, <3>2, <3>3, <3>4
  <2> QED BY <1>1, <2>2, <2>3 DEF Beside
<1> QED BY <1>2, <1>3 DEF Meanwhile, allVars

LEMMA InitBeside == FlattenInit => Beside
<1> SUFFICES ASSUME FlattenInit PROVE Beside
  OBVIOUS
<1>1. Init BY DEF FlattenInit
<1> QED BY <1>1, InitFlattenTyped, InitLocked DEF Beside, HaltInv, Init

\* What bounds the entries past an operator's halt bounds them past a flatten's:
\* one at most reaches the venue while it stands.
THEOREM FlattenHaltBoundsEntries == FlattenSpec => []OneSlipsPastHalt
<1>1. Beside => OneSlipsPastHalt BY DEF Beside, HaltInv, OneSlipsPastHalt
<1> QED BY <1>1, InitBeside, BesideKept, PTL DEF FlattenSpec

-----------------------------------------------------------------------------
(* What a complete flatten leaves.  It is judged symbol by symbol: one the    *)
(* engine has not been exiting at the same time, nor let an entry slip past   *)
(* the halt in, sees no orders but fills of its own and those of the flatten. *)

\* The reads and the ledger are still to come.
Unread ==
  /\ step \in {"halt", "cancel", "close", "positions"} => outcome.observed = "unknown"
  /\ step \in {"halt", "cancel", "close", "positions", "orders"} => outcome.resting = "unknown"
  /\ outcome.told => step = "done"
  /\ outcome.halted => step # "halt"

Gone(s)      == position[s] = 0 /\ OrdersOf(s) = {}
OnlyFlat(s)  == OrdersFit(s) /\ \A o \in OrdersOf(s) : o.id[3] # "entry"
Accounted(s) == OrdersFit(s) /\ (OrdersOf(s) = {} => position[s] = 0)

\* n calls of the flatten failed, and if nothing else did the entries fit.
FailedOnly(n) == faults >= n /\ (faults = n => EntryInv)

\* How far a symbol the engine leaves alone has got.
Leaving(s) ==
  /\ step = "close" => OrdersOf(s) = {} \/ FailedOnly(1)
  /\ step = "positions" => OnlyFlat(s) \/ FailedOnly(2)
  /\ step = "orders" /\ outcome.observed = "closed" => Gone(s) \/ (faults >= 2 /\ Accounted(s))
  /\ step \in {"expect", "record", "done"} /\ Complete => Gone(s)

\* Nothing has gone wrong yet, or the entries need not fit.
Sound == step \in {"halt", "cancel"} => FailedOnly(0)

BesideNobody ==
  step # "halt" /\ outcome.halted /\ since.alone => ~running /\ \A s \in Symbols : Leaving(s)

\* Of the symbols the engine is not exiting, only e may have had an entry.
Slipping(e) == \A s \in Symbols \ since.crossed : (s = e /\ slipped >= 1) \/ Leaving(s)

BesideEngine ==
  step # "halt" /\ outcome.halted /\ since.upheld =>
    halted /\ Exiting \subseteq since.crossed /\ \E e \in Tasks : Slipping(e)

LeavingInv == Unread /\ Sound /\ BesideNobody /\ BesideEngine

LEMMA FaultOrNot ==
  ASSUME [Next]_vars
  PROVE  faults' = faults \/ \E kind : Fault(kind)
<1>1. ASSUME NEW s \in Symbols, Handle(s) \/ Decline(s) PROVE faults' = faults \/ \E kind : Fault(kind)
  <2>1. CASE Submit(s) BY <2>1 DEF Submit, NoFault
  <2>2. CASE ClosePosition(s) \/ CancelResting(s) BY <2>2 DEF ClosePosition, CancelResting, NoFault
  <2>3. CASE ReadPosition(s) \/ Decline(s) \/ CheckHalt(s) \/ CheckOrdersAndLimits(s)
    BY <2>3 DEF ReadPosition, Decline, CheckHalt, CheckOrdersAndLimits, NoFault
  <2>4. CASE Finish(s) \/ SyncBook(s) BY <2>4 DEF Finish, SyncBook, NoFault
  <2> QED BY <1>1, <2>1, <2>2, <2>3, <2>4 DEF Handle
<1>2. ASSUME NEW s \in Symbols, NEW signal, QuietBar(s) \/ NextBar(s) \/ SignalBar(s, signal) PROVE faults' = faults
  BY <1>2 DEF QuietBar, NextBar, SignalBar
<1>3. CASE SweepTimer \/ TakeReport \/ RefreshPosition \/ Start \/ Crash
  BY <1>3 DEF SweepTimer, TakeReport, RefreshPosition, Start, Crash, NoFault
<1>4. CASE Venue \/ Operator \/ UNCHANGED vars
  BY <1>4 DEF Venue, Fill, LoseReport, Operator, SetHalt, ClearHalt, vars
<1> QED BY <1>1, <1>2, <1>3, <1>4 DEF Next, Engine

\* An entry that fitted still does unless a fault stood for an answer.
LEMMA FailedOnlyKept ==
  ASSUME TypeInv, [Next]_vars, NEW n \in Nat, FailedOnly(n)
  PROVE  FailedOnly(n)' /\ faults' >= faults
<1>1. faults \in Nat BY DEF TypeInv, TypeOK, CountsOK
<1>2. faults' = faults \/ \E kind : Fault(kind)
  BY FaultOrNot
<1>3. CASE faults' = faults
  <2>1. Answered BY <1>1, <1>3 DEF Answered, Fault
  <2>2. EntryInv => EntryInv' BY <2>1, EntriesKept
  <2> QED BY <1>1, <1>3, <2>2 DEF FailedOnly
<1>4. CASE \E kind : Fault(kind)
  <2>1. faults' = faults + 1 BY <1>4 DEF Fault
  <2> QED BY <1>1, <2>1 DEF FailedOnly
<1> QED BY <1>2, <1>3, <1>4

\* A symbol that nobody enters or exits goes on leaving.
LEMMA LeavingKept ==
  ASSUME TypeInv, [Next]_vars, NEW s \in Symbols, Leaving(s), UNCHANGED <<step, outcome>>,
         \/ position'[s] = position[s] /\ OrdersOf(s)' = OrdersOf(s)
         \/ \E o \in OrdersOf(s) : \E n \in 1..o.left : Fill(o, n)
  PROVE  Leaving(s)'
<1>1. faults \in Nat /\ faults' \in Nat /\ faults' >= faults
  BY TypesKept, FaultOrNot DEF TypeInv, TypeOK, CountsOK, Fault
<1>2. FailedOnly(1) => FailedOnly(1)' BY FailedOnlyKept
<1>3. FailedOnly(2) => FailedOnly(2)' BY FailedOnlyKept
<1>4. CASE position'[s] = position[s] /\ OrdersOf(s)' = OrdersOf(s)
  <2>1. OnlyFlat(s) => OnlyFlat(s)' BY <1>4 DEF OnlyFlat, OrdersFit, OrderFits
  <2>2. Gone(s) => Gone(s)' BY <1>4 DEF Gone
  <2>3. Accounted(s) => Accounted(s)' BY <1>4 DEF Accounted, OrdersFit, OrderFits
  <2>4. OrdersOf(s) = {} => OrdersOf(s)' = {} BY <1>4
  <2> QED BY <1>1, <1>2, <1>3, <2>1, <2>2, <2>3, <2>4 DEF Leaving, Complete
<1>5. ASSUME NEW o \in OrdersOf(s), NEW n \in 1..o.left, Fill(o, n) PROVE Leaving(s)'
  <2>1. o \in orders /\ SymbolOf(o.id) = s /\ OrdersOf(s) # {} BY DEF OrdersOf
  <2>2. OrdersFit(s) => /\ OrdersFit(s)'
                        /\ OrdersOf(s)' = {} <=> position'[s] = 0
                        /\ o.id[3] # "entry" => \A p \in OrdersOf(s)' : p.id[3] # "entry"
    BY <1>5, <2>1, FillOrders
  <2>3. OnlyFlat(s) => OnlyFlat(s)' BY <2>2 DEF OnlyFlat
  <2>4. ~Gone(s) /\ ~(OrdersOf(s) = {}) BY <2>1 DEF Gone
  <2>5. Accounted(s) => Accounted(s)' BY <2>2 DEF Accounted
  <2> QED BY <1>1, <1>2, <1>3, <2>3, <2>4, <2>5 DEF Leaving, Complete
<1> QED BY <1>4, <1>5

\* No entry reaches the venue, and the halt stands: as many have slipped as had.
LEMMA SlippedKept ==
  ASSUME [Next]_vars, halted, halted',
         ~(\E s \in Symbols : Submit(s) /\ \E answered \in BOOLEAN : PlaceEntry(s, answered))
  PROVE  slipped' = slipped
<1>1. ASSUME NEW s \in Symbols, Handle(s) \/ Decline(s) PROVE slipped' = slipped
  <2>1. CASE Submit(s) BY <2>1, Zenon DEF Submit
  <2>2. CASE ClosePosition(s) \/ CancelResting(s) BY <2>2 DEF ClosePosition, CancelResting
  <2>3. CASE ReadPosition(s) \/ Decline(s) \/ CheckHalt(s) \/ CheckOrdersAndLimits(s)
    BY <2>3 DEF ReadPosition, Decline, CheckHalt, CheckOrdersAndLimits
  <2>4. CASE Finish(s) \/ SyncBook(s) BY <2>4 DEF Finish, SyncBook
  <2> QED BY <1>1, <2>1, <2>2, <2>3, <2>4 DEF Handle
<1>2. ASSUME NEW s \in Symbols, NEW signal, QuietBar(s) \/ NextBar(s) \/ SignalBar(s, signal) PROVE slipped' = slipped
  BY <1>2 DEF QuietBar, NextBar, SignalBar
<1>3. CASE SweepTimer \/ TakeReport \/ RefreshPosition \/ Start \/ Crash
  BY <1>3 DEF SweepTimer, TakeReport, RefreshPosition, Start, Crash
<1>4. CASE Venue \/ Operator \/ UNCHANGED vars
  BY <1>4 DEF Venue, Fill, LoseReport, Operator, SetHalt, ClearHalt, vars
<1> QED BY <1>1, <1>2, <1>3, <1>4 DEF Next, Engine

\* With no engine nobody enters or exits, and the ledger is nobody's to write.
LEMMA NobodyThere ==
  ASSUME TypeInv, LockInv, ~running, ~running', [Next]_vars
  PROVE  /\ ledger' = ledger
         /\ \A s \in Symbols : ~Submit(s) /\ ~CancelResting(s) /\ ~ClosePosition(s)
<1>1. \A s \in Symbols : handler[s].phase = "idle" BY DEF LockInv, Idle
<1>2. ASSUME NEW s \in Symbols PROVE ~Handle(s) /\ ~Decline(s)
  BY <1>1 DEF Handle, ReadPosition, Decline, CheckHalt, CheckOrdersAndLimits, Submit, CancelResting, ClosePosition,
              Finish, SyncBook
<1>3. ledger' = ledger
  <2>1. ASSUME NEW s \in Symbols, NEW signal, QuietBar(s) \/ NextBar(s) \/ SignalBar(s, signal) PROVE ledger' = ledger
    BY <2>1 DEF QuietBar, NextBar, SignalBar
  <2>2. ~TakeReport /\ ~Start BY Zenon DEF TakeReport, Start
  <2>3. CASE SweepTimer \/ RefreshPosition \/ Crash
    BY <2>3 DEF SweepTimer, RefreshPosition, Crash
  <2>4. CASE Venue \/ Operator \/ UNCHANGED vars
    BY <2>4 DEF Venue, Fill, LoseReport, Operator, SetHalt, ClearHalt, vars
  <2> QED BY <1>2, <2>1, <2>2, <2>3, <2>4 DEF Next, Engine
<1> QED BY <1>2, <1>3 DEF Handle

LEMMA NobodyMeanwhile ==
  ASSUME Beside, Meanwhile, BesideNobody
  PROVE  BesideNobody'
<1> SUFFICES ASSUME step' # "halt", outcome'.halted, since'.alone PROVE ~running' /\ \A s \in Symbols : Leaving(s)'
  BY DEF BesideNobody
<1>1. [Next]_vars /\ UNCHANGED <<step, outcome>> /\ step # "halt" BY DEF Meanwhile
<1>2. since.alone /\ ~running'
  <2>1. since' = [upheld |-> since.upheld /\ halted', alone |-> since.alone /\ ~running',
                  crossed |-> since.crossed \cup Exiting']
    BY <1>1 DEF Meanwhile
  <2> QED BY <2>1, Zenon
<1>3. ~running /\ \A s \in Symbols : Leaving(s) BY <1>1, <1>2 DEF BesideNobody
<1>4. ASSUME NEW s \in Symbols PROVE Leaving(s)'
  BY <1>1, <1>2, <1>3, NobodyThere, SymbolSteps, LeavingKept DEF Beside
<1> QED BY <1>2, <1>4

LEMMA EngineMeanwhile ==
  ASSUME Beside, Meanwhile, BesideEngine
  PROVE  BesideEngine'
<1> SUFFICES ASSUME step' # "halt", outcome'.halted, since'.upheld
             PROVE  halted' /\ Exiting' \subseteq since'.crossed /\ \E e \in Tasks : Slipping(e)'
  BY DEF BesideEngine
<1>1. [Next]_vars /\ UNCHANGED <<step, outcome>> /\ step # "halt" BY DEF Meanwhile
<1>2. since.upheld /\ halted' /\ since'.crossed = since.crossed \cup Exiting'
  <2>1. since' = [upheld |-> since.upheld /\ halted', alone |-> since.alone /\ ~running',
                  crossed |-> since.crossed \cup Exiting']
    BY <1>1 DEF Meanwhile
  <2> QED BY <2>1, Zenon
<1>3. halted /\ Exiting \subseteq since.crossed BY <1>1, <1>2 DEF BesideEngine
<1>4. PICK e \in Tasks : Slipping(e) BY <1>1, <1>2 DEF BesideEngine
\* A symbol the engine is not exiting, and enters only if said.
<1>5. ASSUME NEW s \in Symbols \ since'.crossed, Leaving(s),
             ~(Submit(s) /\ \E answered \in BOOLEAN : PlaceEntry(s, answered))
      PROVE  Leaving(s)'
  <2>1. handler[s].phase \notin {"cancel", "close"} BY <1>2, <1>3 DEF Exiting
  <2>2. ~CancelResting(s) /\ ~ClosePosition(s) BY <2>1 DEF CancelResting, ClosePosition
  <2> QED BY <1>1, <1>5, <2>2, SymbolSteps, LeavingKept DEF Beside
<1>6. CASE \E s \in Symbols : Submit(s) /\ \E answered \in BOOLEAN : PlaceEntry(s, answered)
  <2>1. PICK x \in Symbols, answered \in BOOLEAN : Submit(x) /\ PlaceEntry(x, answered) BY <1>6
  <2>2. slipped = 0
    <3>1. handler[x].phase = "submit" BY <2>1 DEF Submit
    <3> QED BY <1>3, <3>1 DEF Beside, HaltInv, Past
  <2>3. slipped' = 1 BY <1>3, <2>1, <2>2 DEF PlaceEntry
  <2>4. \A s \in Symbols \ since.crossed : Leaving(s) BY <1>4, <2>2 DEF Slipping
  <2>5. ASSUME NEW s \in Symbols, s # x PROVE ~(Submit(s) /\ \E a \in BOOLEAN : PlaceEntry(s, a))
    <3>1. Holds(x) BY <2>1 DEF Submit
    <3>2. Submit(s) => Holds(s) BY DEF Submit
    <3> QED BY <2>5, <3>1, <3>2 DEF Holds
  <2>6. Slipping(x)' BY <1>2, <1>5, <2>3, <2>4, <2>5 DEF Slipping
  <2> QED BY <1>2, <2>6 DEF Tasks
<1>7. CASE ~(\E s \in Symbols : Submit(s) /\ \E answered \in BOOLEAN : PlaceEntry(s, answered))
  <2>1. slipped' = slipped BY <1>1, <1>2, <1>3, <1>7, SlippedKept
  <2>2. Slipping(e)' BY <1>2, <1>4, <1>5, <1>7, <2>1 DEF Slipping
  <2> QED BY <1>2, <2>2
<1> QED BY <1>6, <1>7

LEMMA LeavingMeanwhile ==
  ASSUME Beside, LeavingInv, [Meanwhile]_allVars
  PROVE  LeavingInv'
<1>1. CASE Meanwhile
  <2>1. [Next]_vars /\ UNCHANGED <<step, outcome>> BY <1>1 DEF Meanwhile
  <2>2. Unread' BY <2>1 DEF LeavingInv, Unread
  <2>3. Sound' BY <2>1, FailedOnlyKept DEF LeavingInv, Sound, Beside
  <2> QED BY <1>1, <2>2, <2>3, NobodyMeanwhile, EngineMeanwhile DEF LeavingInv
<1>2. CASE UNCHANGED allVars
  <2>1. /\ UNCHANGED <<position, orders, handler, running, halted, faults, slipped>>
        /\ UNCHANGED <<step, outcome, closing, since>>
    BY <1>2 DEF allVars, flattenVars, vars, venueVars, engineVars
  <2>2. Unread' BY <2>1 DEF LeavingInv, Unread
  <2>3. EntryInv => EntryInv'
    BY <2>1 DEF EntryInv, EntryFits, OrdersFit, OrderFits, OrdersOf, SideOffered, CallbackFits, NothingThere, Closing
  <2>4. \A n : FailedOnly(n) => FailedOnly(n)' BY <2>1, <2>3 DEF FailedOnly
  <2>5. Sound' BY <2>1, <2>4 DEF LeavingInv, Sound
  <2>6. ASSUME NEW s PROVE Leaving(s) => Leaving(s)'
    BY <2>1, <2>4 DEF Leaving, Complete, OnlyFlat, Gone, Accounted, OrdersFit, OrderFits, OrdersOf
  <2>7. BesideNobody' BY <2>1, <2>6 DEF LeavingInv, BesideNobody
  <2>8. BesideEngine'
    <3>1. \A e : Slipping(e) => Slipping(e)' BY <2>1, <2>6 DEF Slipping
    <3>2. Exiting' = Exiting BY <2>1 DEF Exiting
    <3> QED BY <2>1, <3>1, <3>2 DEF LeavingInv, BesideEngine
  <2> QED BY <2>2, <2>5, <2>7, <2>8 DEF LeavingInv
<1> QED BY <1>1, <1>2

LEMMA EntriesAsWere ==
  ASSUME UNCHANGED <<position, orders, engineVars>>
  PROVE  EntryInv => EntryInv'
BY DEF EntryInv, EntryFits, OrdersFit, OrderFits, OrdersOf, SideOffered, CallbackFits, NothingThere, Closing, engineVars

LEMMA CancelLeaves ==
  ASSUME Beside, Sound, FlattenCancel, NEW s \in Symbols
  PROVE  Leaving(s)'
<1>1. step' = "close" BY DEF FlattenCancel, Do
<1>2. CASE NoFault /\ orders' = {} BY <1>1, <1>2 DEF Leaving, OrdersOf
<1>3. CASE Fault("flatten") /\ UNCHANGED orders
  <2>1. FailedOnly(0) BY DEF Sound, FlattenCancel, Do
  <2>2. faults \in Nat /\ faults' = faults + 1 BY <1>3 DEF Fault, Beside, TypeInv, TypeOK, CountsOK
  <2>3. EntryInv => EntryInv' BY <1>3, EntriesAsWere, FlattenLeaves DEF FlattenStep
  <2>4. FailedOnly(1)' BY <2>1, <2>2, <2>3 DEF FailedOnly
  <2> QED BY <1>1, <2>4 DEF Leaving
<1> QED BY <1>2, <1>3 DEF FlattenCancel

LEMMA CloseLeaves ==
  ASSUME Beside, FlattenClose, NEW s \in Symbols, Leaving(s)
  PROVE  Leaving(s)'
<1>1. step = "close" /\ step' = "positions" /\ position' = position BY DEF FlattenClose, Do
<1>2. CASE Fault("flatten") /\ UNCHANGED orders
  <2>1. faults \in Nat /\ faults' = faults + 1 BY <1>2 DEF Fault, Beside, TypeInv, TypeOK, CountsOK
  <2>2. CASE OrdersOf(s) = {}
    <3>1. OrdersOf(s)' = {} BY <1>2, <2>2 DEF OrdersOf
    <3> QED BY <1>1, <3>1 DEF Leaving, OnlyFlat, OrdersFit
  <2>3. CASE FailedOnly(1)
    <3>1. EntryInv => EntryInv' BY <1>2, EntriesAsWere, FlattenLeaves DEF FlattenStep
    <3>2. FailedOnly(2)' BY <2>1, <2>3, <3>1 DEF FailedOnly
    <3> QED BY <1>1, <3>2 DEF Leaving
  <2> QED BY <1>1, <2>2, <2>3 DEF Leaving
<1>3. ASSUME NEW refused, orders' = {FlatOrder(t) : t \in {x \in Symbols \ refused : position[x] # 0}}
      PROVE  Leaving(s)'
  <2>1. ASSUME NEW t \in Symbols, position[t] # 0
        PROVE  SymbolOf(FlatOrder(t).id) = t /\ FlatOrder(t).id[3] # "entry"
               /\ FlatOrder(t).left > 0 /\ position[t] = -FlatOrder(t).sign * FlatOrder(t).left
    BY <2>1, FlatOrderFits DEF Beside, FlattenInv
  <2>2. ASSUME NEW o \in OrdersOf(s)' PROVE o = FlatOrder(s) /\ position[s] # 0
    <3>1. PICK t \in Symbols : o = FlatOrder(t) /\ position[t] # 0 BY <1>3 DEF OrdersOf
    <3>2. t = s BY <2>1, <3>1 DEF OrdersOf
    <3> QED BY <3>1, <3>2
  <2>3. ASSUME NEW o \in OrdersOf(s)' PROVE OrdersOf(s)' = {o} /\ OrderFits(s, o)' /\ o.id[3] # "entry"
    <3>1. o = FlatOrder(s) /\ position[s] # 0 BY <2>2
    <3>2. OrderFits(s, o)' BY <1>1, <2>1, <3>1 DEF OrderFits
    <3> QED BY <2>1, <2>2, <3>1, <3>2
  <2>4. OnlyFlat(s)' BY <2>3 DEF OnlyFlat, OrdersFit
  <2> QED BY <1>1, <2>4 DEF Leaving
<1> QED BY <1>2, <1>3 DEF FlattenClose

LEMMA PositionsLeave ==
  ASSUME MaxFaults <= 2, Beside, Unread, ConfirmPositions, NEW s \in Symbols, Leaving(s)
  PROVE  Leaving(s)'
<1>1. step = "positions" /\ position' = position /\ orders' = orders
      /\ outcome.observed = "unknown" /\ outcome \in FlattenReport
  BY DEF ConfirmPositions, venueVars, Unread, Beside, FlattenInv
<1>2. CASE Fault("flatten") /\ step' = "done" /\ UNCHANGED outcome
  <2>1. ~Complete' BY <1>1, <1>2 DEF Complete
  <2> QED BY <1>2, <2>1 DEF Leaving
<1>3. CASE NoFault /\ outcome' = [outcome EXCEPT !.observed = Observed] /\ step' = "orders"
  <2>1. SUFFICES ASSUME Observed = "closed" PROVE (Gone(s) \/ (faults >= 2 /\ Accounted(s)))'
    BY <1>1, <1>3 DEF Leaving, FlattenReport
  <2>2. position[s] = 0 BY <2>1 DEF Observed
  <2>3. CASE OnlyFlat(s)
    <3>1. OrdersOf(s) = {}
      <4> SUFFICES ASSUME NEW o \in OrdersOf(s) PROVE FALSE OBVIOUS
      <4>1. o.left > 0 /\ position[s] = -o.sign * o.left BY <2>3 DEF OnlyFlat, OrdersFit, OrderFits
      <4>2. o.sign \in {1, -1} /\ o.left \in Nat BY DEF Beside, TypeInv, TypeOK, VenueOK, OrdersOf, Order
      <4> QED BY <2>2, <4>1, <4>2
    <3> QED BY <1>1, <2>2, <3>1 DEF Gone, OrdersOf
  <2>4. CASE FailedOnly(2)
    <3>1. faults \in Nat /\ faults <= MaxFaults BY TradingAssumption DEF Beside, TypeInv, TypeOK, CountsOK, TradingAssumption
    <3>2. faults = 2 BY <2>4, <3>1, TradingAssumption DEF FailedOnly, TradingAssumption
    <3>3. OrdersFit(s) BY <2>4, <3>2 DEF FailedOnly, EntryInv, EntryFits
    <3> QED BY <1>1, <1>3, <2>2, <3>2, <3>3 DEF NoFault, Accounted, OrdersFit, OrderFits, OrdersOf
  <2> QED BY <1>1, <2>3, <2>4 DEF Leaving
<1> QED BY <1>2, <1>3 DEF ConfirmPositions

LEMMA OrdersLeave ==
  ASSUME MaxFaults <= 2, Beside, ConfirmOrders, NEW s \in Symbols, Leaving(s)
  PROVE  Leaving(s)'
<1>1. step = "orders" /\ position' = position /\ orders' = orders /\ outcome \in FlattenReport
      /\ step' \in {"expect", "done"}
  BY DEF ConfirmOrders, Do, venueVars, Beside, FlattenInv
<1>2. SUFFICES ASSUME Complete' PROVE Gone(s)' BY <1>1 DEF Leaving
<1>3. PICK answer \in {"none", "some", "unknown"} :
        /\ outcome' = [outcome EXCEPT !.resting = answer]
        /\ answer = "none" => (NoFault /\ orders = {}) \/ Fault("flatten")
  BY DEF ConfirmOrders
<1>4. outcome.observed = "closed" /\ answer = "none" BY <1>1, <1>2, <1>3 DEF Complete, FlattenReport
<1>5. CASE Gone(s) BY <1>1, <1>5 DEF Gone, OrdersOf
<1>6. CASE faults >= 2 /\ Accounted(s)
  <2>1. ~Fault("flatten")
    BY <1>6, TradingAssumption DEF Fault, Beside, TypeInv, TypeOK, CountsOK, TradingAssumption
  <2>2. OrdersOf(s) = {} BY <1>3, <1>4, <2>1 DEF OrdersOf
  <2> QED BY <1>1, <1>6, <2>2 DEF Accounted, Gone, OrdersOf
<1> QED BY <1>1, <1>4, <1>5, <1>6 DEF Leaving

LEMMA RecordLeaves ==
  ASSUME ReadExpectation \/ EndFlatten \/ (\E t \in Symbols : RecordFlattened(t)), Beside,
         NEW s \in Symbols, Leaving(s)
  PROVE  Leaving(s)'
<1>1. /\ step \in {"expect", "record"} /\ step' \in {"record", "done"}
      /\ position' = position /\ orders' = orders /\ Complete' = Complete
  <2>1. CASE EndFlatten
    <3> DEFINE told == closing = {}
    <3>1. outcome' = [outcome EXCEPT !.told = told] BY <2>1 DEF EndFlatten
    <3> HIDE DEF told
    <3>2. outcome'.halted = outcome.halted /\ outcome'.observed = outcome.observed /\ outcome'.resting = outcome.resting
      BY <3>1 DEF Beside, FlattenInv, FlattenReport
    <3> QED BY <2>1, <3>2 DEF EndFlatten, Do, venueVars, Complete
  <2>2. CASE ReadExpectation \/ \E t \in Symbols : RecordFlattened(t)
    BY <2>2 DEF ReadExpectation, RecordFlattened, Do, vars, venueVars, Complete
  <2> QED BY <2>1, <2>2
<1> QED BY <1>1 DEF Leaving, Gone, OrdersOf

\* Each step takes every symbol it may judge one call further.
LEMMA StepLeaves ==
  ASSUME MaxFaults <= 2, Beside, Unread, Sound, FlattenStep, ~FlattenHalt, NEW s \in Symbols, Leaving(s)
  PROVE  Leaving(s)'
BY CancelLeaves, CloseLeaves, PositionsLeave, OrdersLeave, RecordLeaves DEF FlattenStep

\* The halt a flatten reports is the one it set at its first step.
LEMMA HaltedStands ==
  ASSUME FlattenInv, FlattenStep, ~FlattenHalt
  PROVE  outcome'.halted = outcome.halted
<1>1. outcome \in FlattenReport BY DEF FlattenInv
<1>2. CASE FlattenClose BY <1>1, <1>2 DEF FlattenClose, FlattenReport
<1>3. CASE ConfirmPositions BY <1>1, <1>3 DEF ConfirmPositions, FlattenReport
<1>4. CASE ConfirmOrders BY <1>1, <1>4 DEF ConfirmOrders, FlattenReport
<1>5. CASE EndFlatten
  <2> DEFINE told == closing = {}
  <2>1. outcome' = [outcome EXCEPT !.told = told] BY <1>5 DEF EndFlatten
  <2> HIDE DEF told
  <2> QED BY <1>1, <2>1 DEF FlattenReport
<1>6. CASE FlattenCancel \/ ReadExpectation \/ \E s \in Symbols : RecordFlattened(s)
  BY <1>6 DEF FlattenCancel, ReadExpectation, RecordFlattened
<1> QED BY <1>2, <1>3, <1>4, <1>5, <1>6 DEF FlattenStep


LEMMA ToldStands ==
  ASSUME FlattenInv, FlattenCancel \/ FlattenClose \/ ConfirmPositions \/ ConfirmOrders
  PROVE  outcome'.told = outcome.told
<1>1. outcome \in FlattenReport BY DEF FlattenInv
<1>2. CASE FlattenClose BY <1>1, <1>2 DEF FlattenClose, FlattenReport
<1>3. CASE ConfirmPositions BY <1>1, <1>3 DEF ConfirmPositions, FlattenReport
<1>4. CASE ConfirmOrders BY <1>1, <1>4 DEF ConfirmOrders, FlattenReport
<1>5. CASE FlattenCancel BY <1>5 DEF FlattenCancel
<1> QED BY <1>2, <1>3, <1>4, <1>5

LEMMA UnreadStep ==
  ASSUME FlattenInv, Unread, FlattenStep
  PROVE  Unread'
<1>1. CASE FlattenHalt
  <2>1. /\ step' = "cancel" /\ step = "halt" /\ outcome'.observed = outcome.observed
        /\ outcome'.resting = outcome.resting /\ outcome'.told = outcome.told
    BY <1>1 DEF FlattenHalt, Do, FlattenInv, FlattenReport
  <2> QED BY <2>1, Zenon DEF Unread
<1>2. CASE FlattenCancel \/ ReadExpectation \/ \E s \in Symbols : RecordFlattened(s)
  BY <1>2 DEF FlattenCancel, ReadExpectation, RecordFlattened, Do, Unread
<1>3. CASE FlattenClose
  <2>1. /\ step' = "positions" /\ step = "close" /\ outcome'.observed = outcome.observed
        /\ outcome'.resting = outcome.resting /\ outcome'.told = outcome.told
    BY <1>3 DEF FlattenClose, Do, FlattenInv, FlattenReport
  <2> QED BY <2>1, Zenon DEF Unread
<1>4. CASE ConfirmPositions
  <2>1. /\ step' \in {"orders", "done"} /\ step = "positions"
        /\ outcome'.resting = outcome.resting /\ outcome'.told = outcome.told
    BY <1>4 DEF ConfirmPositions, FlattenInv, FlattenReport
  <2> QED BY <2>1, Zenon DEF Unread
<1>5. CASE ConfirmOrders
  <2>1. PICK answer : outcome' = [outcome EXCEPT !.resting = answer] BY <1>5 DEF ConfirmOrders
  <2>2. step' \in {"expect", "done"} /\ step = "orders" /\ outcome'.told = outcome.told
    BY <1>5, <2>1 DEF ConfirmOrders, Do, FlattenInv, FlattenReport
  <2> QED BY <2>2, Zenon DEF Unread
<1>6. CASE EndFlatten
  BY <1>6 DEF EndFlatten, Do, Unread
<1> QED BY <1>1, <1>2, <1>3, <1>4, <1>5, <1>6 DEF FlattenStep

LEMMA HaltLeaves ==
  ASSUME Beside, Unread, Sound, FlattenHalt
  PROVE  Sound' /\ BesideNobody' /\ BesideEngine'
<1>1. /\ step = "halt" /\ step' = "cancel" /\ ~outcome.halted
      /\ UNCHANGED <<position, orders, engineVars>>
      /\ since' = [upheld |-> outcome'.halted, alone |-> ~running, crossed |-> Exiting]
  BY Zenon DEF FlattenHalt, Do, Unread, venueVars
<1>2. since'.crossed = Exiting' /\ since'.alone = ~running
  <2>1. Exiting' = Exiting BY <1>1 DEF Exiting, engineVars
  <2> QED BY <1>1, <2>1, Zenon
<1>3. Sound'
  <2>1. EntryInv => EntryInv' BY <1>1, EntriesAsWere
  <2>2. faults \in Nat /\ FailedOnly(0) BY <1>1 DEF Beside, TypeInv, TypeOK, CountsOK, Sound
  <2>3. faults' = faults \/ faults' = faults + 1 BY DEF FlattenHalt, NoFault, Fault
  <2>4. FailedOnly(0)' BY <2>1, <2>2, <2>3 DEF FailedOnly
  <2> QED BY <2>4 DEF Sound
<1>4. \A s : Leaving(s)' BY <1>1 DEF Leaving
<1>5. BesideNobody'
  <2>1. since'.alone => ~running'
    <3>1. running' = running BY <1>1 DEF engineVars
    <3> QED BY <1>2, <3>1, Zenon
  <2> QED BY <1>4, <2>1 DEF BesideNobody
<1>6. BesideEngine'
  <2>1. outcome'.halted => halted' BY <1>1, Zenon DEF FlattenHalt
  <2>2. Slipping(Updater)' BY <1>4 DEF Slipping
  <2> QED BY <1>2, <2>1, <2>2 DEF BesideEngine, Tasks
<1> QED BY <1>3, <1>5, <1>6

LEMMA LeavingStep ==
  ASSUME MaxFaults <= 2, Beside, LeavingInv, FlattenStep
  PROVE  LeavingInv'
<1>1. Unread' BY UnreadStep DEF Beside, LeavingInv
<1>2. CASE FlattenHalt BY <1>1, <1>2, HaltLeaves DEF LeavingInv
<1>3. CASE ~FlattenHalt
  <2>1. /\ step # "halt" /\ step' # "halt" /\ step' # "cancel" /\ since' = since
        /\ UNCHANGED <<halted, slipped>>
    BY <1>3 DEF FlattenStep, FlattenCancel, FlattenClose, ConfirmPositions, ConfirmOrders, ReadExpectation,
                RecordFlattened, EndFlatten, Do, vars
  <2>2. outcome'.halted = outcome.halted BY <1>3, HaltedStands DEF Beside
  <2>3. UNCHANGED <<running, handler>> BY FlattenLeaves DEF engineVars
  <2>4. \A s \in Symbols : Leaving(s) => Leaving(s)' BY <1>3, StepLeaves DEF LeavingInv
  <2>5. Sound' BY <2>1 DEF Sound
  <2>6. BesideNobody'
    <3> SUFFICES ASSUME outcome.halted, since.alone PROVE ~running /\ \A s \in Symbols : Leaving(s)'
      BY <2>1, <2>2, <2>3 DEF BesideNobody
    <3> QED BY <2>1, <2>4 DEF LeavingInv, BesideNobody
  <2>7. BesideEngine'
    <3> SUFFICES ASSUME outcome.halted, since.upheld
                 PROVE  halted /\ Exiting' \subseteq since.crossed /\ \E e \in Tasks : Slipping(e)'
      BY <2>1, <2>2 DEF BesideEngine
    <3>1. Exiting' = Exiting BY <2>3 DEF Exiting
    <3>2. \A e : Slipping(e) => Slipping(e)' BY <2>1, <2>4 DEF Slipping
    <3> QED BY <2>1, <3>1, <3>2 DEF LeavingInv, BesideEngine
  <2> QED BY <1>1, <2>5, <2>6, <2>7 DEF LeavingInv
<1> QED BY <1>2, <1>3

LEMMA InitLeaving == FlattenInit => LeavingInv
<1> SUFFICES ASSUME FlattenInit PROVE LeavingInv
  OBVIOUS
<1>1. Init /\ step = "halt" /\ outcome = [halted |-> FALSE, submitted |-> FALSE, observed |-> "unknown",
                                          resting |-> "unknown", told |-> FALSE]
  BY DEF FlattenInit
<1>2. Unread
  <2>1. ~outcome.halted /\ ~outcome.told /\ outcome.observed = "unknown" /\ outcome.resting = "unknown" BY <1>1
  <2> QED BY <2>1 DEF Unread
<1>3. Sound BY <1>1, InitEntries DEF Sound, FailedOnly, Init
<1>4. BesideNobody /\ BesideEngine BY <1>1 DEF BesideNobody, BesideEngine
<1> QED BY <1>2, <1>3, <1>4 DEF LeavingInv

LEMMA LeavingInvKept ==
  ASSUME MaxFaults <= 2
  PROVE  Beside /\ LeavingInv /\ [Meanwhile \/ FlattenStep]_allVars => LeavingInv'
BY LeavingMeanwhile, LeavingStep

\* However the engine, the venue and a `resume` act between its calls, and whichever
\* two calls fail, a flatten that calls itself complete leaves open only what one
\* entry past the halt check put there, and the symbols the engine was exiting.
THEOREM CompleteIsClosed ==
  ASSUME MaxFaults <= 2
  PROVE  FlattenSpec => []CompleteLeavesOnlySlipped
<1>1. Beside /\ LeavingInv => CompleteLeavesOnlySlipped
  <2> SUFFICES ASSUME Beside, LeavingInv, Complete, since.upheld
               PROVE  Cardinality({s \in Symbols \ since.crossed : position[s] # 0 \/ OrdersOf(s) # {}}) <= slipped
    BY DEF CompleteLeavesOnlySlipped
  <2> DEFINE Open == {s \in Symbols \ since.crossed : position[s] # 0 \/ OrdersOf(s) # {}}
  <2>1. step \in {"expect", "record", "done"} /\ outcome.halted
    BY DEF LeavingInv, Unread, Complete, Beside, FlattenInv, Steps
  <2>2. PICK e \in Tasks : Slipping(e) BY <2>1 DEF LeavingInv, BesideEngine
  <2>3. \A s \in Open : s = e /\ slipped >= 1
    BY <2>1, <2>2 DEF Slipping, Leaving, Gone
  <2>4. slipped \in Nat BY DEF Beside, TypeInv, TypeOK, CountsOK
  <2> HIDE DEF Open
  <2>5. CASE Open = {}
    <3>1. Cardinality(Open) = 0 BY <2>5, FS_EmptySet
    <3> QED BY <2>4, <3>1 DEF Open
  <2>6. CASE Open # {}
    <3>1. Open = {e} /\ slipped >= 1 BY <2>3, <2>6
    <3>2. Cardinality({e}) = 1 BY FS_Singleton
    <3> QED BY <2>4, <3>1, <3>2 DEF Open
  <2> QED BY <2>5, <2>6
<1> QED BY <1>1, InitBeside, BesideKept, InitLeaving, LeavingInvKept, PTL DEF FlattenSpec

-----------------------------------------------------------------------------
(* What a flatten tells the ledger: record by record, the expectation of every *)
(* symbol it names, while no engine is there to write between them.            *)

AloneStays == step # "halt" /\ since.alone => ~running

LedgerTold ==
  /\ WithLedger /\ since.alone /\ step = "record" => \A s \in Symbols \ closing : ExpectedOf(s) = 0
  /\ WithLedger /\ since.alone /\ outcome.told    => \A s \in Symbols : ExpectedOf(s) = 0

ToldInv == AloneStays /\ LedgerTold

\* A flatten record zeroes its symbol and no other.
LEMMA RecordZeroes ==
  ASSUME LedgerOK, WithLedger, NEW s \in Symbols, Record(FlattenRecord(s))
  PROVE  /\ ExpectedOf(s)' = 0
         /\ \A t \in Symbols \ {s} : ExpectedOf(t)' = ExpectedOf(t)
<1> DEFINE r == FlattenRecord(s)
<1>1. r.event = "flattened" /\ r.symbol = s
  BY DEF FlattenRecord
<1> HIDE DEF r
<1>2. ledger' = Rebase(ledger, s, 0, IdsOf(s))
  BY <1>1 DEF Record, Apply, r
<1>3. /\ ledger.base \in [Symbols -> Int] /\ ledger.live \in [OrderId -> Int]
      /\ ledger'.base = [ledger.base EXCEPT ![s] = 0]
      /\ ledger'.live = [o \in OrderId |-> IF o \in IdsOf(s) THEN 0 ELSE ledger.live[o]]
  BY <1>2 DEF LedgerOK, Rebase
<1>4. \A t \in Symbols : ExpectedOf(t) = ledger.base[t] + SumFunction([id \in IdsOf(t) |-> ledger.live[id]])
  BY DEF ExpectedOf, Expected
<1>5. \A t \in Symbols : ExpectedOf(t)' = ledger'.base[t] + SumFunction([id \in IdsOf(t) |-> ledger'.live[id]])
  BY DEF ExpectedOf, Expected
<1>6. ExpectedOf(s)' = 0
  <2> DEFINE S == IdsOf(s)
             f == [id \in S |-> ledger'.live[id]]
  <2>1. IsFiniteSet(S) /\ S \subseteq OrderId BY IdsFinite
  <2>2. f \in [S -> Nat] /\ \A id \in S : f[id] = 0 BY <1>3, <2>1
  <2>3. ExpectedOf(s)' = ledger'.base[s] + SumFunction(f) BY <1>5
  <2> HIDE DEF S, f
  <2>4. SumFunction(f) = 0 BY <2>1, <2>2, SumZero
  <2>5. ledger'.base[s] = 0 BY <1>3
  <2> QED BY <2>3, <2>4, <2>5
<1>7. ASSUME NEW t \in Symbols \ {s} PROVE ExpectedOf(t)' = ExpectedOf(t)
  <2> DEFINE before == [id \in IdsOf(t) |-> ledger.live[id]]
             after  == [id \in IdsOf(t) |-> ledger'.live[id]]
  <2>1. ASSUME NEW id \in IdsOf(t) PROVE ledger'.live[id] = ledger.live[id]
    <3>1. id \in OrderId /\ id \notin IdsOf(s) BY DEF IdsOf
    <3> QED BY <1>3, <3>1
  <2>2. after = before BY <2>1
  <2>3. ExpectedOf(t) = ledger.base[t] + SumFunction(before) /\ ExpectedOf(t)' = ledger'.base[t] + SumFunction(after)
    BY <1>4, <1>5
  <2> HIDE DEF before, after
  <2>4. ledger'.base[t] = ledger.base[t] BY <1>3
  <2> QED BY <2>2, <2>3, <2>4
<1> QED BY <1>6, <1>7

LEMMA ExpectationStays ==
  ASSUME UNCHANGED ledger, NEW s
  PROVE  ExpectedOf(s)' = ExpectedOf(s)
BY DEF ExpectedOf

LEMMA ToldMeanwhile ==
  ASSUME Beside, Unread, ToldInv, [Meanwhile]_allVars
  PROVE  ToldInv'
<1>1. CASE Meanwhile
  <2>1. [Next]_vars /\ UNCHANGED <<step, outcome, closing>> BY <1>1 DEF Meanwhile
  <2>2. CASE step = "halt"
    BY <2>1, <2>2, Zenon DEF ToldInv, AloneStays, LedgerTold, Unread
  <2>3. CASE step # "halt"
    <3>1. since'.alone => since.alone /\ ~running'
      <4>1. since' = [upheld |-> since.upheld /\ halted', alone |-> since.alone /\ ~running',
                      crossed |-> since.crossed \cup Exiting']
        BY <1>1, <2>3 DEF Meanwhile
      <4> QED BY <4>1, Zenon
    <3>2. AloneStays' BY <3>1 DEF AloneStays
    <3>3. ASSUME since'.alone PROVE ledger' = ledger
      <4>1. ~running /\ ~running' BY <2>3, <3>1, <3>3 DEF ToldInv, AloneStays
      <4> QED BY <2>1, <4>1, NobodyThere DEF Beside
    <3>4. LedgerTold' BY <2>1, <3>1, <3>3, ExpectationStays DEF ToldInv, LedgerTold
    <3> QED BY <3>2, <3>4 DEF ToldInv
  <2> QED BY <2>2, <2>3
<1>2. CASE UNCHANGED allVars
  <2>1. UNCHANGED <<running, ledger, step, outcome, closing, since>>
    BY <1>2 DEF allVars, flattenVars, vars, engineVars
  <2> QED BY <2>1, ExpectationStays DEF ToldInv, AloneStays, LedgerTold
<1> QED BY <1>1, <1>2

LEMMA ToldStep ==
  ASSUME Beside, Unread, ToldInv, FlattenStep
  PROVE  ToldInv'
<1>1. running' = running BY FlattenLeaves DEF engineVars
<1>2. Unread' BY UnreadStep DEF Beside
<1>3. CASE FlattenHalt
  <2>1. step' = "cancel" /\ since'.alone = ~running BY <1>3, Zenon DEF FlattenHalt, Do
  <2>2. AloneStays' BY <1>1, <2>1, Zenon DEF AloneStays
  <2>3. LedgerTold' BY <1>2, <2>1 DEF LedgerTold, Unread
  <2> QED BY <2>2, <2>3 DEF ToldInv
<1>4. ASSUME since' = since, step # "halt" PROVE AloneStays'
  BY <1>1, <1>4 DEF ToldInv, AloneStays
<1>5. CASE FlattenCancel \/ FlattenClose \/ ConfirmPositions \/ ConfirmOrders
  <2>1. step # "halt" /\ step' \notin {"record"} /\ since' = since
    BY <1>5 DEF FlattenCancel, FlattenClose, ConfirmPositions, ConfirmOrders, Do
  <2>2. ~outcome'.told
    <3>1. ~outcome.told BY <1>5 DEF Unread, FlattenCancel, FlattenClose, ConfirmPositions, ConfirmOrders, Do
    <3>2. outcome'.told = outcome.told BY <1>5, ToldStands DEF Beside
    <3> QED BY <3>1, <3>2
  <2>3. LedgerTold' BY <2>1, <2>2 DEF LedgerTold
  <2> QED BY <1>4, <2>1, <2>3 DEF ToldInv
<1>6. CASE ReadExpectation
  <2>1. /\ step # "halt" /\ step' = "record" /\ UNCHANGED <<ledger, since>>
        /\ closing' = {s \in Symbols : ExpectedOf(s) # 0}
    BY <1>6 DEF ReadExpectation, Do, vars
  <2>2. LedgerTold' BY <1>2, <2>1, ExpectationStays DEF LedgerTold, Unread
  <2> QED BY <1>4, <2>1, <2>2 DEF ToldInv
<1>7. ASSUME NEW s \in Symbols, RecordFlattened(s) PROVE ToldInv'
  <2>1. /\ step = "record" /\ step' = "record" /\ since' = since /\ closing' = closing \ {s}
        /\ Record(FlattenRecord(s))
    BY <1>7 DEF RecordFlattened
  <2>2. LedgerOK BY DEF Beside, TypeInv, TypeOK
  <2>3. ASSUME WithLedger, since.alone, NEW t \in Symbols \ closing' PROVE ExpectedOf(t)' = 0
    <3>1. CASE t = s BY <2>1, <2>2, <2>3, <3>1, RecordZeroes
    <3>2. CASE t # s
      <4>1. ExpectedOf(t) = 0 BY <2>1, <2>3, <3>2 DEF ToldInv, LedgerTold
      <4> QED BY <2>1, <2>2, <2>3, <3>2, <4>1, RecordZeroes
    <3> QED BY <3>1, <3>2
  <2>4. LedgerTold' BY <1>2, <2>1, <2>3 DEF LedgerTold, Unread
  <2> QED BY <1>4, <2>1, <2>4 DEF ToldInv
<1>8. CASE EndFlatten
  <2>1. /\ step = "record" /\ step' = "done" /\ UNCHANGED <<ledger, since, closing>>
        /\ outcome' = [outcome EXCEPT !.told = (closing = {})]
    BY <1>8 DEF EndFlatten, Do
  <2>2. outcome'.told => closing = {}
    <3> DEFINE told == closing = {}
    <3>1. outcome' = [outcome EXCEPT !.told = told] /\ outcome \in FlattenReport BY <2>1 DEF Beside, FlattenInv
    <3> HIDE DEF told
    <3>2. outcome'.told = told BY <3>1 DEF FlattenReport
    <3> QED BY <3>2 DEF told
  <2>3. LedgerTold' BY <2>1, <2>2, ExpectationStays DEF ToldInv, LedgerTold
  <2> QED BY <1>4, <2>1, <2>3 DEF ToldInv
<1> QED BY <1>3, <1>5, <1>6, <1>7, <1>8 DEF FlattenStep

LEMMA ToldKept == Beside /\ Unread /\ ToldInv /\ [Meanwhile \/ FlattenStep]_allVars => ToldInv'
BY ToldMeanwhile, ToldStep

LEMMA InitTold == FlattenInit => ToldInv
<1> SUFFICES ASSUME FlattenInit PROVE ToldInv
  OBVIOUS
<1>1. step = "halt" /\ ~since.alone BY DEF FlattenInit
<1> QED BY <1>1 DEF ToldInv, AloneStays, LedgerTold

\* After a complete flatten that no engine ran beside and that the ledger was told
\* of, the ledger expects exactly what the account holds, whichever two calls failed.
THEOREM FlattenSettles ==
  ASSUME MaxFaults <= 2
  PROVE  FlattenSpec => []FlattenSettlesLedger
<1>1. Beside /\ LeavingInv /\ ToldInv => FlattenSettlesLedger
  <2> SUFFICES ASSUME LeavingInv, ToldInv, WithLedger, step = "done", Complete, outcome.told, since.alone,
                      NEW s \in Symbols
               PROVE  ExpectedOf(s) = position[s]
    BY DEF FlattenSettlesLedger
  <2>1. Gone(s) BY DEF LeavingInv, BesideNobody, Complete, Leaving
  <2>2. ExpectedOf(s) = 0 BY DEF ToldInv, LedgerTold
  <2> QED BY <2>1, <2>2 DEF Gone
<1>2. LeavingInv => Unread BY DEF LeavingInv
<1> QED BY <1>1, <1>2, InitBeside, BesideKept, InitLeaving, LeavingInvKept, InitTold, ToldKept, PTL DEF FlattenSpec
=============================================================================
