------------------------- MODULE StrategyClock_proofs -------------------------
(***************************************************************************)
(* What holds of one symbol of one strategy for any scores, books,         *)
(* lookback and buffer: the types, and that a book whose direction depends *)
(* on the last score alone wants live what it wants in research.           *)
(***************************************************************************)
EXTENDS StrategyClock, DataInduction

-----------------------------------------------------------------------------
(* The walk *)

\* What the walk says at a bar: its edge and the direction after it.
Point == [signal : AllSignals, state : Directions]

\* A step of the walk leads from a direction to a direction.
LEMMA StepTyped ==
  ASSUME NEW score, NEW th, NEW longOnly, NEW state \in Directions
  PROVE  StepOf(score, th, longOnly)[state] \in Point
<1>1. DesiredDirection(score, state, th, longOnly) \in Directions
  BY DEF DesiredDirection, Directions
<1>2. \A d \in Directions : Transition(state, d) \in Point
  BY DEF Transition, Point, Directions, AllSignals, EntrySignals, ExitSignals, SideOf, CloseOf
<1> QED BY <1>1, <1>2 DEF StepOf

\* A function that satisfies the walk's equation.
IsWalk(walk, scores, lookback, th, longOnly) ==
  /\ walk \in [0..Len(scores) -> Point]
  /\ walk[0] = [signal |-> "HOLD", state |-> 0]
  /\ \A i \in 1..Len(scores) :
       walk[i] = IF i < lookback THEN [signal |-> "HOLD", state |-> walk[i - 1].state]
                 ELSE StepOf(scores[i], th, longOnly)[walk[i - 1].state]

\* The recursive walk is the function its equation describes: one exists, by
\* Recursion, so the one the definition chooses satisfies the equation.
LEMMA WalkDefined ==
  ASSUME NEW scores, Len(scores) \in Nat, NEW lookback, NEW th, NEW longOnly
  PROVE  IsWalk(WalkScores(scores, lookback, th, longOnly), scores, lookback, th, longOnly)
<1> DEFINE n == Len(scores)
           start == [signal |-> "HOLD", state |-> 0]
           next(i, from) == IF i < lookback THEN [signal |-> "HOLD", state |-> from.state]
                            ELSE StepOf(scores[i], th, longOnly)[from.state]
           Walks(f) == f = [i \in 0..n |-> IF i = 0 THEN start ELSE next(i, f[i - 1])]
<1>1. start \in Point BY DEF Point, AllSignals, Directions
<1>2. \A i, from : from \in Point => next(i, from) \in Point
  <2> TAKE i, from
  <2> HAVE from \in Point
  <2>1. from.state \in Directions BY DEF Point
  <2>2. [signal |-> "HOLD", state |-> from.state] \in Point BY <2>1 DEF Point, AllSignals
  <2>3. StepOf(scores[i], th, longOnly)[from.state] \in Point BY <2>1, StepTyped
  <2> QED BY <2>2, <2>3
<1> HIDE DEF next, start
<1> DEFINE step == [p \in (1..n) \X Point |-> next(p[1], p[2])]
<1>3. step \in [(1..n) \X Point -> Point] BY <1>2
<1>4. PICK f : f \in [0..n -> Point] /\ f[0] = start /\ \A i \in 1..n : f[i] = step[<<i, f[i - 1]>>]
  <2>1. step \in StepFunctions(n, Point) BY <1>3 DEF StepFunctions
  <2> HIDE DEF step
  <2>2. PICK f : Iterates(f, n, Point, start, step) BY <1>1, <2>1, Recursion
  <2> QED BY <2>2 DEF Iterates
<1>5. Walks(f)
  <2>1. ASSUME NEW i \in 1..n PROVE f[i] = next(i, f[i - 1])
    <3>1. f[i - 1] \in Point BY <1>4
    <3> QED BY <1>4, <3>1
  <2> QED BY <1>4, <2>1
<1>6. WalkScores(scores, lookback, th, longOnly) = CHOOSE g : Walks(g)
  BY DEF WalkScores, next, start
<1> DEFINE walk == WalkScores(scores, lookback, th, longOnly)
<1>7. Walks(walk) BY <1>5, <1>6
<1> HIDE DEF walk
<1>8. walk[0] = start /\ \A i \in 1..n : walk[i] = next(i, walk[i - 1])
  BY <1>7
<1>9. \A i \in 0..n : walk[i] \in Point
  <2> DEFINE Bad == {i \in 0..n : walk[i] \notin Point}
  <2>1. SUFFICES ASSUME Bad # {} PROVE FALSE OBVIOUS
  <2>2. PICK m \in Bad : \A i \in Bad : m <= i
    <3>1. Bad \subseteq Nat OBVIOUS
    <3> QED BY <2>1, <3>1, NatMin
  <2>3. m # 0 BY <1>1, <1>8, <2>2
  <2>4. m \in 1..n /\ m - 1 \in 0..n /\ ~(m <= m - 1) BY <2>2, <2>3
  <2>5. walk[m - 1] \in Point BY <2>2, <2>4
  <2>6. walk[m] \in Point BY <1>2, <1>8, <2>4, <2>5
  <2> QED BY <2>2, <2>6
<1>10. walk = [i \in 0..n |-> walk[i]] BY <1>7
<1>11. walk \in [0..n -> Point] BY <1>9, <1>10
<1> QED BY <1>8, <1>11 DEF IsWalk, next, start, walk

\* What a memoryless book wants after a score.
Wanted(score) == IF score > strategy.band.enterLong THEN 1 ELSE 0

\* A step of a memoryless book forgets the direction it came from.
LEMMA StepForgets ==
  ASSUME NEW score \in Int, NEW th \in Thresholds, th.exitLong = th.enterLong,
         NEW state \in {0, 1}
  PROVE  StepOf(score, th, TRUE)[state].state = IF score > th.enterLong THEN 1 ELSE 0
<1>1. th.enterLong \in Int BY DEF Thresholds
<1>2. DesiredDirection(score, state, th, TRUE) = IF score > th.enterLong THEN 1 ELSE 0
  BY <1>1 DEF DesiredDirection
<1>3. \A d \in {0, 1} : Transition(state, d).state = d BY DEF Transition
<1>4. StepOf(score, th, TRUE)[state] = Transition(state, DesiredDirection(score, state, th, TRUE))
  BY DEF StepOf, Directions
<1> QED BY <1>2, <1>3, <1>4

\* The direction of a memoryless walk over a warm history is what its last score
\* wants.  The least bar at which it were not long or flat has one before it at
\* which it was.
LEMMA WalkForgets ==
  ASSUME NEW scores \in Seq(Int), NEW lookback \in Nat \ {0}, Len(scores) >= lookback,
         NEW th \in Thresholds, th.exitLong = th.enterLong
  PROVE  WalkScores(scores, lookback, th, TRUE)[Len(scores)].state
           = IF scores[Len(scores)] > th.enterLong THEN 1 ELSE 0
<1> DEFINE n == Len(scores)
           walk == WalkScores(scores, lookback, th, TRUE)
           Bad == {i \in 0..n : walk[i].state \notin {0, 1}}
<1>1. n \in Nat /\ \A i \in 1..n : scores[i] \in Int OBVIOUS
<1>2. /\ walk[0] = [signal |-> "HOLD", state |-> 0]
      /\ \A i \in 1..n :
           walk[i] = IF i < lookback THEN [signal |-> "HOLD", state |-> walk[i - 1].state]
                     ELSE StepOf(scores[i], th, TRUE)[walk[i - 1].state]
  <2>1. IsWalk(walk, scores, lookback, th, TRUE) BY <1>1, WalkDefined
  <2> HIDE DEF walk
  <2> QED BY <2>1 DEF IsWalk
<1> HIDE DEF walk
<1>3. ASSUME NEW i \in 1..n, walk[i - 1].state \in {0, 1}, i >= lookback
      PROVE  walk[i].state = IF scores[i] > th.enterLong THEN 1 ELSE 0
  <2>1. ~(i < lookback) BY <1>1, <1>3
  <2> HIDE DEF n
  <2>2. walk[i] = StepOf(scores[i], th, TRUE)[walk[i - 1].state] BY <1>2, <2>1
  <2> QED BY <1>1, <1>3, <2>2, StepForgets
<1>4. Bad = {}
  <2>1. SUFFICES ASSUME Bad # {} PROVE FALSE OBVIOUS
  <2>2. PICK m \in Bad : \A i \in Bad : m <= i
    <3>1. Bad \subseteq Nat OBVIOUS
    <3> QED BY <2>1, <3>1, NatMin
  <2>3. m # 0 BY <1>2, <2>2
  <2>4. m \in 1..n /\ m - 1 \in 0..n /\ ~(m <= m - 1) BY <2>2, <2>3
  <2>5. walk[m - 1].state \in {0, 1} BY <2>2, <2>4
  <2>6. CASE m < lookback
    <3> HIDE DEF n, Bad
    <3>1. walk[m] = [signal |-> "HOLD", state |-> walk[m - 1].state] BY <1>2, <2>4, <2>6
    <3>2. walk[m].state \in {0, 1} BY <2>5, <3>1
    <3> QED BY <2>2, <3>2 DEF Bad
  <2>7. CASE m >= lookback BY <1>1, <1>3, <2>2, <2>4, <2>5, <2>7
  <2> QED BY <2>4, <2>6, <2>7
<1>5. n \in 1..n /\ n - 1 \in 0..n BY <1>1
<1>6. walk[n - 1].state \in {0, 1} BY <1>4, <1>5
<1> QED BY <1>3, <1>5, <1>6 DEF walk

-----------------------------------------------------------------------------
(* The buffer *)

\* A tail is a sequence of at most n elements, the last of which it keeps.
LEMMA Tails ==
  ASSUME NEW S, NEW seq \in Seq(S), NEW n \in Nat
  PROVE  /\ TailOf(seq, n) \in Seq(S)
         /\ Len(TailOf(seq, n)) = IF Len(seq) > n THEN n ELSE Len(seq)
         /\ Len(TailOf(seq, n)) > 0 => TailOf(seq, n)[Len(TailOf(seq, n))] = seq[Len(seq)]
<1> DEFINE from == IF Len(seq) > n THEN Len(seq) - n + 1 ELSE 1
           tail == SubSeq(seq, from, Len(seq))
<1>1. Len(seq) \in Nat /\ from \in 1..(Len(seq) + 1) OBVIOUS
<1>2. tail \in Seq(S) /\ Len(tail) = Len(seq) - from + 1
  <2> HIDE DEF from
  <2>1. \A i \in from..Len(seq) : seq[i] \in S BY <1>1
  <2> QED BY <1>1, <2>1
<1>3. Len(tail) > 0 => tail[Len(tail)] = seq[Len(seq)]
  <2> HIDE DEF from
  <2> SUFFICES ASSUME Len(tail) > 0 PROVE tail[Len(tail)] = seq[Len(seq)] OBVIOUS
  <2>1. Len(tail) \in 1..(Len(seq) - from + 1) BY <1>1, <1>2
  <2>2. tail[Len(tail)] = seq[from + Len(tail) - 1] BY <1>1, <2>1
  <2> QED BY <1>1, <1>2, <2>2
<1>4. Len(tail) = IF Len(seq) > n THEN n ELSE Len(seq)
  <2> HIDE DEF tail
  <2> QED BY <1>1, <1>2
<1>5. TailOf(seq, n) = tail BY DEF TailOf
<1> HIDE DEF tail
<1> QED BY <1>2, <1>3, <1>4, <1>5

-----------------------------------------------------------------------------
(* Types *)

\* Whatever the edge, the direction and the book, a signal is emitted.
LEMMA EmittedTyped ==
  ASSUME NEW edge \in AllSignals, NEW direction, NEW side \in Sides, NEW reaffirm
  PROVE  EmittedSignal(edge, direction, side, reaffirm) \in AllSignals
<1>1. Reaffirm(edge, direction, side, reaffirm) \in AllSignals
  BY DEF Reaffirm, SideOf, CloseOf, AllSignals, EntrySignals, ExitSignals
<1> QED BY <1>1 DEF EmittedSignal, AllSignals

\* The walk over a buffer that is not empty is at a point.
LEMMA WalkTyped ==
  ASSUME NEW bars \in Seq(Scores)
  PROVE  WalkOf(bars) \in Point
<1> DEFINE walk == WalkScores(bars, Lookback, strategy.band, strategy.longOnly)
<1>1. Len(bars) \in Nat OBVIOUS
<1>2. walk \in [0..Len(bars) -> Point] BY <1>1, WalkDefined DEF IsWalk
<1> HIDE DEF walk
<1>3. walk[Len(bars)] \in Point BY <1>1, <1>2
<1> QED BY <1>3 DEF WalkOf, walk

LEMMA BarTyped ==
  ASSUME TypeOK, NEW score \in Scores, ProcessBar(score)
  PROVE  TypeOK'
<1> USE StrategyAssumption DEF StrategyAssumption
<1> DEFINE bars == Append(buffer, score)
           walk == WalkOf(buffer')
<1>1. bars \in Seq(Scores) BY DEF TypeOK
<1>2. buffer' \in Seq(Scores) /\ Len(buffer') <= MaxBuffer
  <2> DEFINE tail == TailOf(bars, MaxBuffer)
  <2>1. buffer' = tail BY DEF ProcessBar
  <2> HIDE DEF bars
  <2>2. /\ tail \in Seq(Scores) /\ Len(bars) \in Nat
        /\ Len(tail) = IF Len(bars) > MaxBuffer THEN MaxBuffer ELSE Len(bars)
    BY <1>1, Tails
  <2> HIDE DEF tail
  <2> QED BY <2>1, <2>2
<1>3. walk \in Point
  <2>1. strategy' = strategy BY DEF ProcessBar
  <2> QED BY <1>2, WalkTyped
<1> HIDE DEF walk
<1>4. signal' \in AllSignals
  <2>1. walk.signal \in AllSignals BY <1>3 DEF Point
  <2>2. EmittedSignal(walk.signal, walk.state, held, strategy.reaffirmEntries) \in AllSignals
    BY <2>1, EmittedTyped DEF TypeOK
  <2> QED BY <2>2 DEF ProcessBar, walk, AllSignals
<1>5. seen' \in 0..Lookback BY DEF TypeOK, ProcessBar, ResearchStep
<1>6. research' \in Point
  <2>1. research \in Point BY DEF TypeOK, Point
  <2>2. research.state \in Directions BY <2>1 DEF Point
  <2>3. StepOf(score, strategy.band, strategy.longOnly)[research.state] \in Point
    BY <2>2, StepTyped
  <2>4. [research EXCEPT !.signal = "HOLD"] \in Point BY <2>1 DEF Point, AllSignals
  <2> QED BY <2>3, <2>4 DEF ProcessBar, ResearchStep
<1>7. strategy' = strategy /\ held' = held /\ disturbances' = disturbances BY DEF ProcessBar
<1> QED BY <1>2, <1>4, <1>5, <1>6, <1>7 DEF TypeOK, Point

LEMMA TypeKept == TypeOK /\ [Next]_vars => TypeOK'
<1> SUFFICES ASSUME TypeOK, [Next]_vars PROVE TypeOK' OBVIOUS
<1> USE StrategyAssumption DEF StrategyAssumption
<1>1. CASE Bar BY <1>1, BarTyped DEF Bar
<1>2. CASE HandleSignal
  BY <1>2 DEF HandleSignal, TypeOK, Sides, AllSignals, EntrySignals, ExitSignals
<1>3. CASE Declined BY <1>3 DEF Declined, Disturb, TypeOK, AllSignals
<1>4. CASE \E side \in Sides : BookChanges(side)
  BY <1>4 DEF BookChanges, Disturb, TypeOK
<1>5. ASSUME NEW n \in 0..Len(buffer), Restart(n) PROVE TypeOK'
  <2>1. n \in Nat /\ n <= Len(buffer) /\ buffer \in Seq(Scores) BY DEF TypeOK
  <2>2. buffer' \in Seq(Scores) /\ Len(buffer') <= Len(buffer)
    <3> DEFINE tail == TailOf(buffer, n)
    <3>1. tail \in Seq(Scores) /\ Len(tail) = IF Len(buffer) > n THEN n ELSE Len(buffer)
      BY <2>1, Tails
    <3>2. buffer' = tail BY <1>5 DEF Restart
    <3> HIDE DEF tail
    <3> QED BY <2>1, <3>1, <3>2
  <2>3. Len(buffer') <= MaxBuffer BY <2>2 DEF TypeOK
  <2> QED BY <1>5, <2>2, <2>3 DEF Restart, Disturb, TypeOK, AllSignals
<1>6. CASE UNCHANGED vars BY <1>6 DEF vars, TypeOK
<1> QED BY <1>1, <1>2, <1>3, <1>4, <1>5, <1>6 DEF Next

LEMMA TypeInit == Init => TypeOK
BY StrategyAssumption
DEF StrategyAssumption, Init, TypeOK, AllSignals, Sides, Directions

\* The buffer never outgrows max_buffer_size, every signal the strategy emits is
\* one of the vocabulary and the research clock is always at a point of the walk,
\* for any scores, books, lookback and buffer.
THEOREM TypeCorrect == Spec => []TypeOK
BY TypeInit, TypeKept, PTL DEF Spec

-----------------------------------------------------------------------------
(* The memoryless book *)

\* A bar the buffer still has was counted, and once the research clock is warm its
\* direction is what the newest bar in the buffer wants.
MemorylessInv ==
  /\ research.state \in {0, 1}
  /\ seen = Lookback \/ Len(buffer) <= seen
  /\ seen = Lookback /\ Len(buffer) > 0 => research.state = Wanted(buffer[Len(buffer)])

IInv == TypeOK /\ (Memoryless => MemorylessInv)

LEMMA BarForgets ==
  ASSUME TypeOK, Memoryless, MemorylessInv, NEW score \in Scores, ProcessBar(score)
  PROVE  MemorylessInv'
<1> USE StrategyAssumption DEF StrategyAssumption
<1> DEFINE bars == Append(buffer, score)
           tail == TailOf(bars, MaxBuffer)
<1>1. /\ bars \in Seq(Scores) /\ Len(bars) = Len(buffer) + 1 /\ bars[Len(bars)] = score
      /\ Len(buffer) \in Nat
  BY DEF TypeOK
<1>2. /\ Len(tail) = IF Len(bars) > MaxBuffer THEN MaxBuffer ELSE Len(bars)
      /\ Len(tail) > 0 => tail[Len(tail)] = score
  BY <1>1, Tails
<1>3. buffer' = tail /\ strategy' = strategy BY DEF ProcessBar
<1> HIDE DEF tail, bars
<1>4. seen' = Lookback \/ Len(buffer') <= seen'
  BY <1>1, <1>2, <1>3 DEF ProcessBar, ResearchStep, MemorylessInv, TypeOK
<1>5. seen' < Lookback => research'.state = research.state
  BY DEF ProcessBar, ResearchStep, TypeOK
<1>6. ~(seen' < Lookback) => research'.state = Wanted(score)
  <2>1. strategy.band \in Thresholds /\ strategy.longOnly = TRUE
        /\ strategy.band.exitLong = strategy.band.enterLong
    BY DEF TypeOK, Memoryless
  <2>2. StepOf(score, strategy.band, TRUE)[research.state].state = Wanted(score)
    BY <2>1, StepForgets DEF MemorylessInv, Wanted
  <2> QED BY <2>1, <2>2 DEF ProcessBar, ResearchStep
<1>7. Wanted(score) \in {0, 1} /\ Wanted(score)' = Wanted(score) BY <1>3 DEF Wanted
<1>8. seen' \in 0..Lookback BY BarTyped DEF TypeOK
<1>9. research'.state \in {0, 1} BY <1>5, <1>6, <1>7 DEF MemorylessInv
<1>10. seen' = Lookback /\ Len(buffer') > 0 => research'.state = Wanted(buffer[Len(buffer)])'
  BY <1>2, <1>3, <1>6, <1>8 DEF Wanted
<1> QED BY <1>4, <1>9, <1>10 DEF MemorylessInv

LEMMA RestartForgets ==
  ASSUME TypeOK, MemorylessInv, NEW n \in 0..Len(buffer), Restart(n)
  PROVE  MemorylessInv'
<1> DEFINE tail == TailOf(buffer, n)
<1>1. n \in Nat /\ buffer \in Seq(Scores) /\ Len(buffer) \in Nat BY DEF TypeOK
<1>2. /\ Len(tail) = IF Len(buffer) > n THEN n ELSE Len(buffer)
      /\ Len(tail) > 0 => tail[Len(tail)] = buffer[Len(buffer)]
  BY <1>1, Tails
<1>3. /\ buffer' = tail /\ strategy' = strategy /\ seen' = seen /\ research' = research
  BY DEF Restart
<1> HIDE DEF tail
<1>4. seen \in Int /\ Lookback \in Int BY StrategyAssumption DEF StrategyAssumption, TypeOK
<1> QED BY <1>1, <1>2, <1>3, <1>4 DEF MemorylessInv, Wanted

LEMMA MemorylessKept == IInv /\ [Next]_vars => IInv'
<1> SUFFICES ASSUME IInv, [Next]_vars, Memoryless' PROVE MemorylessInv'
  BY TypeKept DEF IInv
<1>1. TypeOK /\ TypeOK' BY TypeKept DEF IInv
<1>2. strategy' = strategy
  BY DEF Next, vars, Bar, ProcessBar, HandleSignal, Declined, BookChanges, Restart
<1>3. Memoryless /\ MemorylessInv BY <1>2 DEF IInv, Memoryless
<1>4. CASE Bar BY <1>1, <1>3, <1>4, BarForgets DEF Bar
<1>5. CASE UNCHANGED <<strategy, buffer, seen, research>>
  BY <1>3, <1>5 DEF MemorylessInv, Wanted
<1>6. CASE \E n \in 0..Len(buffer) : Restart(n)
  BY <1>1, <1>3, <1>6, RestartForgets
<1> QED
  BY <1>4, <1>5, <1>6 DEF Next, vars, HandleSignal, Declined, BookChanges

\* The walk over a warm buffer and the research clock both say what the newest bar
\* wants, so they say the same.
LEMMA MemorylessAgrees == IInv => MemorylessMatchesResearch
<1> SUFFICES ASSUME IInv, Memoryless, Warm PROVE Walk.state = research.state
  BY DEF MemorylessMatchesResearch, DirectionMatchesResearch
<1> USE StrategyAssumption DEF StrategyAssumption
<1>1. buffer \in Seq(Int) /\ Lookback \in Nat \ {0} /\ Len(buffer) >= Lookback
  <2>1. buffer \in Seq(Scores) /\ Len(buffer) \in Nat BY DEF IInv, TypeOK
  <2>2. \A i \in 1..Len(buffer) : buffer[i] \in Int
    <3> SUFFICES ASSUME NEW i \in 1..Len(buffer) PROVE buffer[i] \in Int OBVIOUS
    <3>1. buffer[i] \in Scores BY <2>1
    <3> QED BY <3>1
  <2>3. buffer \in Seq(Int) BY <2>1, <2>2
  <2> QED BY <2>3 DEF Warm
<1>2. strategy.band \in Thresholds /\ strategy.longOnly = TRUE
      /\ strategy.band.exitLong = strategy.band.enterLong
  BY DEF IInv, TypeOK, Memoryless
<1>3. Walk.state = Wanted(buffer[Len(buffer)])
  BY <1>1, <1>2, WalkForgets DEF Walk, WalkOf, Wanted
<1>4. seen = Lookback /\ Len(buffer) > 0 BY <1>1 DEF IInv, TypeOK, MemorylessInv
<1> QED BY <1>3, <1>4 DEF IInv, MemorylessInv

\* A long-only book whose exit threshold is its entry threshold wants live what it
\* wants in research, whatever a restart or the buffer's bound has made it forget.
THEOREM MemorylessIsFaithful == Spec => []MemorylessMatchesResearch
<1>1. Init => IInv
  <2> SUFFICES ASSUME Init PROVE IInv OBVIOUS
  <2>1. TypeOK BY TypeInit
  <2>2. MemorylessInv BY StrategyAssumption DEF StrategyAssumption, Init, MemorylessInv
  <2> QED BY <2>1, <2>2 DEF IInv
<1> QED BY <1>1, MemorylessKept, MemorylessAgrees, PTL DEF Spec
=============================================================================
