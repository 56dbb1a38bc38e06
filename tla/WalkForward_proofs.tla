------------------------- MODULE WalkForward_proofs -------------------------
(***************************************************************************)
(* Whatever window is asked for, a fold and the holdout are scored on what *)
(* was trained on at a boundary day at the most, and the folds are the     *)
(* ones asked for; and whatever is drawn and however the pool is           *)
(* scheduled, fails or refuses to start, a search answers what the         *)
(* sequential search would.                                                *)
(***************************************************************************)
EXTENDS WalkForward, DataInduction, SequenceTheorems

LEMMA MulMono ==
  ASSUME NEW a \in Nat, NEW b \in Nat, NEW c \in Nat, a <= b
  PROVE  a * c <= b * c
<1>1. PICK d \in Nat : b = a + d BY b - a \in Nat
<1>2. b * c = a * c + d * c BY <1>1
<1>3. d * c \in Nat OBVIOUS
<1> QED BY <1>2, <1>3

LEMMA DivBounds ==
  ASSUME NEW a \in Nat, NEW b \in Nat \ {0}
  PROVE  /\ a \div b \in Nat
         /\ (a \div b) * b <= a
         /\ a < (a \div b) * b + b
<1>1. a = (b * (a \div b)) + (a % b) /\ a % b \in 0..(b - 1) OBVIOUS
<1>2. a \div b \in Nat OBVIOUS
<1> QED BY <1>1, <1>2

\* The days between the start and the first day that is not the folds'.
Days(v) == RegionEnd(v) - v.start - v.embargo

LEMMA SpansType ==
  ASSUME NEW v \in Window, ~TooShort(v)
  PROVE  TrainDays(v) \in Nat \ {0} /\ TestDays(v) \in Nat \ {0}
<1>1. Days(v) \in Nat BY DEF Window, TooShort, Days, RegionEnd
<1>2. v.folds + 1 \in Nat \ {0} BY DEF Window
<1>3. Days(v) \div (v.folds + 1) \in Nat BY <1>1, <1>2, DivBounds
<1>4. FittedDays(v) \in Nat \ {0} BY <1>1, <1>3 DEF FittedDays, Days
<1>5. ~Fitted(v) => v.train \in Nat \ {0} /\ v.test \in Nat \ {0} BY DEF Window, Fitted
<1> QED BY <1>4, <1>5 DEF TrainDays, TestDays

\* Where a fold's spans lie, and that a later fold's lie a test span further on.
LEMMA FoldSpans ==
  ASSUME NEW v \in Window, ~TooShort(v), NEW i \in FoldsOf(v)
  PROVE  /\ i \in Nat
         /\ FoldOf(v, i).isStart \in Int /\ FoldOf(v, i).isEnd \in Nat
         /\ FoldOf(v, i).isStart < FoldOf(v, i).isEnd
         /\ FoldOf(v, i).oosStart = FoldOf(v, i).isEnd + v.embargo
         /\ FoldOf(v, i).oosEnd = FoldOf(v, i).oosStart + TestDays(v)
         /\ FoldOf(v, i).oosEnd <= RegionEnd(v)
         /\ \A j \in FoldsOf(v) : j < i => FoldOf(v, j).isEnd + TestDays(v) <= FoldOf(v, i).isEnd
<1> DEFINE t == TestDays(v)
           r == TrainDays(v)
<1>t. t \in Nat \ {0} /\ r \in Nat \ {0} BY SpansType
<1>v. v.start \in Nat /\ v.embargo \in Nat /\ v.end \in Nat /\ v.holdout \in Nat
  BY DEF Window
<1>f. \A k \in FoldsOf(v) : k \in Nat /\ FoldOf(v, k).oosEnd <= RegionEnd(v)
  BY <1>v DEF FoldsOf, RegionEnd
<1>e. \A k \in Nat : FoldOf(v, k).isEnd = v.start + r + k * t BY DEF FoldOf, IsEnd
<1>s. FoldOf(v, i).isStart = IF v.anchored THEN v.start ELSE FoldOf(v, i).isEnd - r
  BY DEF FoldOf
<1>o. /\ FoldOf(v, i).oosStart = FoldOf(v, i).isEnd + v.embargo
      /\ FoldOf(v, i).oosEnd = FoldOf(v, i).isEnd + v.embargo + t
  BY DEF FoldOf
<1> HIDE DEF t, r
<1>1. i * t \in Nat BY <1>f, <1>t
<1>2. FoldOf(v, i).isEnd \in Nat /\ v.start + r <= FoldOf(v, i).isEnd BY <1>1, <1>e, <1>f, <1>v, <1>t
<1>3. FoldOf(v, i).isStart \in Int /\ FoldOf(v, i).isStart < FoldOf(v, i).isEnd
  BY <1>2, <1>s, <1>v, <1>t
<1>4. ASSUME NEW j \in FoldsOf(v), j < i
      PROVE  FoldOf(v, j).isEnd + t <= FoldOf(v, i).isEnd
  <2>1. j \in Nat /\ i \in Nat BY <1>f
  <2>2. (j + 1) * t <= i * t BY <1>4, <2>1, <1>t, MulMono
  <2>3. (j + 1) * t = j * t + t /\ j * t \in Nat BY <2>1, <1>t
  <2>4. FoldOf(v, j).isEnd = v.start + r + j * t BY <2>1, <1>e
  <2>5. FoldOf(v, i).isEnd = v.start + r + i * t BY <2>1, <1>e
  <2> DEFINE a == j * t
             b == i * t
  <2>6. a \in Nat /\ b \in Nat /\ a + t <= b BY <2>2, <2>3, <1>1
  <2>7. FoldOf(v, j).isEnd = v.start + r + a /\ FoldOf(v, i).isEnd = v.start + r + b
    BY <2>4, <2>5
  <2> HIDE DEF a, b
  <2> QED BY <2>6, <2>7, <1>v, <1>t
<1>5. FoldOf(v, i).oosStart = FoldOf(v, i).isEnd + v.embargo
      /\ FoldOf(v, i).oosEnd = FoldOf(v, i).oosStart + t
  BY <1>o, <1>2, <1>v, <1>t
<1> QED BY <1>2, <1>3, <1>4, <1>5, <1>f DEF t

\* Folds come in order, each testing after it trains, before the holdout.
LEMMA BoundariesOnly == ASSUME NEW v \in Window PROVE OnlyBoundariesAreShared(v)
<1> SUFFICES ASSUME ~TooShort(v)
    PROVE  /\ \A i, j \in FoldsOf(v) : j <= i =>
                TrainedOn(v, j) \cap TestedOn(v, i)
                  = IF v.embargo = 0 /\ i = j THEN {FoldOf(v, i).isEnd} ELSE {}
           /\ \A i, j \in FoldsOf(v) : j < i =>
                TestedOn(v, j) \cap TestedOn(v, i) \subseteq {FoldOf(v, j).oosEnd}
           /\ \A i \in FoldsOf(v) :
                /\ TrainedOn(v, i) \cap HeldOut(v) = {}
                /\ TestedOn(v, i) \cap HeldOut(v) \subseteq {v.end - v.holdout}
           /\ LastSearch(v) \cap HeldOut(v) = IF v.holdout = 0 THEN {} ELSE {v.end - v.holdout}
    BY DEF OnlyBoundariesAreShared
<1> DEFINE t == TestDays(v)
<1>t. t \in Nat \ {0} BY SpansType
<1>v. v.start \in Nat /\ v.embargo \in Nat /\ v.end \in Nat /\ v.holdout \in Nat
  BY DEF Window
<1>r. RegionEnd(v) = v.end - v.holdout /\ RegionEnd(v) \in Int /\ v.start < RegionEnd(v)
  BY <1>v DEF RegionEnd, TooShort
<1>h. HeldOut(v) = IF v.holdout = 0 THEN {} ELSE RegionEnd(v) .. v.end BY <1>r DEF HeldOut
<1>f. \A i \in FoldsOf(v) :
        /\ i \in Nat /\ FoldOf(v, i).isStart \in Int /\ FoldOf(v, i).isEnd \in Nat
        /\ FoldOf(v, i).isStart < FoldOf(v, i).isEnd
        /\ FoldOf(v, i).oosStart = FoldOf(v, i).isEnd + v.embargo
        /\ FoldOf(v, i).oosEnd = FoldOf(v, i).oosStart + t
        /\ FoldOf(v, i).oosEnd <= RegionEnd(v)
  BY FoldSpans
<1>o. \A i, j \in FoldsOf(v) : j < i => FoldOf(v, j).isEnd + t <= FoldOf(v, i).isEnd
  BY FoldSpans
<1> HIDE DEF t
<1>1. ASSUME NEW i \in FoldsOf(v), NEW j \in FoldsOf(v), j <= i
      PROVE  TrainedOn(v, j) \cap TestedOn(v, i)
               = IF v.embargo = 0 /\ i = j THEN {FoldOf(v, i).isEnd} ELSE {}
  <2>1. CASE i = j /\ v.embargo = 0
    <3>1. /\ FoldOf(v, i).isStart .. FoldOf(v, i).isEnd
               \cap FoldOf(v, i).oosStart .. FoldOf(v, i).oosEnd = {FoldOf(v, i).isEnd}
      BY <1>f, <1>t, <2>1
    <3> QED BY <2>1, <3>1 DEF TrainedOn, TestedOn
  <2>2. CASE ~(i = j /\ v.embargo = 0)
    <3>1. FoldOf(v, j).isEnd < FoldOf(v, i).oosStart
      <4>1. CASE i = j BY <4>1, <2>2, <1>f, <1>v
      <4>2. CASE j < i BY <4>2, <1>o, <1>f, <1>v, <1>t
      <4> QED BY <4>1, <4>2, <1>1, <1>f
    <3>2. TrainedOn(v, j) \cap TestedOn(v, i) = {}
      BY <3>1, <1>f, <1>v, <1>t DEF TrainedOn, TestedOn
    <3> QED BY <2>2, <3>2
  <2> QED BY <2>1, <2>2
<1>2. ASSUME NEW i \in FoldsOf(v), NEW j \in FoldsOf(v), j < i
      PROVE  TestedOn(v, j) \cap TestedOn(v, i) \subseteq {FoldOf(v, j).oosEnd}
  <2>1. FoldOf(v, j).oosEnd <= FoldOf(v, i).oosStart BY <1>2, <1>o, <1>f, <1>v, <1>t
  <2> QED BY <2>1, <1>f, <1>v, <1>t DEF TestedOn
<1>3. ASSUME NEW i \in FoldsOf(v)
      PROVE  /\ TrainedOn(v, i) \cap HeldOut(v) = {}
             /\ TestedOn(v, i) \cap HeldOut(v) \subseteq {v.end - v.holdout}
  <2>1. FoldOf(v, i).isEnd < RegionEnd(v) BY <1>f, <1>v, <1>t, <1>r
  <2>2. TrainedOn(v, i) \cap HeldOut(v) = {}
    BY <2>1, <1>f, <1>h, <1>r, <1>v DEF TrainedOn
  <2>3. TestedOn(v, i) \cap HeldOut(v) \subseteq {RegionEnd(v)}
    BY <1>f, <1>h, <1>r, <1>v, <1>t DEF TestedOn
  <2> QED BY <2>2, <2>3, <1>r
<1>4. LastSearch(v) \cap HeldOut(v) = IF v.holdout = 0 THEN {} ELSE {v.end - v.holdout}
  <2>1. RegionEnd(v) <= v.end BY <1>v, <1>r
  <2>2. (v.start .. RegionEnd(v)) \cap (RegionEnd(v) .. v.end) = {RegionEnd(v)}
    BY <2>1, <1>r, <1>v
  <2> QED BY <2>2, <1>h, <1>r DEF LastSearch
<1> QED BY <1>1, <1>2, <1>3, <1>4

\* n + 1 spans of a quotient of the days fit into them; one more does not, once
\* the quotient is no smaller than the divisor.
LEMMA AsAsked == ASSUME NEW v \in Window PROVE FoldsAsAsked(v)
<1> DEFINE n == v.folds
           d == Days(v)
           t == TestDays(v)
<1>v. /\ v.start \in Nat /\ v.embargo \in Nat /\ v.end \in Nat /\ v.holdout \in Nat
      /\ n \in Nat \ {0} /\ d \in Int
  BY DEF Window, Days, RegionEnd
<1> HIDE DEF n, d, t
<1> SUFFICES ASSUME Fitted(v), d >= n + 1
    PROVE  /\ 0..(n - 1) \subseteq FoldsOf(v)
           /\ d >= (n + 1) * (n + 1) => FoldsOf(v) = 0..(n - 1)
  <2>1. (n + 1) * (n + 1) >= n + 1 BY <1>v
  <2> QED BY <2>1, <1>v DEF FoldsAsAsked, n, d, Days
<1>d. d \in Nat /\ d \div (n + 1) \in Nat /\ (d \div (n + 1)) * (n + 1) <= d
      /\ d < (d \div (n + 1)) * (n + 1) + (n + 1)
  <2>1. d \in Nat /\ n + 1 \in Nat \ {0} BY <1>v
  <2> QED BY <2>1, DivBounds
<1>t. t = d \div (n + 1) /\ t \in Nat \ {0}
  <2>1. d \div (n + 1) >= 1
    <3>1. CASE d \div (n + 1) = 0 BY <3>1, <1>d, <1>v
    <3> QED BY <3>1, <1>d
  <2> QED BY <2>1, <1>d DEF t, d, n, TestDays, FittedDays, Days
<1>f. ASSUME NEW i \in Nat PROVE FoldOf(v, i).oosEnd <= RegionEnd(v) <=> (i + 2) * t <= d
  <2>1. (i + 2) * t = i * t + t + t /\ i * t \in Nat BY <1>t
  <2>2. FoldOf(v, i).oosEnd = v.start + t + i * t + v.embargo + t
    BY DEF FoldOf, IsEnd, t, TestDays, TrainDays
  <2>3. d = RegionEnd(v) - v.start - v.embargo /\ RegionEnd(v) \in Int
    BY <1>v DEF d, Days, RegionEnd
  <2> QED BY <2>1, <2>2, <2>3, <1>v, <1>t
<1>r. d <= RegionEnd(v) - v.start /\ RegionEnd(v) - v.start \in Nat
  BY <1>v, <1>d DEF d, Days, RegionEnd
<1>1. ASSUME NEW i \in 0..(n - 1) PROVE i \in FoldsOf(v)
  <2>1. i \in Nat /\ i + 2 <= n + 1 BY <1>v
  <2>2. (i + 2) * t <= (n + 1) * t BY <2>1, <1>v, <1>t, MulMono
  <2>3. (n + 1) * t = t * (n + 1) /\ (n + 1) * t \in Nat /\ (i + 2) * t \in Nat BY <1>v, <1>t, <2>1
  <2>4. (i + 2) * t <= d BY <2>2, <2>3, <1>d, <1>t
  <2>5. i + 2 <= (i + 2) * t
    <3>1. 1 * (i + 2) <= t * (i + 2) BY <2>1, <1>t, MulMono
    <3> QED BY <3>1, <2>1, <1>t
  <2>6. i \in 0..(RegionEnd(v) - v.start) BY <2>1, <2>3, <2>4, <2>5, <1>r, <1>d
  <2> QED BY <2>1, <2>4, <2>6, <1>f DEF FoldsOf
<1>2. ASSUME d >= (n + 1) * (n + 1), NEW i \in FoldsOf(v) PROVE i \in 0..(n - 1)
  <2>1. i \in Nat /\ FoldOf(v, i).oosEnd <= RegionEnd(v) BY <1>r DEF FoldsOf
  <2>2. (i + 2) * t <= d BY <2>1, <1>f
  <2>3. t >= n + 1
    <3> SUFFICES ASSUME t <= n PROVE FALSE BY <1>t, <1>v
    <3>1. t * (n + 1) <= n * (n + 1) BY <1>t, <1>v, MulMono
    <3>2. (n + 1) * (n + 1) = n * (n + 1) + (n + 1) /\ n * (n + 1) \in Nat BY <1>v
    <3>3. t * (n + 1) \in Nat /\ (n + 1) * (n + 1) \in Nat BY <1>v, <1>t
    <3> QED BY <3>1, <3>2, <3>3, <1>d, <1>t, <1>2, <1>v
  <2>4. ASSUME i >= n PROVE FALSE
    <3>1. (n + 2) * t <= (i + 2) * t BY <2>4, <2>1, <1>v, <1>t, MulMono
    <3>2. (n + 2) * t = t * (n + 1) + t /\ t * (n + 1) \in Nat BY <1>v, <1>t
    <3>3. (i + 2) * t \in Nat BY <2>1, <1>t
    <3> QED BY <3>1, <3>2, <3>3, <2>2, <2>3, <1>d, <1>t, <1>v
  <2> QED BY <2>1, <2>4, <1>v
<1> QED BY <1>1, <1>2

-----------------------------------------------------------------------------
\* In every state of a walk-forward the days that a search and a score both read
\* are the boundary days of a fold without an embargo and of the holdout and no
\* others, and the folds are the ones asked for.
THEOREM FoldsLeakOnlyBoundaries == Spec => []LeaksOnlyBoundaries
<1>1. Init => w \in Windows BY DEF Init
<1>2. w \in Windows /\ [Next]_vars => (w \in Windows)'
  BY DEF Next, vars, asked, StartSearch, EndSearch, Finish, Interrupt, WorkerDies,
         Take, Return, Collect, Move
<1>3. w \in Windows => LeaksOnlyBoundaries
  BY WalkForwardAssumption, BoundariesOnly, AsAsked DEF LeaksOnlyBoundaries
<1> QED BY <1>1, <1>2, <1>3, PTL DEF Spec

-----------------------------------------------------------------------------
(* The rows of a search *)

LEMMA ToSetOfAppend ==
  ASSUME NEW V, NEW s \in Seq(V), NEW x \in V
  PROVE  /\ Append(s, x) \in Seq(V) /\ Len(Append(s, x)) = Len(s) + 1
         /\ ToSet(Append(s, x)) = ToSet(s) \cup {x}
<1> DEFINE a == Append(s, x)
<1>1. /\ a \in Seq(V) /\ Len(a) = Len(s) + 1 /\ a[Len(s) + 1] = x
      /\ \A i \in 1..Len(s) : a[i] = s[i]
  BY AppendProperties
<1>2. /\ Len(s) \in Nat /\ DOMAIN s = 1..Len(s)
      /\ DOMAIN a = 1..(Len(s) + 1)
  BY <1>1, LenProperties
<1> HIDE DEF a
<1>3. ToSet(a) \subseteq ToSet(s) \cup {x}
  <2> SUFFICES ASSUME NEW i \in DOMAIN a PROVE a[i] \in ToSet(s) \cup {x} BY DEF ToSet
  <2>1. i = Len(s) + 1 \/ i \in 1..Len(s) BY <1>2
  <2> QED BY <2>1, <1>1, <1>2 DEF ToSet
<1>4. ToSet(s) \cup {x} \subseteq ToSet(a)
  <2>1. \A i \in DOMAIN s : i \in DOMAIN a /\ a[i] = s[i] BY <1>1, <1>2
  <2>2. Len(s) + 1 \in DOMAIN a BY <1>2
  <2> QED BY <2>1, <2>2, <1>1 DEF ToSet
<1> QED BY <1>1, <1>3, <1>4 DEF a

\* What has been picked after i items.
Picked(items, s, positions, V, i) ==
  /\ items[i] \in Seq(V)
  /\ ToSet(items[i]) = {s[j] : j \in positions \cap (1..i)}
  /\ Len(items[i]) = Cardinality(positions \cap (1..i))

\* ItemsAt has one item for each position, and nothing else.
LEMMA ItemsAtPositions ==
  ASSUME NEW V, NEW s \in Seq(V), NEW positions \in SUBSET (DOMAIN s)
  PROVE  /\ ItemsAt(s, positions) \in Seq(V)
         /\ ToSet(ItemsAt(s, positions)) = {s[i] : i \in positions}
         /\ Len(ItemsAt(s, positions)) = Cardinality(positions)
<1> DEFINE n == Len(s)
           next(i, from) == IF i \in positions THEN Append(from, s[i]) ELSE from
           Picks(f) == f = [i \in 0..n |-> IF i = 0 THEN <<>> ELSE next(i, f[i - 1])]
<1>0. n \in Nat /\ DOMAIN s = 1..n /\ \A i \in 1..n : s[i] \in V
  BY LenProperties, ElementOfSeq
<1>1. <<>> \in Seq(V) BY EmptySeq
<1>2. \A i \in 1..n : \A from \in Seq(V) : next(i, from) \in Seq(V) BY <1>0, ToSetOfAppend
<1>3. ItemsAt(s, positions) = (CHOOSE f : Picks(f))[n] BY DEF ItemsAt
<1> HIDE DEF n, next
<1> DEFINE step == [p \in (1..n) \X Seq(V) |-> next(p[1], p[2])]
<1>4. step \in [(1..n) \X Seq(V) -> Seq(V)] BY <1>2
<1>5. PICK f : f \in [0..n -> Seq(V)] /\ f[0] = <<>> /\ \A i \in 1..n : f[i] = step[<<i, f[i - 1]>>]
  <2>1. step \in StepFunctions(n, Seq(V)) BY <1>4 DEF StepFunctions
  <2> HIDE DEF step
  <2>2. PICK f : Iterates(f, n, Seq(V), <<>>, step) BY <1>0, <1>1, <2>1, Recursion
  <2> QED BY <2>2 DEF Iterates
<1>6. Picks(f)
  <2>1. ASSUME NEW i \in 1..n PROVE f[i] = next(i, f[i - 1])
    <3>1. f[i - 1] \in Seq(V) BY <1>0, <1>5
    <3> QED BY <1>5, <3>1
  <2> QED BY <1>5, <2>1
<1> DEFINE items == CHOOSE g : Picks(g)
<1>7. Picks(items) BY <1>6
<1>8. ItemsAt(s, positions) = items[n] BY <1>3
<1> HIDE DEF items
<1>9. items[0] = <<>> /\ \A i \in 1..n : items[i] = next(i, items[i - 1]) BY <1>0, <1>7
<1>10. \A i \in 0..n : Picked(items, s, positions, V, i)
  <2> DEFINE Bad == {i \in 0..n : ~Picked(items, s, positions, V, i)}
  <2>1. SUFFICES ASSUME Bad # {} PROVE FALSE OBVIOUS
  <2>2. PICK m \in Bad : \A i \in Bad : m <= i
    <3>1. Bad \subseteq Nat OBVIOUS
    <3> QED BY <2>1, <3>1, NatMin
  <2>3. m # 0
    <3>1. positions \cap (1..0) = {} OBVIOUS
    <3>2. ToSet(<<>>) = {} BY DEF ToSet
    <3>3. Len(<<>>) = 0 /\ Cardinality({}) = 0 BY FS_EmptySet
    <3>4. {s[j] : j \in {}} = {} OBVIOUS
    <3>5. Picked(items, s, positions, V, 0) BY <1>1, <1>9, <3>1, <3>2, <3>3, <3>4 DEF Picked
    <3> QED BY <2>2, <3>5
  <2>4. m \in 1..n /\ m - 1 \in 0..n /\ ~(m <= m - 1) BY <1>0, <2>2, <2>3
  <2>5. Picked(items, s, positions, V, m - 1) BY <2>2, <2>4
  <2> DEFINE before == positions \cap (1..(m - 1))
             now == positions \cap (1..m)
  <2>6. CASE m \in positions
    <3>1. items[m] = Append(items[m - 1], s[m]) BY <1>9, <2>4, <2>6 DEF next
    <3>2. s[m] \in V BY <1>0, <2>4
    <3>3. now = before \cup {m} /\ m \notin before BY <2>4, <2>6
    <3>4. IsFiniteSet(before) /\ Cardinality(now) = Cardinality(before) + 1
      <4>1. IsFiniteSet(1..(m - 1)) BY FS_Interval, <2>4
      <4>2. IsFiniteSet(before) BY <4>1, FS_Subset
      <4> HIDE DEF before, now
      <4> QED BY <4>2, <3>3, FS_AddElement
    <3>5. {s[j] : j \in now} = {s[j] : j \in before} \cup {s[m]} BY <3>3
    <3> HIDE DEF before, now
    <3>6. /\ items[m - 1] \in Seq(V) /\ ToSet(items[m - 1]) = {s[j] : j \in before}
          /\ Len(items[m - 1]) = Cardinality(before)
      BY <2>5 DEF Picked, before
    <3>7. /\ items[m] \in Seq(V) /\ Len(items[m]) = Len(items[m - 1]) + 1
          /\ ToSet(items[m]) = ToSet(items[m - 1]) \cup {s[m]}
      BY <3>1, <3>2, <3>6, ToSetOfAppend
    <3>8. Picked(items, s, positions, V, m) BY <3>4, <3>5, <3>6, <3>7 DEF Picked, now
    <3> QED BY <2>2, <3>8
  <2>7. CASE m \notin positions
    <3>1. items[m] = items[m - 1] BY <1>9, <2>4, <2>7 DEF next
    <3>2. now = before BY <2>4, <2>7
    <3>3. Picked(items, s, positions, V, m) BY <2>5, <3>1, <3>2 DEF Picked
    <3> QED BY <2>2, <3>3
  <2> QED BY <2>6, <2>7
<1>11. Picked(items, s, positions, V, n) BY <1>0, <1>10
<1>12. positions \cap (1..n) = positions BY <1>0
<1> QED BY <1>8, <1>11, <1>12 DEF Picked

\* A sequence has no more different items than items.
LEMMA FewerDifferent ==
  ASSUME NEW s, NEW positions, IsFiniteSet(positions)
  PROVE  /\ IsFiniteSet({s[i] : i \in positions})
         /\ Cardinality({s[i] : i \in positions}) <= Cardinality(positions)
<1> DEFINE f == [i \in positions |-> s[i]]
           T == {s[i] : i \in positions}
<1>1. f \in Surjection(positions, T)
  <2>1. f \in [positions -> T] OBVIOUS
  <2>2. \A t \in T : \E i \in positions : f[i] = t OBVIOUS
  <2> HIDE DEF f, T
  <2> QED BY <2>1, <2>2 DEF Surjection
<1> HIDE DEF f
<1> QED BY <1>1, FS_Surjection

-----------------------------------------------------------------------------
(* The winner *)

Beats(p, q) == Score[p] > Score[q] \/ (Score[p] = Score[q] /\ p <= q)

\* There is a winner: the row that the fewest beat.
LEMMA WinnerBeatsAll ==
  ASSUME NEW rows, ToSet(rows) \subseteq Params, ToSet(rows) # {}
  PROVE  Winner(rows) \in ToSet(rows)
<1> DEFINE S == ToSet(rows)
           Above(p) == {q \in S : Beats(q, p)}
           C == {Above(p) : p \in S}
<1>1. S \subseteq Params /\ S # {} /\ IsFiniteSet(S) BY WalkForwardAssumption, FS_Subset
<1>2. \A p \in S : p \in Nat /\ Score[p] \in Int BY <1>1, WalkForwardAssumption
<1>3. Winner(rows) = CHOOSE p \in S : \A q \in S : Beats(p, q) BY DEF Winner, Beats
<1> HIDE DEF S
<1>4. PICK A \in C : \A B \in C : B \subseteq A => B = A
  <2>1. C \in SUBSET (SUBSET S) /\ C # {} BY <1>1
  <2> HIDE DEF C
  <2> QED BY <1>1, <2>1, SubsetMin
<1>5. PICK p \in S : A = Above(p) BY <1>4
<1>6. ASSUME NEW q \in S, ~Beats(p, q) PROVE FALSE
  <2>1. Beats(q, p) BY <1>2, <1>6 DEF Beats
  <2>2. \A r \in S : Beats(r, q) => Beats(r, p) BY <1>2, <2>1 DEF Beats
  <2>3. Above(q) \subseteq Above(p) BY <2>2
  <2>4. Above(q) = Above(p) BY <1>4, <1>5, <2>3
  <2>5. p \in Above(p) BY <1>2 DEF Beats
  <2> QED BY <1>6, <2>4, <2>5
<1>7. \E r \in S : \A q \in S : Beats(r, q) BY <1>6
<1> HIDE DEF Above, C
<1> QED BY <1>3, <1>7 DEF S

-----------------------------------------------------------------------------
(* Types.  A search is one of the folds or the holdout's, so that the next   *)
(* fold is one more at the most, and its draw is one that may be proposed.   *)

SearchOK == phase = "search" => draw \in Draws /\ fold <= FoldCount

TypeInv == TypeOK /\ SearchOK

Places == {"waiting", "running", "finished", "collected"}

LEMMA IdleIs == Idle = [a \in Places |-> {}]
BY DEF Idle, Places

LEMMA CountTyped == ASSUME w \in Windows PROVE FoldCount \in Nat
<1>1. RegionEnd(w) - w.start \in Int BY WalkForwardAssumption DEF Window, RegionEnd
<1>2. IsFiniteSet(0..(RegionEnd(w) - w.start)) BY <1>1, FS_Interval
<1>3. FoldsOf(w) \subseteq 0..(RegionEnd(w) - w.start) BY DEF FoldsOf
<1>4. IsFiniteSet(FoldsOf(w)) BY <1>2, <1>3, FS_Subset
<1> QED BY <1>4, FS_CardinalityType DEF FoldCount

\* The positions of a draw are finitely many.
LEMMA DrawTyped ==
  ASSUME draw \in Draws
  PROVE  /\ draw \in Seq(Params) /\ DOMAIN draw = 1..Len(draw) /\ Len(draw) \in Nat
         /\ IsFiniteSet(DOMAIN draw) /\ ToSet(draw) \subseteq Params
<1>1. draw \in Seq(Params) BY WalkForwardAssumption
<1>2. DOMAIN draw = 1..Len(draw) /\ Len(draw) \in Nat BY <1>1, LenProperties
<1>3. \A i \in DOMAIN draw : draw[i] \in Params BY <1>1, <1>2, ElementOfSeq
<1>4. IsFiniteSet(1..Len(draw)) BY <1>2, FS_Interval
<1> QED BY <1>1, <1>2, <1>3, <1>4 DEF ToSet

\* Where each kind of row stands in the draw.
StoredAt   == {i \in DOMAIN draw : Answered(draw[i])}
SucceedsAt == {i \in DOMAIN draw : Succeeds(draw[i])}
FirstAt    == {i \in DOMAIN draw : \A j \in 1..(i - 1) : draw[j] # draw[i]}
ReturnedAt == {i \in FirstAt : draw[i] \in pool["collected"] \ unsound}

LEMMA PooledRowsAre ==
  PooledRows = ItemsAt(draw, StoredAt) \o ItemsAt(draw, ReturnedAt)
BY DEF PooledRows, StoredAt, FirstAt, ReturnedAt

LEMMA ToSetOfConcat ==
  ASSUME NEW V, NEW a \in Seq(V), NEW b \in Seq(V)
  PROVE  /\ a \o b \in Seq(V) /\ Len(a \o b) = Len(a) + Len(b)
         /\ ToSet(a \o b) = ToSet(a) \cup ToSet(b)
<1>1. a \o b \in Seq(V) /\ Len(a \o b) = Len(a) + Len(b) BY ConcatProperties
<1>2. Range(a \o b) = Range(a) \cup Range(b) BY RangeConcatenation
<1>3. \A c : Range(c) = ToSet(c) BY DEF Range, ToSet
<1> QED BY <1>1, <1>2, <1>3

LEMMA SequentialRowsTyped ==
  ASSUME draw \in Draws
  PROVE  /\ SequentialRows \in Seq(Params)
         /\ ToSet(SequentialRows) = {draw[i] : i \in SucceedsAt}
         /\ Len(SequentialRows) = Cardinality(SucceedsAt)
<1>1. SequentialRows = ItemsAt(draw, SucceedsAt) BY DEF SequentialRows, SucceedsAt
<1>2. SucceedsAt \in SUBSET (DOMAIN draw) BY DEF SucceedsAt
<1> QED BY <1>1, <1>2, DrawTyped, ItemsAtPositions

LEMMA PooledRowsTyped ==
  ASSUME draw \in Draws
  PROVE  /\ PooledRows \in Seq(Params)
         /\ ToSet(PooledRows) = {draw[i] : i \in StoredAt} \cup {draw[i] : i \in ReturnedAt}
         /\ Len(PooledRows) = Cardinality(StoredAt) + Cardinality(ReturnedAt)
<1>1. StoredAt \in SUBSET (DOMAIN draw) /\ ReturnedAt \in SUBSET (DOMAIN draw)
  BY DEF StoredAt, ReturnedAt, FirstAt
<1>2. /\ ItemsAt(draw, StoredAt) \in Seq(Params)
      /\ ToSet(ItemsAt(draw, StoredAt)) = {draw[i] : i \in StoredAt}
      /\ Len(ItemsAt(draw, StoredAt)) = Cardinality(StoredAt)
  BY <1>1, DrawTyped, ItemsAtPositions
<1>3. /\ ItemsAt(draw, ReturnedAt) \in Seq(Params)
      /\ ToSet(ItemsAt(draw, ReturnedAt)) = {draw[i] : i \in ReturnedAt}
      /\ Len(ItemsAt(draw, ReturnedAt)) = Cardinality(ReturnedAt)
  BY <1>1, DrawTyped, ItemsAtPositions
<1> DEFINE a == ItemsAt(draw, StoredAt)
           b == ItemsAt(draw, ReturnedAt)
<1>4. PooledRows = a \o b BY PooledRowsAre
<1> HIDE DEF a, b
<1>5. a \in Seq(Params) /\ b \in Seq(Params) BY <1>2, <1>3 DEF a, b
<1>6. /\ a \o b \in Seq(Params) /\ Len(a \o b) = Len(a) + Len(b)
      /\ ToSet(a \o b) = ToSet(a) \cup ToSet(b)
  BY <1>5, ToSetOfConcat
<1>7. /\ ToSet(a) = {draw[i] : i \in StoredAt} /\ Len(a) = Cardinality(StoredAt)
      /\ ToSet(b) = {draw[i] : i \in ReturnedAt} /\ Len(b) = Cardinality(ReturnedAt)
  BY <1>2, <1>3 DEF a, b
<1> QED BY <1>4, <1>6, <1>7

LEMMA RowsTyped == ASSUME draw \in Draws PROVE Rows \in Seq(Params)
BY SequentialRowsTyped, PooledRowsTyped DEF Rows

\* A row that stands is of a candidate.
LEMMA RowsNotEmpty ==
  ASSUME NEW rows \in Seq(Params), rows # <<>>
  PROVE  Winner(rows) \in Params /\ Len(rows) \in Nat \ {0}
<1>1. Len(rows) \in Nat \ {0} /\ DOMAIN rows = 1..Len(rows) BY LenProperties, EmptySeq
<1>2. \A i \in DOMAIN rows : rows[i] \in Params BY <1>1, ElementOfSeq
<1>3. ToSet(rows) \subseteq Params /\ rows[1] \in ToSet(rows) BY <1>1, <1>2 DEF ToSet
<1> QED BY <1>1, <1>3, WinnerBeatsAll

LEMMA ScoredTyped ==
  ASSUME TypeInv, phase = "search"
  PROVE  Scored(Rows) \in Seq(Result)
<1>1. draw \in Draws /\ results \in Seq(Result) /\ fold \in Nat
  <2>1. FoldCount \in Nat BY CountTyped DEF TypeInv, TypeOK
  <2> QED BY <2>1 DEF TypeInv, TypeOK, SearchOK
<1>2. Rows \in Seq(Params) BY <1>1, RowsTyped
<1>3. ASSUME Rows # <<>>
      PROVE  Append(results, [fold |-> fold, best |-> Winner(Rows), trials |-> Len(Rows)]) \in Seq(Result)
  <2>1. Winner(Rows) \in Params /\ Len(Rows) \in Nat \ {0} BY <1>2, <1>3, RowsNotEmpty
  <2>2. [fold |-> fold, best |-> Winner(Rows), trials |-> Len(Rows)] \in Result
    BY <1>1, <2>1 DEF Result
  <2> QED BY <1>1, <2>2, AppendProperties
<1> QED BY <1>1, <1>3 DEF Scored

LEMMA InitTyped == Init => TypeInv
<1> SUFFICES ASSUME Init PROVE TypeInv OBVIOUS
<1>1. FoldCount \in Nat BY CountTyped DEF Init
<1>2. <<>> \in Seq(Result) BY EmptySeq
<1>3. MaxFaults \in Nat BY WalkForwardAssumption
<1>4. pool \in [Places -> SUBSET Params] /\ runs \in [Params -> Nat] BY IdleIs DEF Init
<1>5. phase \in {"fold", "refused"} BY DEF Init
<1>6. fold \in 0..(FoldCount + 1) /\ faults \in 0..MaxFaults BY <1>1, <1>3 DEF Init
<1>7. TypeOK BY <1>2, <1>4, <1>5, <1>6 DEF Init, TypeOK, Places
<1> QED BY <1>5, <1>7 DEF TypeInv, SearchOK

LEMMA TypesKept == TypeInv /\ [Next]_vars => TypeInv'
<1> SUFFICES ASSUME TypeInv, [Next]_vars PROVE TypeInv' OBVIOUS
<1> USE DEF TypeInv, TypeOK, SearchOK
<1>0. FoldCount \in Nat BY CountTyped
<1>a. ASSUME UNCHANGED asked PROVE FoldCount' = FoldCount /\ Parallel' = Parallel
  BY <1>a DEF FoldCount, asked, Parallel
<1> DEFINE Unmoved == UNCHANGED <<phase, fold, draw, results>> /\ UNCHANGED asked
<1>1. CASE StartSearch
  <2>1. UNCHANGED asked /\ draw' \in Draws /\ UNCHANGED <<fold, results, faults>> /\ phase' = "search"
    BY <1>1 DEF StartSearch
  <2>2. fold <= FoldCount BY <1>0, <1>1 DEF StartSearch, Searches
  <2>3. Requests(draw') \subseteq Params
    <3>1. \A d \in Draws : ToSet(d) \subseteq Params
      <4> TAKE d \in Draws
      <4>1. d \in Seq(Params) BY WalkForwardAssumption
      <4>2. DOMAIN d = 1..Len(d) BY <4>1, LenProperties
      <4> QED BY <4>1, <4>2, ElementOfSeq DEF ToSet
    <3> QED BY <2>1, <3>1 DEF Requests
  <2>4. pool' \in [Places -> SUBSET Params] /\ runs' \in [Params -> Nat] /\ cut' \in BOOLEAN
    BY <1>1, <2>3, IdleIs DEF StartSearch, Places
  <2> QED BY <1>0, <1>a, <2>1, <2>2, <2>4 DEF asked, Places
<1>2. CASE EndSearch
  <2>1. Scored(Rows) \in Seq(Result) BY <1>2, ScoredTyped DEF EndSearch
  <2>2. fold' \in 0..(FoldCount + 1) BY <1>0, <1>2 DEF EndSearch
  <2>3. pool' \in [Places -> SUBSET Params] /\ runs' \in [Params -> Nat] BY <1>2, IdleIs DEF EndSearch
  <2> QED BY <1>2, <1>a, <2>1, <2>2, <2>3 DEF EndSearch, asked, Places
<1>3. CASE Finish BY <1>3, <1>a DEF Finish, asked
<1>4. CASE Interrupt
  <2>1. pool' \in [Places -> SUBSET Params] BY <1>4 DEF Interrupt, Places
  <2>2. faults' \in 0..MaxFaults BY <1>4, WalkForwardAssumption DEF Interrupt, Fault
  <2>3. cut' \in BOOLEAN /\ phase' \in {"search", "raised"} /\ (phase' = "search" => phase = "search")
    BY <1>4 DEF Interrupt
  <2>4. UNCHANGED <<asked, fold, draw, runs, results>> BY <1>4 DEF Interrupt
  <2> QED BY <1>a, <2>1, <2>2, <2>3, <2>4 DEF asked, Places
<1>5. CASE WorkerDies
  <2>1. faults' \in 0..MaxFaults BY <1>5, WalkForwardAssumption DEF WorkerDies, Fault
  <2> QED BY <1>5, <1>a, <2>1 DEF WorkerDies, asked
<1>6. ASSUME NEW p \in Params, Take(p) \/ Return(p) \/ Collect(p) PROVE TypeInv'
  <2>1. UNCHANGED <<asked, phase, fold, draw, cut, results, faults>>
    BY <1>6 DEF Take, Return, Collect, Move
  <2>2. pool' \in [Places -> SUBSET Params]
    BY <1>6 DEF Take, Return, Collect, Move, Places
  <2>3. runs' \in [Params -> Nat] BY <1>6 DEF Take, Return, Collect
  <2> QED BY <1>a, <2>1, <2>2, <2>3 DEF asked, Places
<1>7. CASE UNCHANGED vars BY <1>7, <1>a DEF vars, asked
<1> QED BY <1>1, <1>2, <1>3, <1>4, <1>5, <1>6, <1>7 DEF Next

\* Every reachable state of a validation is well typed: in particular a fold that
\* has rows has a winner among its candidates, ties included.
THEOREM TypeCorrect == Spec => []TypeOK
<1>1. TypeInv => TypeOK BY DEF TypeInv
<1> QED BY <1>1, InitTyped, TypesKept, PTL DEF Spec

-----------------------------------------------------------------------------
(* The pool.  Until it is interrupted, each request of a search is in one    *)
(* place, and has been run once if it is past the first.                     *)

HandedOut ==
  /\ \A a, b \in Places : a # b => pool[a] \cap pool[b] = {}
  /\ UNION {pool[a] : a \in Places} = Requests(draw)
  /\ runs = [p \in Params |-> IF p \in Requests(draw) \ pool["waiting"] THEN 1 ELSE 0]

PoolInv == phase = "search" /\ Parallel /\ ~cut => HandedOut

LEMMA PoolKept == TypeInv /\ PoolInv /\ [Next]_vars => PoolInv'
<1> SUFFICES ASSUME TypeInv, PoolInv, [Next]_vars, phase' = "search", Parallel', ~cut'
             PROVE  HandedOut'
  BY DEF PoolInv
<1>1. CASE StartSearch
  <2>1. Parallel /\ UNCHANGED asked BY <1>1 DEF StartSearch, Parallel, asked
  <2>2. pool' = [a \in Places |-> IF a = "waiting" THEN Requests(draw') ELSE {}]
    BY <1>1, <2>1, IdleIs DEF StartSearch, Places
  <2>3. Requests(draw)' = Requests(draw') BY <2>1 DEF Requests, Answered, asked
  <2>4. UNION {pool'[a] : a \in Places} = Requests(draw') BY <2>2 DEF Places
  <2>5. \A a, b \in Places : a # b => pool'[a] \cap pool'[b] = {} BY <2>2
  <2>6. Requests(draw') \ pool'["waiting"] = {} BY <2>2 DEF Places
  <2>7. runs' = [p \in Params |-> 0] BY <1>1 DEF StartSearch
  <2> QED BY <2>3, <2>4, <2>5, <2>6, <2>7 DEF HandedOut
<1>2. CASE EndSearch BY <1>2 DEF EndSearch
<1>3. CASE Finish BY <1>3 DEF Finish
<1>4. CASE Interrupt BY <1>4 DEF Interrupt, Parallel, asked
<1>5. CASE WorkerDies BY <1>5 DEF WorkerDies
<1>6. ASSUME NEW p \in Params, NEW from \in Places, NEW to \in Places, from # to, to # "waiting",
             Move(p, from, to),
             runs' = IF from = "waiting" THEN [runs EXCEPT ![p] = @ + 1] ELSE runs
      PROVE  HandedOut'
  <2>1. UNCHANGED <<asked, phase, draw, cut>> /\ p \in pool[from] BY <1>6 DEF Move
  <2>2. HandedOut BY <2>1, <1>6 DEF PoolInv, Parallel, asked
  <2>3. Requests(draw)' = Requests(draw) BY <2>1 DEF Requests, Answered, asked
  <2>4. pool \in [Places -> SUBSET Params] /\ runs \in [Params -> Nat]
    BY DEF TypeInv, TypeOK, Places
  <2>5. \A a \in Places : pool'[a] = IF a = from THEN pool[a] \ {p}
                                    ELSE IF a = to THEN pool[a] \cup {p} ELSE pool[a]
    BY <1>6, <2>4 DEF Move
  <2>6. \A a \in Places : p \in pool[a] => a = from BY <2>1, <2>2 DEF HandedOut
  <2>7. \A a, b \in Places : a # b => pool'[a] \cap pool'[b] = {}
    BY <2>2, <2>5, <2>6 DEF HandedOut
  <2>8. UNION {pool'[a] : a \in Places} = Requests(draw)
    <3>1. \A q \in UNION {pool'[a] : a \in Places} : q \in UNION {pool[a] : a \in Places} BY <2>1, <2>5
    <3>2. \A q \in UNION {pool[a] : a \in Places} : q \in UNION {pool'[a] : a \in Places}
      <4> SUFFICES ASSUME NEW a \in Places, NEW q \in pool[a] PROVE \E b \in Places : q \in pool'[b] OBVIOUS
      <4>1. CASE q = p
        <5>1. q \in pool'[to] BY <1>6, <2>5, <4>1
        <5> QED BY <5>1
      <4>2. CASE q # p
        <5>1. q \in pool'[a] BY <2>5, <4>2
        <5> QED BY <5>1
      <4> QED BY <4>1, <4>2
    <3> QED BY <2>2, <3>1, <3>2 DEF HandedOut
  <2>9. runs' = [q \in Params |-> IF q \in Requests(draw) \ pool'["waiting"] THEN 1 ELSE 0]
    <3>1. p \in Requests(draw) BY <2>1, <2>2 DEF HandedOut
    <3>2. CASE from = "waiting"
      <4>1. pool'["waiting"] = pool["waiting"] \ {p} BY <2>5, <3>2
      <4>2. runs[p] = 0 BY <2>1, <2>2, <3>2 DEF HandedOut
      <4>3. runs' = [runs EXCEPT ![p] = @ + 1] BY <1>6, <3>2
      <4>4. runs' = [q \in Params |-> IF q = p THEN 1 ELSE runs[q]]
        <5>1. runs' = [q \in Params |-> IF q = p THEN runs[p] + 1 ELSE runs[q]] BY <2>4, <4>3
        <5>2. runs[p] + 1 = 1 BY <4>2
        <5> QED BY <5>1, <5>2
      <4> QED BY <2>2, <3>1, <4>1, <4>4 DEF HandedOut
    <3>3. CASE from # "waiting"
      <4>1. pool'["waiting"] = pool["waiting"] BY <1>6, <2>5, <3>3 DEF Places
      <4> QED BY <1>6, <2>2, <3>3, <4>1 DEF HandedOut
    <3> QED BY <3>2, <3>3
  <2> QED BY <2>3, <2>7, <2>8, <2>9 DEF HandedOut
<1>7. ASSUME NEW p \in Params, Take(p) PROVE HandedOut'
  BY <1>6, <1>7 DEF Take, Places
<1>8. ASSUME NEW p \in Params, Return(p) PROVE HandedOut'
  BY <1>6, <1>8 DEF Return, Places
<1>9. ASSUME NEW p \in Params, Collect(p) PROVE HandedOut'
  BY <1>6, <1>9 DEF Collect, Places
<1>10. CASE UNCHANGED vars
  BY <1>10 DEF vars, asked, PoolInv, Parallel, HandedOut, Requests, Answered
<1> QED BY <1>1, <1>2, <1>3, <1>4, <1>5, <1>7, <1>8, <1>9, <1>10 DEF Next

\* Once all requests are back, the pool's rows are the sequential ones but for
\* their order and the candidates proposed twice.
LEMMA RowsAgree ==
  ASSUME draw \in Draws, pool["collected"] = Requests(draw)
  PROVE  /\ ToSet(PooledRows) = ToSet(SequentialRows)
         /\ Len(PooledRows) >= Cardinality(ToSet(SequentialRows))
         /\ Len(PooledRows) <= Len(SequentialRows)
<1> DEFINE D == DOMAIN draw
<1>1. IsFiniteSet(D) /\ D = 1..Len(draw) /\ Len(draw) \in Nat BY DrawTyped
<1>2. /\ StoredAt \subseteq SucceedsAt /\ ReturnedAt \subseteq SucceedsAt
      /\ StoredAt \cap ReturnedAt = {} /\ SucceedsAt \subseteq D
  BY DEF StoredAt, ReturnedAt, SucceedsAt, Succeeds, Answered, Requests, FirstAt
<1>3. IsFiniteSet(SucceedsAt) /\ IsFiniteSet(StoredAt) /\ IsFiniteSet(ReturnedAt)
      /\ IsFiniteSet(StoredAt \cup ReturnedAt)
  BY <1>1, <1>2, FS_Subset, FS_Union
<1>4. \A i \in D : \E j \in FirstAt : draw[j] = draw[i]
  <2> TAKE i \in D
  <2> DEFINE Same == {j \in D : draw[j] = draw[i]}
  <2>1. PICK m \in Same : \A j \in Same : m <= j
    <3>1. Same \subseteq Nat /\ Same # {} BY <1>1
    <3> HIDE DEF Same
    <3> QED BY <3>1, NatMin
  <2>2. \A j \in 1..(m - 1) : draw[j] # draw[m] BY <1>1, <2>1
  <2> QED BY <2>1, <2>2 DEF FirstAt
<1>5. {draw[i] : i \in StoredAt} \cup {draw[i] : i \in ReturnedAt} = {draw[i] : i \in SucceedsAt}
  <2> SUFFICES ASSUME NEW i \in SucceedsAt, i \notin StoredAt
               PROVE  \E j \in ReturnedAt : draw[j] = draw[i]
    BY <1>2
  <2>1. i \in D /\ draw[i] \in ToSet(draw) /\ ~Answered(draw[i]) /\ draw[i] \notin unsound
    BY DEF SucceedsAt, StoredAt, Succeeds, ToSet
  <2>2. draw[i] \in Requests(draw) BY <2>1 DEF Requests
  <2>3. PICK j \in FirstAt : draw[j] = draw[i] BY <1>4, <2>1
  <2> QED BY <2>1, <2>2, <2>3 DEF ReturnedAt
<1>6. Cardinality(StoredAt \cup ReturnedAt) = Cardinality(StoredAt) + Cardinality(ReturnedAt)
  <2>1. Cardinality(StoredAt \cap ReturnedAt) = 0 BY <1>2, FS_EmptySet
  <2>2. Cardinality(StoredAt) \in Nat /\ Cardinality(ReturnedAt) \in Nat BY <1>3, FS_CardinalityType
  <2>3. Cardinality(StoredAt \cup ReturnedAt)
          = Cardinality(StoredAt) + Cardinality(ReturnedAt) - Cardinality(StoredAt \cap ReturnedAt)
    BY <1>3, FS_Union
  <2> QED BY <2>1, <2>2, <2>3
<1>7. Cardinality(StoredAt \cup ReturnedAt) <= Cardinality(SucceedsAt)
  BY <1>2, <1>3, FS_Subset
<1>8. Cardinality({draw[i] : i \in StoredAt \cup ReturnedAt}) <= Cardinality(StoredAt \cup ReturnedAt)
  BY <1>3, FewerDifferent
<1>9. {draw[i] : i \in StoredAt \cup ReturnedAt}
        = {draw[i] : i \in StoredAt} \cup {draw[i] : i \in ReturnedAt}
  OBVIOUS
<1> QED BY <1>5, <1>6, <1>7, <1>8, <1>9, SequentialRowsTyped, PooledRowsTyped

\* However the pool interleaves, an uninterrupted search has the rows, the winner
\* and the count of the sequential one and runs each candidate it must once.
THEOREM PoolIsSequential == Spec => []SearchIsScheduleFree
<1>1. TypeInv /\ PoolInv => SearchIsScheduleFree
  <2> SUFFICES ASSUME TypeInv, PoolInv, phase = "search", Over, ~cut
               PROVE  /\ ToSet(Rows) = ToSet(SequentialRows)
                      /\ Rows # <<>> => Winner(Rows) = Winner(SequentialRows)
                      /\ Len(Rows) >= Cardinality(ToSet(SequentialRows)) /\ Len(Rows) <= Len(SequentialRows)
                      /\ Parallel => runs = [p \in Params |-> IF p \in ToSet(draw) /\ ~Answered(p) THEN 1 ELSE 0]
    BY DEF SearchIsScheduleFree
  <2>1. draw \in Draws BY DEF TypeInv, SearchOK
  <2>2. CASE Parallel
    <3>1. Rows = PooledRows /\ pool["collected"] = Requests(draw) BY <2>2 DEF Rows, Over
    <3>2. HandedOut BY <2>2 DEF PoolInv
    <3>3. /\ ToSet(Rows) = ToSet(SequentialRows)
          /\ Len(Rows) >= Cardinality(ToSet(SequentialRows)) /\ Len(Rows) <= Len(SequentialRows)
      BY <2>1, <3>1, RowsAgree
    <3>4. Winner(Rows) = Winner(SequentialRows) BY <3>3 DEF Winner
    <3>5. pool["waiting"] = {}
      <4>1. pool["waiting"] \subseteq Requests(draw) BY <3>2 DEF HandedOut, Places
      <4>2. pool["waiting"] \cap pool["collected"] = {} BY <3>2 DEF HandedOut, Places
      <4> QED BY <3>1, <4>1, <4>2
    <3>6. \A p : p \in Requests(draw) \ pool["waiting"] <=> p \in ToSet(draw) /\ ~Answered(p)
      BY <3>5 DEF Requests
    <3>7. runs = [p \in Params |-> IF p \in ToSet(draw) /\ ~Answered(p) THEN 1 ELSE 0]
      BY <3>2, <3>6 DEF HandedOut
    <3> QED BY <3>3, <3>4, <3>7
  <2>3. CASE ~Parallel
    <3>1. Rows = SequentialRows BY <2>3 DEF Rows
    <3>2. /\ SequentialRows \in Seq(Params) /\ Len(SequentialRows) = Cardinality(SucceedsAt)
          /\ ToSet(SequentialRows) = {draw[i] : i \in SucceedsAt}
      BY <2>1, SequentialRowsTyped
    <3>3. IsFiniteSet(SucceedsAt)
      <4>1. SucceedsAt \subseteq DOMAIN draw BY DEF SucceedsAt
      <4> QED BY <2>1, <4>1, DrawTyped, FS_Subset
    <3>4. Cardinality({draw[i] : i \in SucceedsAt}) <= Cardinality(SucceedsAt) BY <3>3, FewerDifferent
    <3>5. Len(SequentialRows) \in Nat BY <3>2, LenProperties
    <3> QED BY <2>3, <3>1, <3>2, <3>4, <3>5
  <2> QED BY <2>2, <2>3
<1>2. Init => PoolInv BY DEF Init, PoolInv
<1> QED BY <1>1, <1>2, InitTyped, TypesKept, PoolKept, PTL DEF Spec
=============================================================================
