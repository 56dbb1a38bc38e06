------------------------ MODULE PositionLedger_proofs ------------------------
(***************************************************************************)
(* What holds of the position ledger for any symbols, orders, sizes and    *)
(* any number of records: the types; that the fold the trade clock carries *)
(* is the replay of the file, whatever was written and torn; that an       *)
(* order's report and the replay agree; and that the replay is the         *)
(* position of every symbol no fault has hit.                              *)
(***************************************************************************)
EXTENDS PositionLedger, DataInduction, SequenceTheorems

-----------------------------------------------------------------------------
(* The lines of a file *)

Fills == {FillRecord(o, SymbolOf[o], q, BasisOf[o]) : o \in Orders, q \in Int}

Settlements ==
  {FlattenRecord(s) : s \in Symbols} \cup {AdoptRecord(s, q) : s \in Symbols, q \in Int}

Records == Fills \cup Settlements
Lines   == Records \cup {TornLine, GarbledLine}

IsFill(r) ==
  /\ r.event = "fill" /\ r.order \in Orders
  /\ r.symbol = SymbolOf[r.order] /\ r.symbol \in Symbols
  /\ r.basis = BasisOf[r.order] /\ r.qty \in Int

IsSettlement(r) ==
  /\ r.symbol \in Symbols
  /\ r.event = "flattened" \/ (r.event = "adopt" /\ r.qty \in Int)

LEMMA FillIs == ASSUME NEW r \in Fills PROVE IsFill(r)
BY LedgerAssumption DEF Fills, FillRecord, IsFill

LEMMA SettlementIs == ASSUME NEW r \in Settlements PROVE IsSettlement(r)
<1>1. ASSUME NEW s \in Symbols, r = FlattenRecord(s) PROVE IsSettlement(r)
  BY <1>1 DEF FlattenRecord, IsSettlement
<1>2. ASSUME NEW s \in Symbols, NEW q \in Int, r = AdoptRecord(s, q) PROVE IsSettlement(r)
  BY <1>2 DEF AdoptRecord, IsSettlement
<1> QED BY <1>1, <1>2 DEF Settlements

LEMMA LineIs ==
  ASSUME NEW r \in Lines
  PROVE  IsFill(r) \/ IsSettlement(r) \/ r.event \in {"torn", "garbled"}
BY FillIs, SettlementIs DEF Lines, Records, TornLine, GarbledLine

\* What a line is to a symbol it may reset.
LEMMA ResetIs ==
  ASSUME NEW r \in Lines, NEW s
  PROVE  IsReset(r, s) <=> IsSettlement(r) /\ r.symbol = s
<1>1. CASE IsFill(r) BY <1>1 DEF IsFill, IsSettlement, IsReset, Resets
<1>2. CASE IsSettlement(r) BY <1>2 DEF IsSettlement, IsReset, Resets
<1>3. CASE r.event \in {"torn", "garbled"} BY <1>3 DEF IsSettlement, IsReset, Resets
<1> QED BY <1>1, <1>2, <1>3, LineIs

LEMMA AppendIs ==
  ASSUME NEW V, NEW file \in Seq(V), NEW r \in V
  PROVE  /\ Len(file) \in Nat /\ DOMAIN file = 1..Len(file)
         /\ \A i \in 1..Len(file) : file[i] \in V /\ Append(file, r)[i] = file[i]
         /\ Append(file, r) \in Seq(V) /\ Len(Append(file, r)) = Len(file) + 1
         /\ DOMAIN Append(file, r) = 1..(Len(file) + 1)
         /\ Append(file, r)[Len(file) + 1] = r
BY AppendProperties, LenProperties, ElementOfSeq

-----------------------------------------------------------------------------
(* The last reset of a symbol *)

IsLast(file, s, i) ==
  /\ i \in 0..Len(file)
  /\ i # 0 => IsReset(file[i], s)
  /\ \A j \in i + 1..Len(file) : ~IsReset(file[j], s)

LEMMA LastResetIs ==
  ASSUME NEW file, Len(file) \in Nat, NEW s
  PROVE  /\ IsLast(file, s, LastReset(file, s))
         /\ \A i : IsLast(file, s, i) => i = LastReset(file, s)
<1> DEFINE After == {i \in 0..Len(file) : \A j \in i + 1..Len(file) : ~IsReset(file[j], s)}
<1>1. PICK m \in After : \A i \in After : m <= i
  <2>1. Len(file) \in After OBVIOUS
  <2>2. After \subseteq Nat OBVIOUS
  <2> HIDE DEF After
  <2> QED BY <2>1, <2>2, NatMin
<1>2. m # 0 => IsReset(file[m], s)
  <2> SUFFICES ASSUME m # 0, ~IsReset(file[m], s) PROVE FALSE OBVIOUS
  <2>1. m - 1 \in 0..Len(file) /\ m - 1 + 1 = m /\ ~(m <= m - 1) BY <1>1
  <2>2. \A j \in m..Len(file) : j = m \/ j \in m + 1..Len(file) BY <1>1
  <2>3. \A j \in m - 1 + 1..Len(file) : ~IsReset(file[j], s) BY <1>1, <2>1, <2>2
  <2>4. m - 1 \in After BY <2>1, <2>3
  <2> HIDE DEF After
  <2> QED BY <1>1, <2>1, <2>4
<1>3. IsLast(file, s, m) BY <1>1, <1>2 DEF IsLast
<1>5. IsLast(file, s, LastReset(file, s)) BY <1>3 DEF LastReset, IsLast
<1>6. ASSUME NEW i, NEW k, IsLast(file, s, i), IsLast(file, s, k), i < k PROVE FALSE
  <2>1. k \in i + 1..Len(file) /\ k # 0 BY <1>6 DEF IsLast
  <2> QED BY <1>6, <2>1 DEF IsLast
<1>7. ASSUME NEW i, IsLast(file, s, i) PROVE i = LastReset(file, s)
  <2>1. i \in Int /\ LastReset(file, s) \in Int BY <1>5, <1>7 DEF IsLast
  <2> DEFINE k == LastReset(file, s)
  <2>2. ~(i < k) /\ ~(k < i) BY <1>5, <1>6, <1>7
  <2> HIDE DEF k
  <2> QED BY <2>1, <2>2 DEF k
<1> QED BY <1>5, <1>7

LEMMA LastResetAppend ==
  ASSUME NEW file \in Seq(Lines), NEW r \in Lines, NEW s
  PROVE  LastReset(Append(file, r), s) =
           IF IsReset(r, s) THEN Len(file) + 1 ELSE LastReset(file, s)
<1> DEFINE n == Len(file)
           longer == Append(file, r)
<1>1. /\ n \in Nat /\ Len(longer) = n + 1 /\ longer[n + 1] = r
      /\ \A i \in 1..n : longer[i] = file[i]
  BY AppendIs
<1> HIDE DEF n, longer
<1>2. CASE IsReset(r, s)
  <2>1. IsLast(longer, s, n + 1) BY <1>1, <1>2 DEF IsLast
  <2> QED BY <1>1, <1>2, <2>1, LastResetIs DEF n, longer
<1>3. CASE ~IsReset(r, s)
  <2> DEFINE m == LastReset(file, s)
  <2>1. IsLast(file, s, m) BY <1>1, LastResetIs DEF n
  <2> HIDE DEF m
  <2>2. m \in 0..n /\ m \in 0..n + 1 /\ (m # 0 => m \in 1..n) BY <1>1, <2>1 DEF IsLast, n
  <2>3. m # 0 => IsReset(longer[m], s) BY <1>1, <2>1, <2>2 DEF IsLast
  <2>4. \A j \in m + 1..n + 1 : ~IsReset(longer[j], s)
    <3> TAKE j \in m + 1..n + 1
    <3>1. j = n + 1 \/ (j \in m + 1..n /\ j \in 1..n) BY <1>1, <2>2
    <3> QED BY <1>1, <1>3, <2>1, <3>1 DEF IsLast, n
  <2>5. IsLast(longer, s, m) BY <1>1, <2>2, <2>3, <2>4 DEF IsLast
  <2>6. m = LastReset(longer, s) BY <1>1, <2>5, LastResetIs
  <2> QED BY <1>3, <2>6 DEF m, longer
<1> QED BY <1>2, <1>3

LEMMA BaselineAppend ==
  ASSUME NEW file \in Seq(Lines), NEW r \in Lines, NEW s
  PROVE  Baseline(Append(file, r), s) =
           IF IsReset(r, s) THEN IF r.event = "adopt" THEN r.qty ELSE 0 ELSE Baseline(file, s)
<1> DEFINE n == Len(file)
           longer == Append(file, r)
           m == LastReset(file, s)
<1>1. /\ n \in Nat /\ longer[n + 1] = r
      /\ \A i \in 1..n : longer[i] = file[i]
  BY AppendIs
<1>2. LastReset(longer, s) = IF IsReset(r, s) THEN n + 1 ELSE m BY LastResetAppend
<1>3. m \in 0..n BY <1>1, LastResetIs DEF IsLast
<1> HIDE DEF n, longer, m
<1>4. CASE IsReset(r, s)
  <2>1. LastReset(longer, s) = n + 1 /\ n + 1 # 0 BY <1>1, <1>2, <1>4
  <2>2. Baseline(longer, s) = IF r.event = "adopt" THEN r.qty ELSE 0 BY <1>1, <2>1 DEF Baseline
  <2> QED BY <1>4, <2>2 DEF longer
<1>5. CASE ~IsReset(r, s)
  <2>1. LastReset(longer, s) = m BY <1>2, <1>5
  <2>2. m # 0 => longer[m] = file[m] BY <1>1, <1>3
  <2>3. Baseline(longer, s) = Baseline(file, s) BY <2>1, <2>2 DEF Baseline, m
  <2> QED BY <1>5, <2>3 DEF longer
<1> QED BY <1>4, <1>5

LEMMA BaselineTyped == ASSUME NEW file \in Seq(Lines), NEW s PROVE Baseline(file, s) \in Int
<1>1. Len(file) \in Nat /\ \A i \in 1..Len(file) : file[i] \in Lines BY LenProperties, ElementOfSeq
<1> DEFINE m == LastReset(file, s)
<1>2. IsLast(file, s, m) BY <1>1, LastResetIs
<1>3. m # 0 => m \in 1..Len(file) /\ IsReset(file[m], s) BY <1>1, <1>2 DEF IsLast
<1>4. ASSUME m # 0, file[m].event = "adopt" PROVE file[m].qty \in Int
  <2>1. IsSettlement(file[m]) BY <1>1, <1>3, <1>4, ResetIs
  <2> QED BY <1>4, <2>1 DEF IsSettlement
<1> QED BY <1>4 DEF Baseline

-----------------------------------------------------------------------------
(* The fills that stand *)

LEMMA StandingIs ==
  ASSUME NEW file \in Seq(Lines), NEW s
  PROVE  /\ \A i \in StandingFills(file, s) :
              i \in 1..Len(file) /\ IsFill(file[i]) /\ file[i].symbol = s /\ ~Superseded(file, i)
         /\ IsFiniteSet(StandingFills(file, s))
<1>1. Len(file) \in Nat /\ \A i \in 1..Len(file) : file[i] \in Lines BY LenProperties, ElementOfSeq
<1>2. LastReset(file, s) \in 0..Len(file) BY <1>1, LastResetIs DEF IsLast
<1>3. StandingFills(file, s) \subseteq 1..Len(file) BY <1>1, <1>2 DEF StandingFills
<1>4. IsFiniteSet(1..Len(file)) BY <1>1, FS_Interval
<1>5. IsFiniteSet(StandingFills(file, s)) BY <1>3, <1>4, FS_Subset
<1>6. ASSUME NEW i \in StandingFills(file, s)
      PROVE  i \in 1..Len(file) /\ IsFill(file[i]) /\ file[i].symbol = s /\ ~Superseded(file, i)
  <2>1. i \in 1..Len(file) /\ file[i].event = "fill" /\ file[i].symbol = s /\ ~Superseded(file, i)
    BY <1>3, <1>6 DEF StandingFills
  <2>2. ~IsSettlement(file[i]) BY <2>1 DEF IsSettlement
  <2> QED BY <1>1, <2>1, <2>2, LineIs
<1> QED BY <1>5, <1>6

Supersedes(r, earlier) ==
  IsFill(r) /\ r.basis = "cumulative" /\ earlier.basis = "cumulative" /\ r.order = earlier.order

LEMMA SupersededAppend ==
  ASSUME NEW file \in Seq(Lines), NEW r \in Lines
  PROVE  /\ \A i \in 1..Len(file) :
              Superseded(Append(file, r), i) <=> Superseded(file, i) \/ Supersedes(r, file[i])
         /\ ~Superseded(Append(file, r), Len(file) + 1)
<1> DEFINE n == Len(file)
           longer == Append(file, r)
<1>1. /\ n \in Nat /\ Len(longer) = n + 1 /\ longer[n + 1] = r
      /\ \A i \in 1..n : longer[i] = file[i]
  BY AppendIs
<1>2. IsFill(r) <=> r.event = "fill"
  BY LineIs DEF IsFill, IsSettlement
<1> HIDE DEF n, longer
<1>3. ASSUME NEW i \in 1..n
      PROVE  Superseded(longer, i) <=> Superseded(file, i) \/ Supersedes(r, file[i])
  <2>1. \A j : j \in i + 1..n + 1 <=> j \in i + 1..n \/ j = n + 1 BY <1>1
  <2>2. \A j \in i + 1..n : longer[j] = file[j] BY <1>1
  <2>3. longer[i] = file[i] BY <1>1
  <2> QED BY <1>1, <1>2, <2>1, <2>2, <2>3 DEF Superseded, Supersedes, n
<1>4. ~Superseded(longer, n + 1)
  <2>1. n + 1 + 1..n + 1 = {} BY <1>1
  <2> QED BY <1>1, <2>1 DEF Superseded
<1> QED BY <1>3, <1>4 DEF n, longer

\* What one more line makes of the standing fills of a symbol.
LEMMA StandingAppend ==
  ASSUME NEW file \in Seq(Lines), NEW r \in Lines, NEW s
  PROVE  StandingFills(Append(file, r), s) =
           IF IsReset(r, s) THEN {}
           ELSE {i \in StandingFills(file, s) : ~Supersedes(r, file[i])}
                  \cup (IF IsFill(r) /\ r.symbol = s THEN {Len(file) + 1} ELSE {})
<1> DEFINE n == Len(file)
           longer == Append(file, r)
           m == LastReset(file, s)
<1>1. /\ n \in Nat /\ Len(longer) = n + 1 /\ longer[n + 1] = r
      /\ \A i \in 1..n : longer[i] = file[i]
  BY AppendIs
<1>2. LastReset(longer, s) = IF IsReset(r, s) THEN n + 1 ELSE m BY LastResetAppend
<1>3. m \in 0..n BY <1>1, LastResetIs DEF IsLast
<1>4. IsFill(r) <=> r.event = "fill" BY LineIs DEF IsFill, IsSettlement
<1>5. /\ \A i \in 1..n : Superseded(longer, i) <=> Superseded(file, i) \/ Supersedes(r, file[i])
      /\ ~Superseded(longer, n + 1)
  BY SupersededAppend
<1>a. StandingFills(file, s) =
        {i \in m + 1..n : file[i].event = "fill" /\ file[i].symbol = s /\ ~Superseded(file, i)}
  BY DEF StandingFills
<1> HIDE DEF n, longer, m
<1>6. CASE IsReset(r, s)
  <2>1. LastReset(longer, s) + 1..Len(longer) = {} BY <1>1, <1>2, <1>6
  <2> QED BY <1>6, <2>1 DEF StandingFills, longer
<1>7. CASE ~IsReset(r, s)
  <2>1. \A i : i \in LastReset(longer, s) + 1..Len(longer) <=> i \in m + 1..n \/ i = n + 1
    BY <1>1, <1>2, <1>3, <1>7
  <2>2. \A i \in m + 1..n : i \in 1..n /\ i # n + 1 BY <1>1, <1>3
  <2>3. ASSUME NEW i
        PROVE  i \in StandingFills(longer, s) <=>
                 \/ i \in StandingFills(file, s) /\ ~Supersedes(r, file[i])
                 \/ IsFill(r) /\ r.symbol = s /\ i = n + 1
    <3>1. CASE i \in m + 1..n
      <4>1. i \in 1..n /\ longer[i] = file[i] /\ i # n + 1 BY <1>1, <2>2, <3>1
      <4>2. i \in StandingFills(longer, s)
              <=> file[i].event = "fill" /\ file[i].symbol = s /\ ~Superseded(longer, i)
        BY <2>1, <3>1, <4>1 DEF StandingFills
      <4> QED BY <1>5, <1>a, <3>1, <4>1, <4>2
    <3>2. CASE i = n + 1
      <4>1. i \notin m + 1..n BY <1>1, <3>2
      <4>2. i \in StandingFills(longer, s) <=> r.event = "fill" /\ r.symbol = s
        BY <1>1, <1>5, <2>1, <3>2 DEF StandingFills
      <4> QED BY <1>4, <1>a, <3>2, <4>1, <4>2
    <3>3. CASE i \notin m + 1..n /\ i # n + 1
      <4>1. i \notin StandingFills(longer, s) BY <2>1, <3>3 DEF StandingFills
      <4> QED BY <1>a, <3>3, <4>1
    <3> QED BY <3>1, <3>2, <3>3
  <2>4. StandingFills(longer, s) = {i \in StandingFills(file, s) : ~Supersedes(r, file[i])}
                                     \cup (IF IsFill(r) /\ r.symbol = s THEN {n + 1} ELSE {})
    <3> DEFINE A == {i \in StandingFills(file, s) : ~Supersedes(r, file[i])}
               B == IF IsFill(r) /\ r.symbol = s THEN {n + 1} ELSE {}
    <3>1. \A i : i \in A <=> i \in StandingFills(file, s) /\ ~Supersedes(r, file[i]) OBVIOUS
    <3>2. \A i : i \in B <=> IsFill(r) /\ r.symbol = s /\ i = n + 1 OBVIOUS
    <3> HIDE DEF A, B
    <3>3. \A i : i \in StandingFills(longer, s) <=> i \in A \cup B BY <2>3, <3>1, <3>2
    <3> QED BY <3>3 DEF A, B
  <2> QED BY <1>7, <2>4 DEF n, longer
<1> QED BY <1>6, <1>7

\* Of two standing totals of one order the later would have replaced the earlier.
LEMMA OneStanding ==
  ASSUME NEW file \in Seq(Lines), NEW s,
         NEW i \in StandingFills(file, s), NEW j \in StandingFills(file, s),
         file[i].order = file[j].order, file[i].basis = "cumulative", file[j].basis = "cumulative"
  PROVE  i = j
<1>1. /\ i \in 1..Len(file) /\ IsFill(file[i]) /\ ~Superseded(file, i)
      /\ j \in 1..Len(file) /\ IsFill(file[j]) /\ ~Superseded(file, j)
  BY StandingIs
<1>2. Len(file) \in Nat BY LenProperties
<1>3. ~(i < j)
  <2> SUFFICES ASSUME i < j PROVE FALSE OBVIOUS
  <2>1. j \in i + 1..Len(file) BY <1>1, <1>2
  <2> QED BY <1>1, <2>1 DEF Superseded, IsFill
<1>4. ~(j < i)
  <2> SUFFICES ASSUME j < i PROVE FALSE OBVIOUS
  <2>1. i \in j + 1..Len(file) BY <1>1, <1>2
  <2> QED BY <1>1, <2>1 DEF Superseded, IsFill
<1> QED BY <1>1, <1>2, <1>3, <1>4

-----------------------------------------------------------------------------
(* Sums of fills *)

QtySum(file, at) == SumFunction([i \in at |-> file[i].qty])

Filling(file, at) == at \subseteq 1..Len(file) /\ \A i \in at : IsFill(file[i])

LEMMA FillingTyped ==
  ASSUME NEW file \in Seq(Lines), NEW at, Filling(file, at)
  PROVE  /\ IsFiniteSet(at) /\ [i \in at |-> file[i].qty] \in [at -> Int]
         /\ QtySum(file, at) \in Int
<1>1. IsFiniteSet(1..Len(file)) BY LenProperties, FS_Interval
<1>2. IsFiniteSet(at) BY <1>1, FS_Subset DEF Filling
<1>3. \A i \in at : file[i].qty \in Int BY DEF Filling, IsFill
<1>4. [i \in at |-> file[i].qty] \in [at -> Int] BY <1>3
<1> HIDE DEF Filling
<1> QED BY <1>2, <1>4, SumTyped DEF QtySum

\* A line more changes no sum over the lines before it.
LEMMA QtySumBefore ==
  ASSUME NEW file \in Seq(Lines), NEW r \in Lines, NEW at \in SUBSET (1..Len(file))
  PROVE  QtySum(Append(file, r), at) = QtySum(file, at)
<1>1. \A i \in at : Append(file, r)[i] = file[i] BY AppendIs
<1>2. [i \in at |-> Append(file, r)[i].qty] = [i \in at |-> file[i].qty] BY <1>1
<1> QED BY <1>2 DEF QtySum

LEMMA QtySumAppend ==
  ASSUME NEW file \in Seq(Lines), NEW r \in Lines, IsFill(r), NEW at, Filling(file, at)
  PROVE  QtySum(Append(file, r), at \cup {Len(file) + 1}) = QtySum(file, at) + r.qty
<1> DEFINE n == Len(file)
           longer == Append(file, r)
           more == at \cup {n + 1}
           f == [i \in more |-> longer[i].qty]
           h == [i \in at |-> file[i].qty]
<1>1. /\ n \in Nat /\ Len(longer) = n + 1 /\ longer[n + 1] = r /\ longer \in Seq(Lines)
      /\ \A i \in 1..n : longer[i] = file[i]
  BY AppendIs
<1>2. at \subseteq 1..n /\ \A i \in at : IsFill(file[i]) BY DEF Filling
<1> HIDE DEF n, longer
<1>3. Filling(longer, more) BY <1>1, <1>2 DEF Filling
<1>4. IsFiniteSet(more) /\ f \in [more -> Int] BY <1>1, <1>3, FillingTyped
<1>5. h \in [at -> Int] /\ QtySum(file, at) \in Int BY FillingTyped
<1>6. more \ {n + 1} = at /\ n + 1 \in more BY <1>1, <1>2
<1>7. Agree(f, h, at) /\ f[n + 1] = r.qty BY <1>1, <1>2 DEF Agree
<1> HIDE DEF more, f, h
<1>8. SumFunction(f) = f[n + 1] + SumFunction(h) BY <1>4, <1>5, <1>6, <1>7, SumRemove
<1>9. QtySum(longer, more) = r.qty + QtySum(file, at) BY <1>7, <1>8 DEF QtySum, f, h
<1>10. r.qty \in Int BY DEF IsFill
<1> QED BY <1>5, <1>9, <1>10 DEF n, longer, more

LEMMA QtySumWithout ==
  ASSUME NEW file \in Seq(Lines), NEW at, Filling(file, at), NEW k \in at
  PROVE  QtySum(file, at \ {k}) = QtySum(file, at) - file[k].qty
<1> DEFINE f == [i \in at |-> file[i].qty]
           h == [i \in at \ {k} |-> file[i].qty]
<1>1. IsFiniteSet(at) /\ f \in [at -> Int] /\ QtySum(file, at) \in Int BY FillingTyped
<1>2. Filling(file, at \ {k}) BY DEF Filling
<1>3. h \in [at \ {k} -> Int] /\ QtySum(file, at \ {k}) \in Int BY <1>2, FillingTyped
<1>4. Agree(f, h, at \ {k}) /\ f[k] = file[k].qty BY DEF Agree
<1>5. f[k] \in Int BY <1>1
<1>s. QtySum(file, at) = SumFunction(f) /\ QtySum(file, at \ {k}) = SumFunction(h) BY DEF QtySum
<1> HIDE DEF f, h
<1>6. SumFunction(f) = f[k] + SumFunction(h) BY <1>1, <1>3, <1>4, SumRemove
<1> QED BY <1>1, <1>3, <1>4, <1>5, <1>6, <1>s

-----------------------------------------------------------------------------
(* What one more line does to a replay *)

LEMMA ReplayIs ==
  ASSUME NEW file \in Seq(Lines), NEW s
  PROVE  /\ Filling(file, StandingFills(file, s))
         /\ Replay(file, s) = Baseline(file, s) + QtySum(file, StandingFills(file, s))
         /\ QtySum(file, StandingFills(file, s)) \in Int
         /\ Replay(file, s) \in Int
<1> DEFINE at == StandingFills(file, s)
<1>1. Filling(file, at) BY StandingIs DEF Filling
<1>2. Replay(file, s) = Baseline(file, s) + QtySum(file, at) BY DEF Replay, QtySum
<1> HIDE DEF at
<1>3. QtySum(file, at) \in Int BY <1>1, FillingTyped
<1>4. Baseline(file, s) \in Int BY BaselineTyped
<1> QED BY <1>1, <1>2, <1>3, <1>4 DEF at

\* A line that neither resets nor fills a symbol leaves its replay alone.
LEMMA ReplayElsewhere ==
  ASSUME NEW file \in Seq(Lines), NEW r \in Lines, NEW s,
         ~IsReset(r, s), ~(IsFill(r) /\ r.symbol = s)
  PROVE  /\ StandingFills(Append(file, r), s) = StandingFills(file, s)
         /\ Replay(Append(file, r), s) = Replay(file, s)
<1> DEFINE longer == Append(file, r)
           at == StandingFills(file, s)
<1>1. longer \in Seq(Lines) BY AppendIs
<1>2. ASSUME NEW i \in at PROVE ~Supersedes(r, file[i])
  <2>1. IsFill(file[i]) /\ file[i].symbol = s BY StandingIs
  <2> QED BY <2>1 DEF Supersedes, IsFill
<1>3. StandingFills(longer, s) = at
  <2>1. StandingFills(longer, s) = {i \in at : ~Supersedes(r, file[i])} \cup {} BY StandingAppend
  <2> HIDE DEF at, longer
  <2> QED BY <1>2, <2>1
<1>4. at \in SUBSET (1..Len(file)) BY StandingIs
<1>5. QtySum(longer, at) = QtySum(file, at) BY <1>4, QtySumBefore
<1>6. Baseline(longer, s) = Baseline(file, s) BY BaselineAppend
<1>7. Replay(longer, s) = Baseline(longer, s) + QtySum(longer, StandingFills(longer, s))
  BY <1>1, ReplayIs
<1>8. Replay(file, s) = Baseline(file, s) + QtySum(file, at) BY ReplayIs
<1> HIDE DEF longer, at
<1> QED BY <1>3, <1>5, <1>6, <1>7, <1>8 DEF longer, at

\* A reset leaves what it records and no standing fill.
LEMMA ReplayReset ==
  ASSUME NEW file \in Seq(Lines), NEW r \in Lines, NEW s, IsReset(r, s)
  PROVE  /\ StandingFills(Append(file, r), s) = {}
         /\ Replay(Append(file, r), s) = IF r.event = "adopt" THEN r.qty ELSE 0
<1> DEFINE longer == Append(file, r)
           kept == IF r.event = "adopt" THEN r.qty ELSE 0
<1>1. longer \in Seq(Lines) BY AppendIs
<1>2. StandingFills(longer, s) = {} BY StandingAppend
<1>3. Baseline(longer, s) = kept BY BaselineAppend
<1>4. Replay(longer, s) = Baseline(longer, s) + QtySum(longer, StandingFills(longer, s))
  BY <1>1, ReplayIs
<1>5. QtySum(longer, {}) = 0
  <2>1. [i \in {} |-> longer[i].qty] \in [{} -> Int] OBVIOUS
  <2> QED BY <2>1, SumOverNone DEF QtySum
<1>6. kept \in Int BY <1>1, <1>3, BaselineTyped
<1> HIDE DEF longer, kept
<1> QED BY <1>2, <1>3, <1>4, <1>5, <1>6 DEF longer, kept

\* A fill adds its shares; what it supersedes is taken out.
LEMMA ReplayFill ==
  ASSUME NEW file \in Seq(Lines), NEW r \in Lines, IsFill(r)
  PROVE  LET at == StandingFills(file, r.symbol)
             replay == Replay(Append(file, r), r.symbol)
         IN  /\ StandingFills(Append(file, r), r.symbol) =
                  {i \in at : ~Supersedes(r, file[i])} \cup {Len(file) + 1}
             /\ (\A i \in at : ~Supersedes(r, file[i])) =>
                  replay = Replay(file, r.symbol) + r.qty
             /\ \A k \in at : Supersedes(r, file[k]) =>
                  replay = Replay(file, r.symbol) + r.qty - file[k].qty
<1> DEFINE longer == Append(file, r)
           s == r.symbol
           at == StandingFills(file, s)
           kept == {i \in at : ~Supersedes(r, file[i])}
<1>1. longer \in Seq(Lines) BY AppendIs
<1>2. ~IsReset(r, s) BY DEF IsReset, IsFill, Resets
<1>3. StandingFills(longer, s) = kept \cup {Len(file) + 1} BY <1>2, StandingAppend
<1>4. Filling(file, at) /\ Replay(file, s) = Baseline(file, s) + QtySum(file, at)
      /\ QtySum(file, at) \in Int
  BY ReplayIs
<1>5. Filling(file, kept) BY <1>4 DEF Filling
<1>6. Baseline(longer, s) = Baseline(file, s) /\ Baseline(file, s) \in Int
  BY <1>2, BaselineAppend, BaselineTyped
<1>7. QtySum(longer, kept \cup {Len(file) + 1}) = QtySum(file, kept) + r.qty
  <2> HIDE DEF kept
  <2> QED BY <1>5, QtySumAppend
<1>8. Replay(longer, s) = Baseline(longer, s) + QtySum(longer, StandingFills(longer, s))
  BY <1>1, ReplayIs
<1>9. r.qty \in Int BY DEF IsFill
<1>10. ASSUME \A i \in at : ~Supersedes(r, file[i]) PROVE Replay(longer, s) = Replay(file, s) + r.qty
  <2>1. kept = at BY <1>10
  <2> HIDE DEF longer, s, at, kept
  <2> QED BY <1>3, <1>4, <1>6, <1>7, <1>8, <1>9, <2>1
<1>11. ASSUME NEW k \in at, Supersedes(r, file[k])
       PROVE  Replay(longer, s) = Replay(file, s) + r.qty - file[k].qty
  <2>1. kept = at \ {k}
    <3>1. ASSUME NEW i \in at, Supersedes(r, file[i]) PROVE i = k
      <4>1. /\ file[i].order = file[k].order
            /\ file[i].basis = "cumulative" /\ file[k].basis = "cumulative"
        BY <1>11, <3>1 DEF Supersedes
      <4> QED BY <4>1, OneStanding
    <3> QED BY <1>11, <3>1
  <2>2. QtySum(file, at \ {k}) = QtySum(file, at) - file[k].qty
    <3> HIDE DEF at
    <3> QED BY <1>4, <1>11, QtySumWithout
  <2>3. file[k].qty \in Int BY <1>4, <1>11 DEF Filling, IsFill
  <2> HIDE DEF longer, s, at, kept
  <2> QED BY <1>3, <1>4, <1>6, <1>7, <1>8, <1>9, <2>1, <2>2, <2>3
<1> HIDE DEF kept
<1>12. StandingFills(longer, s) = {i \in at : ~Supersedes(r, file[i])} \cup {Len(file) + 1}
  BY <1>3 DEF kept
<1> QED BY <1>10, <1>11, <1>12

-----------------------------------------------------------------------------
(* The fold reads as the file does *)

Ledgers == [base : [Symbols -> Int], live : [Orders -> Int]]

\* What the fold holds for an order is the one report of it that stands.
Latest(file, led, o) ==
  LET at == {i \in StandingFills(file, SymbolOf[o]) : file[i].order = o}
  IN  /\ at = {} => led.live[o] = 0
      /\ \A i \in at : led.live[o] = file[i].qty

Reads(file, led) ==
  /\ file \in Seq(Lines) /\ led \in Ledgers
  /\ \A s \in Symbols : Expected(led, s, OrdersOf(s)) = Replay(file, s)
  /\ \A o \in Orders : BasisOf[o] = "cumulative" => Latest(file, led, o)

LEMMA OrdersIs ==
  ASSUME NEW s \in Symbols
  PROVE  IsFiniteSet(OrdersOf(s)) /\ OrdersOf(s) \subseteq Orders
BY LedgerAssumption, FS_Subset DEF OrdersOf

LEMMA ExpectedTyped ==
  ASSUME NEW led \in Ledgers, NEW s \in Symbols
  PROVE  /\ Expected(led, s, OrdersOf(s)) = led.base[s] + SumFunction([o \in OrdersOf(s) |-> led.live[o]])
         /\ led.base[s] \in Int /\ SumFunction([o \in OrdersOf(s) |-> led.live[o]]) \in Int
         /\ [o \in OrdersOf(s) |-> led.live[o]] \in [OrdersOf(s) -> Int]
         /\ Expected(led, s, OrdersOf(s)) \in Int
<1> DEFINE f == [o \in OrdersOf(s) |-> led.live[o]]
<1>1. led.base[s] \in Int /\ f \in [OrdersOf(s) -> Int] BY OrdersIs DEF Ledgers
<1>2. SumFunction(f) \in Int
  <2> HIDE DEF f
  <2> QED BY <1>1, OrdersIs, SumTyped
<1>3. Expected(led, s, OrdersOf(s)) = led.base[s] + SumFunction(f) BY DEF Expected
<1> HIDE DEF f
<1>4. Expected(led, s, OrdersOf(s)) \in Int BY <1>1, <1>2, <1>3
<1> QED BY <1>1, <1>2, <1>3, <1>4 DEF f

\* Two ledgers that hold the same for a symbol expect the same of it.
SameFor(led, new, s) ==
  new.base[s] = led.base[s] /\ \A o \in OrdersOf(s) : new.live[o] = led.live[o]

LEMMA ExpectedSame ==
  ASSUME NEW led, NEW new, NEW s, SameFor(led, new, s)
  PROVE  Expected(new, s, OrdersOf(s)) = Expected(led, s, OrdersOf(s))
<1>1. [o \in OrdersOf(s) |-> new.live[o]] = [o \in OrdersOf(s) |-> led.live[o]] BY DEF SameFor
<1> QED BY <1>1 DEF Expected, SameFor

\* A symbol settled at a quantity.
SettledAt(led, s, qty) == led.base[s] = qty /\ \A o \in OrdersOf(s) : led.live[o] = 0

LEMMA ExpectedSettled ==
  ASSUME NEW led \in Ledgers, NEW s \in Symbols, NEW qty, SettledAt(led, s, qty)
  PROVE  Expected(led, s, OrdersOf(s)) = qty
<1> DEFINE f == [o \in OrdersOf(s) |-> led.live[o]]
<1>1. f \in [OrdersOf(s) -> Nat] /\ \A o \in OrdersOf(s) : f[o] = 0 BY DEF SettledAt
<1> HIDE DEF f
<1>2. SumFunction(f) = 0 BY <1>1, OrdersIs, SumZero
<1>3. Expected(led, s, OrdersOf(s)) = qty + SumFunction(f) /\ qty \in Int
  BY ExpectedTyped DEF SettledAt, f
<1> QED BY <1>2, <1>3

-----------------------------------------------------------------------------
(* What folding a record does *)

\* The total an order is known to have filled, in place of the one before.
LEMMA ApplyTotal ==
  ASSUME NEW led \in Ledgers, NEW r, IsFill(r), r.basis = "cumulative"
  PROVE  LET s == r.symbol
             new == Apply(led, r, OrdersOf(s))
         IN  /\ new \in Ledgers /\ new.live[r.order] = r.qty
             /\ \A o \in Orders \ {r.order} : new.live[o] = led.live[o]
             /\ \A t \in Symbols \ {s} : SameFor(led, new, t)
             /\ Expected(new, s, OrdersOf(s)) = Expected(led, s, OrdersOf(s)) + r.qty - led.live[r.order]
<1> DEFINE s == r.symbol
           o == r.order
           new == [led EXCEPT !.live[o] = r.qty]
           f == [p \in OrdersOf(s) |-> led.live[p]]
           g == [p \in OrdersOf(s) |-> new.live[p]]
<1>1. Apply(led, r, OrdersOf(s)) = new BY DEF Apply, IsFill
<1>2. o \in Orders /\ s \in Symbols /\ o \in OrdersOf(s) /\ r.qty \in Int BY DEF IsFill, OrdersOf
<1>3. /\ new \in Ledgers /\ new.live[o] = r.qty /\ new.base = led.base
      /\ \A p \in Orders \ {o} : new.live[p] = led.live[p]
  BY <1>2 DEF Ledgers
<1> HIDE DEF new
<1>4. ASSUME NEW t \in Symbols \ {s} PROVE SameFor(led, new, t)
  <2>1. OrdersOf(t) \subseteq Orders \ {o} BY <1>4 DEF OrdersOf, IsFill
  <2> QED BY <1>3, <2>1 DEF SameFor
<1>5. f[o] = led.live[o] /\ g[o] = r.qty /\ Agree(f, g, OrdersOf(s) \ {o})
  BY <1>2, <1>3, OrdersIs DEF Agree
<1>6. /\ Expected(led, s, OrdersOf(s)) = led.base[s] + SumFunction(f) /\ SumFunction(f) \in Int
      /\ f \in [OrdersOf(s) -> Int] /\ led.base[s] \in Int
  BY <1>2, ExpectedTyped
<1>7. Expected(new, s, OrdersOf(s)) = new.base[s] + SumFunction(g) /\ g \in [OrdersOf(s) -> Int]
  BY <1>2, <1>3, ExpectedTyped
<1>8. led.live[o] \in Int BY <1>2 DEF Ledgers
<1> HIDE DEF f, g, s, o
<1>9. SumFunction(g) = SumFunction(f) + g[o] - f[o]
  BY <1>2, <1>5, <1>6, <1>7, OrdersIs, SumChange
<1>10. Expected(new, s, OrdersOf(s)) = Expected(led, s, OrdersOf(s)) + r.qty - led.live[o]
  BY <1>2, <1>3, <1>5, <1>6, <1>7, <1>8, <1>9
<1> QED BY <1>1, <1>3, <1>4, <1>10 DEF s, o

\* Shares since the last report, added to what is settled.
LEMMA ApplyShares ==
  ASSUME NEW led \in Ledgers, NEW r, IsFill(r), r.basis # "cumulative"
  PROVE  LET s == r.symbol
             new == Apply(led, r, OrdersOf(s))
         IN  /\ new \in Ledgers /\ new.live = led.live
             /\ \A t \in Symbols \ {s} : SameFor(led, new, t)
             /\ Expected(new, s, OrdersOf(s)) = Expected(led, s, OrdersOf(s)) + r.qty
<1> DEFINE s == r.symbol
           new == [led EXCEPT !.base[s] = @ + r.qty]
<1>1. Apply(led, r, OrdersOf(s)) = new BY DEF Apply, IsFill
<1>2. s \in Symbols /\ r.qty \in Int BY DEF IsFill
<1>3. /\ new \in Ledgers /\ new.live = led.live /\ new.base[s] = led.base[s] + r.qty
      /\ \A t \in Symbols \ {s} : new.base[t] = led.base[t]
  BY <1>2 DEF Ledgers
<1> HIDE DEF new
<1>4. \A t \in Symbols \ {s} : SameFor(led, new, t) BY <1>3 DEF SameFor
<1>5. Expected(new, s, OrdersOf(s)) = Expected(led, s, OrdersOf(s)) + r.qty
  <2> DEFINE sum == SumFunction([o \in OrdersOf(s) |-> led.live[o]])
  <2>1. Expected(led, s, OrdersOf(s)) = led.base[s] + sum /\ sum \in Int /\ led.base[s] \in Int
    BY <1>2, ExpectedTyped
  <2>2. Expected(new, s, OrdersOf(s)) = new.base[s] + sum BY <1>3 DEF Expected
  <2> HIDE DEF sum, s
  <2> QED BY <1>2, <1>3, <2>1, <2>2
<1> QED BY <1>1, <1>3, <1>4, <1>5

\* A settlement takes its symbol to what it records and leaves the others alone.
Recorded(r) == IF r.event = "adopt" THEN r.qty ELSE 0

LEMMA ApplySettlement ==
  ASSUME NEW led \in Ledgers, NEW r, IsSettlement(r)
  PROVE  LET s == r.symbol
             new == Apply(led, r, OrdersOf(s))
         IN  /\ new \in Ledgers /\ SettledAt(new, s, Recorded(r)) /\ Recorded(r) \in Int
             /\ \A t \in Symbols \ {s} : SameFor(led, new, t)
<1> DEFINE s == r.symbol
           new == Rebase(led, s, Recorded(r), OrdersOf(s))
<1>1. s \in Symbols /\ Recorded(r) \in Int BY DEF IsSettlement, Recorded
<1>2. Apply(led, r, OrdersOf(s)) = new BY DEF Apply, Recorded, IsSettlement
<1>3. /\ new.base \in [Symbols -> Int] /\ new.base[s] = Recorded(r)
      /\ \A t \in Symbols \ {s} : new.base[t] = led.base[t]
  BY <1>1 DEF Rebase, Ledgers
<1>4. /\ new.live \in [Orders -> Int]
      /\ \A o \in Orders : new.live[o] = IF o \in OrdersOf(s) THEN 0 ELSE led.live[o]
  BY DEF Rebase, Ledgers
<1>5. new \in Ledgers BY <1>3, <1>4 DEF Rebase, Ledgers
<1> HIDE DEF new
<1>6. SettledAt(new, s, Recorded(r)) BY <1>1, <1>3, <1>4, OrdersIs DEF SettledAt
<1>7. ASSUME NEW t \in Symbols \ {s} PROVE SameFor(led, new, t)
  <2>1. \A o \in OrdersOf(t) : o \in Orders /\ o \notin OrdersOf(s) BY <1>7 DEF OrdersOf
  <2> QED BY <1>3, <1>4, <1>7, <2>1 DEF SameFor
<1> QED BY <1>1, <1>2, <1>5, <1>6, <1>7

-----------------------------------------------------------------------------
(* One more record *)

\* The reports that stand for an order are those they were, and so is its total.
LEMMA LatestSame ==
  ASSUME NEW file \in Seq(Lines), NEW r \in Lines, NEW led, NEW new, NEW o,
         Latest(file, led, o), new.live[o] = led.live[o],
         \A i : /\ i \in StandingFills(Append(file, r), SymbolOf[o])
                /\ Append(file, r)[i].order = o
                <=> i \in StandingFills(file, SymbolOf[o]) /\ file[i].order = o
  PROVE  Latest(Append(file, r), new, o)
<1> DEFINE longer == Append(file, r)
           s == SymbolOf[o]
<1>1. \A i \in StandingFills(file, s) : longer[i] = file[i] BY StandingIs, AppendIs
<1> HIDE DEF longer, s
<1> QED BY <1>1 DEF Latest, longer, s

LEMMA LatestElsewhere ==
  ASSUME NEW file \in Seq(Lines), NEW r \in Lines, NEW led, NEW new, NEW o,
         Latest(file, led, o), new.live[o] = led.live[o],
         StandingFills(Append(file, r), SymbolOf[o]) = StandingFills(file, SymbolOf[o])
  PROVE  Latest(Append(file, r), new, o)
<1> DEFINE longer == Append(file, r)
           s == SymbolOf[o]
<1>1. \A i \in StandingFills(file, s) : longer[i] = file[i] BY StandingIs, AppendIs
<1> HIDE DEF longer, s
<1> QED BY <1>1 DEF Latest, longer, s

LEMMA ReadsElsewhere ==
  ASSUME NEW file, NEW led, Reads(file, led), NEW r \in Records, NEW new,
         NEW t \in Symbols, t # r.symbol, SameFor(led, new, t)
  PROVE  /\ Expected(new, t, OrdersOf(t)) = Replay(Append(file, r), t)
         /\ \A o \in OrdersOf(t) : BasisOf[o] = "cumulative" => Latest(Append(file, r), new, o)
<1>1. file \in Seq(Lines) /\ r \in Lines BY DEF Reads, Lines
<1>2. ~IsReset(r, t) /\ ~(IsFill(r) /\ r.symbol = t) BY DEF IsReset
<1>3. /\ StandingFills(Append(file, r), t) = StandingFills(file, t)
      /\ Replay(Append(file, r), t) = Replay(file, t)
  BY <1>1, <1>2, ReplayElsewhere
<1>4. Expected(new, t, OrdersOf(t)) = Expected(led, t, OrdersOf(t)) BY ExpectedSame
<1>5. ASSUME NEW o \in OrdersOf(t), BasisOf[o] = "cumulative" PROVE Latest(Append(file, r), new, o)
  <2>1. o \in Orders /\ SymbolOf[o] = t /\ new.live[o] = led.live[o] BY DEF OrdersOf, SameFor
  <2>2. Latest(file, led, o) BY <1>5, <2>1 DEF Reads
  <2> QED BY <1>1, <1>3, <2>1, <2>2, LatestElsewhere
<1> QED BY <1>3, <1>4, <1>5 DEF Reads

\* A settlement is read as what it records.
LEMMA ReadsSettlement ==
  ASSUME NEW file, NEW led, Reads(file, led), NEW r \in Settlements
  PROVE  LET s == r.symbol
             new == Apply(led, r, OrdersOf(s))
         IN  /\ Expected(new, s, OrdersOf(s)) = Replay(Append(file, r), s)
             /\ \A o \in OrdersOf(s) : Latest(Append(file, r), new, o)
<1> DEFINE s == r.symbol
           new == Apply(led, r, OrdersOf(s))
<1>1. file \in Seq(Lines) /\ r \in Lines /\ led \in Ledgers BY DEF Reads, Lines, Records
<1>2. IsSettlement(r) BY SettlementIs
<1>3. new \in Ledgers /\ SettledAt(new, s, Recorded(r)) BY <1>1, <1>2, ApplySettlement
<1>4. s \in Symbols /\ IsReset(r, s) BY <1>1, <1>2, ResetIs DEF IsSettlement
<1>5. /\ StandingFills(Append(file, r), s) = {}
      /\ Replay(Append(file, r), s) = Recorded(r)
  BY <1>1, <1>4, ReplayReset DEF Recorded
<1> HIDE DEF new, s
<1>6. Expected(new, s, OrdersOf(s)) = Recorded(r) BY <1>3, <1>4, ExpectedSettled
<1>7. ASSUME NEW o \in OrdersOf(s) PROVE Latest(Append(file, r), new, o)
  <2>1. SymbolOf[o] = s /\ new.live[o] = 0 BY <1>3 DEF OrdersOf, SettledAt
  <2> QED BY <1>5, <2>1 DEF Latest
<1>8. Expected(new, s, OrdersOf(s)) = Replay(Append(file, r), s) BY <1>5, <1>6
<1> QED BY <1>7, <1>8 DEF new, s

\* A running total replaces the one that stood for its order.
LEMMA ReadsTotal ==
  ASSUME NEW file, NEW led, Reads(file, led), NEW r \in Fills, r.basis = "cumulative"
  PROVE  LET s == r.symbol
             new == Apply(led, r, OrdersOf(s))
         IN  /\ Expected(new, s, OrdersOf(s)) = Replay(Append(file, r), s)
             /\ \A o \in OrdersOf(s) : BasisOf[o] = "cumulative" => Latest(Append(file, r), new, o)
<1> DEFINE s == r.symbol
           o == r.order
           new == Apply(led, r, OrdersOf(s))
           at == StandingFills(file, s)
           longer == Append(file, r)
           last == Len(file) + 1
<1>1. file \in Seq(Lines) /\ r \in Lines /\ led \in Ledgers BY DEF Reads, Lines, Records
<1>2. IsFill(r) BY FillIs
<1>3. o \in Orders /\ s = SymbolOf[o] /\ s \in Symbols /\ BasisOf[o] = "cumulative" /\ r.qty \in Int
  BY <1>2 DEF IsFill
<1>4. /\ new \in Ledgers /\ new.live[o] = r.qty
      /\ \A p \in Orders \ {o} : new.live[p] = led.live[p]
      /\ Expected(new, s, OrdersOf(s)) = Expected(led, s, OrdersOf(s)) + r.qty - led.live[o]
  BY <1>1, <1>2, ApplyTotal
<1>5. /\ StandingFills(longer, s) = {i \in at : ~Supersedes(r, file[i])} \cup {last}
      /\ (\A i \in at : ~Supersedes(r, file[i])) => Replay(longer, s) = Replay(file, s) + r.qty
      /\ \A k \in at : Supersedes(r, file[k]) =>
           Replay(longer, s) = Replay(file, s) + r.qty - file[k].qty
  BY <1>1, <1>2, ReplayFill
<1>6. \A i \in at : i \in 1..Len(file) /\ IsFill(file[i]) BY <1>1, StandingIs
<1>7. /\ \A i \in at : longer[i] = file[i] /\ i # last
      /\ longer[last] = r
  BY <1>1, <1>6, AppendIs
<1>8. \A i \in at : Supersedes(r, file[i]) <=> file[i].order = o
  BY <1>2, <1>3, <1>6 DEF Supersedes, IsFill
<1>9. Latest(file, led, o) /\ Expected(led, s, OrdersOf(s)) = Replay(file, s) BY <1>3 DEF Reads
<1>10. Replay(file, s) \in Int BY <1>1, ReplayIs
<1>11. /\ (\A i \in at : file[i].order # o) => led.live[o] = 0
       /\ \A k \in at : file[k].order = o => led.live[o] = file[k].qty
  BY <1>3, <1>9 DEF Latest
<1>e. led.live[o] \in Int BY <1>1, <1>3 DEF Ledgers
<1> HIDE DEF longer, new, at, last, s, o
<1>12. Expected(new, s, OrdersOf(s)) = Replay(longer, s)
  <2>1. CASE \A i \in at : file[i].order # o
    <3>1. Replay(longer, s) = Replay(file, s) + r.qty BY <1>5, <1>8, <2>1
    <3>2. led.live[o] = 0 BY <1>11, <2>1
    <3> QED BY <1>3, <1>4, <1>9, <1>10, <3>1, <3>2
  <2>2. ASSUME NEW k \in at, file[k].order = o PROVE Expected(new, s, OrdersOf(s)) = Replay(longer, s)
    <3>1. Replay(longer, s) = Replay(file, s) + r.qty - file[k].qty BY <1>5, <1>8, <2>2
    <3>2. led.live[o] = file[k].qty BY <1>11, <2>2
    <3> QED BY <1>3, <1>4, <1>9, <1>10, <1>e, <3>1, <3>2
  <2> QED BY <2>1, <2>2
<1>13. ASSUME NEW p \in OrdersOf(s), BasisOf[p] = "cumulative" PROVE Latest(longer, new, p)
  <2>1. p \in Orders /\ SymbolOf[p] = s BY DEF OrdersOf
  <2>2. CASE p = o
    <3>1. {i \in StandingFills(longer, s) : longer[i].order = o} = {last}
      <4>1. \A i \in {j \in at : ~Supersedes(r, file[j])} : longer[i].order # o BY <1>7, <1>8
      <4>2. longer[last].order = o BY <1>7 DEF o
      <4> QED BY <1>5, <4>1, <4>2
    <3> QED BY <1>4, <1>7, <2>1, <2>2, <3>1 DEF Latest
  <2>3. CASE p # o
    <3>1. \A i : i \in StandingFills(longer, s) /\ longer[i].order = p
                   <=> i \in at /\ file[i].order = p
      <4>1. longer[last].order = o BY <1>7 DEF o
      <4> QED BY <1>5, <1>7, <1>8, <2>3, <4>1
    <3>2. Latest(file, led, p) BY <1>13, <2>1 DEF Reads
    <3>3. new.live[p] = led.live[p] BY <1>4, <2>1, <2>3
    <3> QED BY <1>1, <2>1, <3>1, <3>2, <3>3, LatestSame DEF at, longer
  <2> QED BY <2>2, <2>3
<1> QED BY <1>12, <1>13 DEF new, longer, s

\* Shares since the last report replace nothing.
LEMMA ReadsShares ==
  ASSUME NEW file, NEW led, Reads(file, led), NEW r \in Fills, r.basis # "cumulative"
  PROVE  LET s == r.symbol
             new == Apply(led, r, OrdersOf(s))
         IN  /\ Expected(new, s, OrdersOf(s)) = Replay(Append(file, r), s)
             /\ \A o \in OrdersOf(s) : BasisOf[o] = "cumulative" => Latest(Append(file, r), new, o)
<1> DEFINE s == r.symbol
           new == Apply(led, r, OrdersOf(s))
           at == StandingFills(file, s)
           longer == Append(file, r)
           last == Len(file) + 1
<1>1. file \in Seq(Lines) /\ r \in Lines /\ led \in Ledgers BY DEF Reads, Lines, Records
<1>2. IsFill(r) BY FillIs
<1>3. s \in Symbols /\ r.qty \in Int /\ r.basis = BasisOf[r.order] BY <1>2 DEF IsFill
<1>4. /\ new \in Ledgers /\ new.live = led.live
      /\ Expected(new, s, OrdersOf(s)) = Expected(led, s, OrdersOf(s)) + r.qty
  BY <1>1, <1>2, ApplyShares
<1>8. \A i \in at : ~Supersedes(r, file[i]) BY DEF Supersedes
<1>5. /\ StandingFills(longer, s) = {i \in at : ~Supersedes(r, file[i])} \cup {last}
      /\ (\A i \in at : ~Supersedes(r, file[i])) => Replay(longer, s) = Replay(file, s) + r.qty
  BY <1>1, <1>2, ReplayFill
<1>6. \A i \in at : i \in 1..Len(file) BY <1>1, StandingIs
<1>7. /\ \A i \in at : longer[i] = file[i]
      /\ longer[last] = r
  BY <1>1, <1>6, AppendIs
<1>9. Expected(led, s, OrdersOf(s)) = Replay(file, s) BY <1>3 DEF Reads
<1> HIDE DEF longer, new, at, last, s
<1>12. Expected(new, s, OrdersOf(s)) = Replay(longer, s) BY <1>4, <1>5, <1>8, <1>9
<1>13. ASSUME NEW p \in OrdersOf(s), BasisOf[p] = "cumulative" PROVE Latest(longer, new, p)
  <2>1. p \in Orders /\ SymbolOf[p] = s BY DEF OrdersOf
  <2>2. longer[last].order # p BY <1>3, <1>7, <1>13
  <2>3. \A i : i \in StandingFills(longer, s) /\ longer[i].order = p
                 <=> i \in at /\ file[i].order = p
    BY <1>5, <1>7, <1>8, <2>2
  <2>4. Latest(file, led, p) BY <1>13, <2>1 DEF Reads
  <2>5. new.live[p] = led.live[p] BY <1>4
  <2> QED BY <1>1, <2>1, <2>3, <2>4, <2>5, LatestSame DEF at, longer
<1> QED BY <1>12, <1>13 DEF new, longer, s

\* What the fold makes of a record is what reading it back does.
LEMMA ReadsAppend ==
  ASSUME NEW file, NEW led, Reads(file, led), NEW r \in Records
  PROVE  Reads(Append(file, r), Apply(led, r, OrdersOf(r.symbol)))
<1> DEFINE s == r.symbol
           new == Apply(led, r, OrdersOf(s))
           longer == Append(file, r)
<1>1. file \in Seq(Lines) /\ r \in Lines /\ led \in Ledgers /\ longer \in Seq(Lines)
  BY AppendIs DEF Reads, Lines
<1>2. /\ new \in Ledgers /\ s \in Symbols
      /\ \A t \in Symbols \ {s} : SameFor(led, new, t)
  <2>1. CASE r \in Settlements
    <3>1. IsSettlement(r) BY <2>1, SettlementIs
    <3>2. s \in Symbols BY <3>1 DEF IsSettlement
    <3> QED BY <1>1, <3>1, <3>2, ApplySettlement
  <2>2. CASE r \in Fills
    <3>1. IsFill(r) BY <2>2, FillIs
    <3>2. s \in Symbols BY <3>1 DEF IsFill
    <3>3. CASE r.basis = "cumulative" BY <1>1, <3>1, <3>2, <3>3, ApplyTotal
    <3>4. CASE r.basis # "cumulative" BY <1>1, <3>1, <3>2, <3>4, ApplyShares
    <3> QED BY <3>3, <3>4
  <2> QED BY <2>1, <2>2 DEF Records
<1>3. /\ Expected(new, s, OrdersOf(s)) = Replay(longer, s)
      /\ \A o \in OrdersOf(s) : BasisOf[o] = "cumulative" => Latest(longer, new, o)
  <2>1. CASE r \in Settlements BY <2>1, ReadsSettlement
  <2>2. CASE r \in Fills /\ r.basis = "cumulative" BY <2>2, ReadsTotal
  <2>3. CASE r \in Fills /\ r.basis # "cumulative" BY <2>3, ReadsShares
  <2> QED BY <2>1, <2>2, <2>3 DEF Records
<1> HIDE DEF new, longer
<1>4. ASSUME NEW t \in Symbols \ {s}
      PROVE  /\ Expected(new, t, OrdersOf(t)) = Replay(longer, t)
             /\ \A o \in OrdersOf(t) : BasisOf[o] = "cumulative" => Latest(longer, new, o)
  BY <1>2, <1>4, ReadsElsewhere DEF longer
<1>5. ASSUME NEW o \in Orders, BasisOf[o] = "cumulative" PROVE Latest(longer, new, o)
  <2>1. SymbolOf[o] \in Symbols /\ o \in OrdersOf(SymbolOf[o]) BY LedgerAssumption DEF OrdersOf
  <2> QED BY <1>3, <1>4, <1>5, <2>1
<1> HIDE DEF s
<1>6. \A t \in Symbols : Expected(new, t, OrdersOf(t)) = Replay(longer, t) BY <1>3, <1>4
<1>7. Reads(longer, new) BY <1>1, <1>2, <1>5, <1>6 DEF Reads, longer
<1> QED BY <1>7 DEF new, longer, s

-----------------------------------------------------------------------------
(* Lines that do not parse *)

\* A line that does not parse changes nothing a reader sees.
LEMMA UnreadableReads ==
  ASSUME NEW file \in Seq(Lines), NEW r \in {TornLine, GarbledLine}, NEW led
  PROVE  Reads(Append(file, r), led) <=> Reads(file, led)
<1> DEFINE longer == Append(file, r)
<1>1. r \in Lines BY DEF Lines
<1>2. \A s : ~IsReset(r, s) /\ ~IsFill(r) BY DEF TornLine, GarbledLine, IsReset, Resets, IsFill
<1>3. longer \in Seq(Lines) BY <1>1, AppendIs
<1>4. ASSUME NEW s
      PROVE  StandingFills(longer, s) = StandingFills(file, s) /\ Replay(longer, s) = Replay(file, s)
  BY <1>1, <1>2, ReplayElsewhere
<1>5. \A s : \A i \in StandingFills(file, s) : longer[i] = file[i] BY <1>1, StandingIs, AppendIs
<1> HIDE DEF longer
<1>6. ASSUME NEW o PROVE Latest(longer, led, o) <=> Latest(file, led, o)
  BY <1>4, <1>5 DEF Latest
<1>7. Reads(longer, led) <=> Reads(file, led) BY <1>3, <1>4, <1>6 DEF Reads
<1> QED BY <1>7 DEF longer

\* The torn line, once a record has been written onto it.
Garbled(file) == [file EXCEPT ![Len(file)] = GarbledLine]

LEMMA GarbledIs ==
  ASSUME NEW file \in Seq(Lines), EndsTorn(file)
  PROVE  \E front \in Seq(Lines) :
            file = Append(front, TornLine) /\ Garbled(file) = Append(front, GarbledLine)
<1>1. PICK front \in Seq(Lines), last \in Lines : file = Append(front, last)
  BY SequenceEmptyOrAppend DEF EndsTorn
<1> DEFINE n == Len(front)
<1>2. /\ n \in Nat /\ Len(file) = n + 1 /\ file[n + 1] = last
      /\ \A i \in 1..n : file[i] = front[i]
  BY <1>1, AppendIs
<1>3. last = TornLine BY <1>2 DEF EndsTorn
<1>4. GarbledLine \in Lines BY DEF Lines
<1> DEFINE other == Append(front, GarbledLine)
<1>5. /\ other \in Seq(Lines) /\ Len(other) = n + 1 /\ other[n + 1] = GarbledLine
      /\ \A i \in 1..n : other[i] = front[i]
  BY <1>4, AppendIs
<1>6. /\ Garbled(file) \in Seq(Lines) /\ Len(Garbled(file)) = n + 1
      /\ \A j \in 1..n + 1 : Garbled(file)[j] = IF j = n + 1 THEN GarbledLine ELSE file[j]
  <2>1. n + 1 \in 1..Len(file) BY <1>2
  <2> HIDE DEF n
  <2> QED BY <1>2, <1>4, <2>1, ExceptSeq DEF Garbled
<1>7. \A j \in 1..n + 1 : Garbled(file)[j] = other[j]
  <2> HIDE DEF n, other
  <2> TAKE j \in 1..n + 1
  <2>1. j = n + 1 \/ j \in 1..n BY <1>2
  <2> QED BY <1>2, <1>5, <1>6, <2>1
<1> HIDE DEF n, other
<1>8. Garbled(file) = other BY <1>5, <1>6, <1>7, SeqEqual
<1> QED BY <1>1, <1>3, <1>8 DEF other

LEMMA GarbledReads ==
  ASSUME NEW file, NEW led, Reads(file, led), EndsTorn(file)
  PROVE  Reads(Garbled(file), led)
<1>1. PICK front \in Seq(Lines) :
        file = Append(front, TornLine) /\ Garbled(file) = Append(front, GarbledLine)
  BY GarbledIs DEF Reads
<1>2. Reads(front, led) BY <1>1, UnreadableReads
<1> QED BY <1>1, <1>2, UnreadableReads

-----------------------------------------------------------------------------
(* Many records *)

Applied(led, r) == Apply(led, r, OrdersOf(r.symbol))

LEMMA AppliedTyped ==
  ASSUME NEW led \in Ledgers, NEW r \in Records
  PROVE  Applied(led, r) \in Ledgers
<1>1. CASE r \in Settlements BY <1>1, SettlementIs, ApplySettlement DEF Applied
<1>2. CASE r \in Fills
  <2>1. IsFill(r) BY <1>2, FillIs
  <2>2. CASE r.basis = "cumulative" BY <2>1, <2>2, ApplyTotal DEF Applied
  <2>3. CASE r.basis # "cumulative" BY <2>1, <2>3, ApplyShares DEF Applied
  <2> QED BY <2>2, <2>3
<1> QED BY <1>1, <1>2 DEF Records

\* Folded is the last of the ledgers after each record.
LEMMA FoldedIs ==
  ASSUME NEW led \in Ledgers, NEW records \in Seq(Records)
  PROVE  \E after \in [0..Len(records) -> Ledgers] :
           /\ after[0] = led
           /\ \A i \in 1..Len(records) : after[i] = Applied(after[i - 1], records[i])
           /\ Folded(led, records) = after[Len(records)]
<1> DEFINE n == Len(records)
           Folds(f) == f = [i \in 0..n |-> IF i = 0 THEN led ELSE Applied(f[i - 1], records[i])]
<1>1. n \in Nat /\ \A i \in 1..n : records[i] \in Records BY LenProperties, ElementOfSeq
<1>2. Folded(led, records) = (CHOOSE f : Folds(f))[n] BY DEF Folded, Applied
<1> HIDE DEF n
<1> DEFINE step == [p \in (1..n) \X Ledgers |-> Applied(p[2], records[p[1]])]
<1>3. step \in StepFunctions(n, Ledgers)
  <2>1. \A p \in (1..n) \X Ledgers : Applied(p[2], records[p[1]]) \in Ledgers BY <1>1, AppliedTyped
  <2> QED BY <2>1 DEF StepFunctions
<1>4. PICK f : f \in [0..n -> Ledgers] /\ f[0] = led /\ \A i \in 1..n : f[i] = step[<<i, f[i - 1]>>]
  <2> HIDE DEF step
  <2>1. PICK f : Iterates(f, n, Ledgers, led, step) BY <1>1, <1>3, Recursion
  <2> QED BY <2>1 DEF Iterates
<1>5. Folds(f)
  <2>1. ASSUME NEW i \in 1..n PROVE f[i] = Applied(f[i - 1], records[i])
    <3>1. f[i - 1] \in Ledgers BY <1>1, <1>4
    <3> QED BY <1>4, <3>1
  <2> QED BY <2>1, <1>4
<1> DEFINE after == CHOOSE g : Folds(g)
<1>6. Folds(after) BY <1>5
<1>7. Folded(led, records) = after[n] BY <1>2
<1> HIDE DEF after
<1>8. after[0] = led /\ \A i \in 1..n : after[i] = Applied(after[i - 1], records[i])
  BY <1>1, <1>6
<1>9. \A i \in 0..n : after[i] \in Ledgers
  <2> DEFINE Bad == {i \in 0..n : after[i] \notin Ledgers}
  <2>1. SUFFICES ASSUME Bad # {} PROVE FALSE OBVIOUS
  <2>2. PICK m \in Bad : \A i \in Bad : m <= i
    <3>1. Bad \subseteq Nat OBVIOUS
    <3> QED BY <2>1, <3>1, NatMin
  <2>3. m \in 1..n /\ m - 1 \in 0..n /\ ~(m <= m - 1) BY <1>1, <1>8, <2>2
  <2>4. after[m - 1] \in Ledgers BY <2>2, <2>3
  <2>5. after[m] \in Ledgers BY <1>1, <1>8, <2>3, <2>4, AppliedTyped
  <2> QED BY <2>2, <2>5
<1>10. after \in [0..n -> Ledgers]
  <2>1. after = [i \in 0..n |-> after[i]] BY <1>6
  <2> QED BY <1>9, <2>1
<1> QED BY <1>7, <1>8, <1>10 DEF n

\* What every record of a kind keeps of a file and its fold, several keep.
LEMMA Chain ==
  ASSUME NEW R \in SUBSET Records, NEW K \in SUBSET (Seq(Lines) \X Ledgers),
         \A file, led : <<file, led>> \in K =>
           \A r \in R : <<Append(file, r), Applied(led, r)>> \in K,
         NEW file, NEW led, <<file, led>> \in K, NEW records \in Seq(R)
  PROVE  <<file \o records, Folded(led, records)>> \in K
<1> DEFINE n == Len(records)
<1>1. records \in Seq(Records) /\ records \in Seq(Lines) BY SeqMonotonic DEF Lines
<1>2. file \in Seq(Lines) /\ led \in Ledgers OBVIOUS
<1>3. n \in Nat /\ \A i \in 1..n : records[i] \in R BY LenProperties, ElementOfSeq
<1>4. PICK after \in [0..n -> Ledgers] :
        /\ after[0] = led
        /\ \A i \in 1..n : after[i] = Applied(after[i - 1], records[i])
        /\ Folded(led, records) = after[n]
  BY <1>1, <1>2, FoldedIs
<1> DEFINE upto(i) == file \o SubSeq(records, 1, i)
           Bad == {i \in 0..n : <<upto(i), after[i]>> \notin K}
<1>5. upto(0) = file
  <2>1. SubSeq(records, 1, 0) = <<>> BY SubSeqEmpty
  <2> QED BY <1>2, <2>1, ConcatEmptySeq
<1>6. upto(n) = file \o records BY <1>1, SubSeqFull
<1>7. ASSUME NEW i \in 1..n PROVE upto(i) = Append(upto(i - 1), records[i])
  <2> DEFINE front == SubSeq(records, 1, i - 1)
  <2>1. SubSeq(records, 1, i) = front \o <<records[i]>>
    <3>1. 1 \in 1..Len(records) /\ i \in 1..Len(records) BY <1>3
    <3> QED BY <1>1, <3>1, SubSeqRecursiveSecond
  <2>2. front \in Seq(Lines)
    <3>1. \A j \in 1..i - 1 : records[j] \in Lines BY <1>1, <1>3, ElementOfSeq
    <3>2. i - 1 \in Int BY <1>3
    <3> QED BY <3>1, <3>2, SubSeqProperties
  <2>3. records[i] \in Lines BY <1>3 DEF Lines
  <2>4. <<records[i]>> \in Seq(Lines) BY <2>3
  <2> HIDE DEF front
  <2>5. file \o (front \o <<records[i]>>) = (file \o front) \o <<records[i]>>
    BY <1>2, <2>2, <2>4, ConcatAssociative
  <2>6. file \o front \in Seq(Lines) BY <1>2, <2>2, ConcatProperties
  <2>7. Append(file \o front, records[i]) = (file \o front) \o <<records[i]>>
    BY <2>3, <2>6, AppendIsConcat
  <2>8. upto(i) = Append(file \o front, records[i]) BY <2>1, <2>5, <2>7
  <2> QED BY <2>8 DEF front
<1>8. Bad = {}
  <2>1. SUFFICES ASSUME Bad # {} PROVE FALSE OBVIOUS
  <2>2. PICK m \in Bad : \A i \in Bad : m <= i
    <3>1. Bad \subseteq Nat OBVIOUS
    <3> HIDE DEF Bad
    <3> QED BY <2>1, <3>1, NatMin
  <2>3. m # 0 BY <1>4, <1>5, <2>2
  <2>4. m \in 1..n /\ m - 1 \in 0..n /\ ~(m <= m - 1) BY <1>3, <2>2, <2>3
  <2>5. <<upto(m - 1), after[m - 1]>> \in K BY <2>2, <2>4
  <2> HIDE DEF upto
  <2>6. <<Append(upto(m - 1), records[m]), Applied(after[m - 1], records[m])>> \in K
    BY <1>3, <2>4, <2>5
  <2>7. upto(m) = Append(upto(m - 1), records[m]) /\ after[m] = Applied(after[m - 1], records[m])
    BY <1>4, <1>7, <2>4
  <2> QED BY <2>2, <2>6, <2>7
<1>9. <<upto(n), after[n]>> \in K
  <2>1. n \in 0..n BY <1>3
  <2> HIDE DEF upto, n
  <2> QED BY <1>8, <2>1
<1> QED BY <1>4, <1>6, <1>9

\* ... and so does appending them to a file that may end in a torn line.
LEMMA AppendChain ==
  ASSUME NEW R \in SUBSET Records, NEW K \in SUBSET (Seq(Lines) \X Ledgers),
         \A file, led : <<file, led>> \in K =>
           \A r \in R : <<Append(file, r), Applied(led, r)>> \in K,
         <<log, ledger>> \in K, EndsTorn(log) => <<Garbled(log), ledger>> \in K,
         NEW records \in Seq(R), AppendAll(records)
  PROVE  <<log', ledger'>> \in K
<1>1. CASE records = <<>> \/ ~EndsTorn(log)
  <2>1. log' = log \o records /\ ledger' = Folded(ledger, records)
    BY <1>1 DEF AppendAll, AfterAppend, Legible
  <2>2. <<log \o records, Folded(ledger, records)>> \in K BY Chain
  <2> QED BY <2>1, <2>2
<1>2. CASE records # <<>> /\ EndsTorn(log)
  <2>1. log' = Garbled(log) \o Tail(records) /\ ledger' = Folded(ledger, Tail(records))
    BY <1>2 DEF AppendAll, AfterAppend, Legible, Garbled
  <2>2. Tail(records) \in Seq(R) BY <1>2, HeadTailProperties
  <2>3. <<Garbled(log) \o Tail(records), Folded(ledger, Tail(records))>> \in K
    BY <1>2, <2>2, Chain
  <2> QED BY <2>1, <2>3
<1> QED BY <1>1, <1>2

LEMMA ReadsKept ==
  ASSUME Reads(log, ledger), NEW records \in Seq(Records), AppendAll(records)
  PROVE  Reads(log', ledger')
<1> DEFINE K == {p \in Seq(Lines) \X Ledgers : Reads(p[1], p[2])}
<1>1. \A file, led : <<file, led>> \in K <=> Reads(file, led) BY DEF Reads
<1>2. K \in SUBSET (Seq(Lines) \X Ledgers) OBVIOUS
<1>3. EndsTorn(log) => <<Garbled(log), ledger>> \in K BY <1>1, GarbledReads
<1>4. ASSUME NEW file, NEW led, <<file, led>> \in K, NEW r \in Records
      PROVE  <<Append(file, r), Applied(led, r)>> \in K
  BY <1>1, <1>4, ReadsAppend DEF Applied
<1>5. <<log, ledger>> \in K BY <1>1
<1> HIDE DEF K
<1>6. <<log', ledger'>> \in K BY <1>2, <1>3, <1>4, <1>5, AppendChain
<1> QED BY <1>1, <1>6

-----------------------------------------------------------------------------
(* The actions *)

LEMMA FillOfIs ==
  ASSUME NEW o \in Orders, told[o] \in Nat, NEW total \in Nat
  PROVE  FillOf(o, total) \in Fills /\ <<FillOf(o, total)>> \in Seq(Records)
<1> DEFINE shares == IF BasisOf[o] = "incremental" THEN total - told[o] ELSE total
<1>1. shares \in Int OBVIOUS
<1> HIDE DEF shares
<1>2. SignOf[o] * shares \in Int
  <2>1. SignOf[o] = 1 \/ SignOf[o] = -1 BY LedgerAssumption
  <2> QED BY <1>1, <2>1
<1>3. FillOf(o, total) = FillRecord(o, SymbolOf[o], SignOf[o] * shares, BasisOf[o])
  BY DEF FillOf, shares
<1>4. FillOf(o, total) \in Fills BY <1>2, <1>3 DEF Fills
<1> QED BY <1>4 DEF Records

LEMMA PositionTyped ==
  ASSUME done \in [Orders -> Nat], NEW s \in Symbols
  PROVE  /\ [o \in OrdersOf(s) |-> SignOf[o] * done[o]] \in [OrdersOf(s) -> Int]
         /\ Position(s) \in Int
<1> DEFINE f == [o \in OrdersOf(s) |-> SignOf[o] * done[o]]
<1>1. ASSUME NEW o \in OrdersOf(s) PROVE SignOf[o] * done[o] \in Int
  <2>1. SignOf[o] = 1 \/ SignOf[o] = -1 BY LedgerAssumption, OrdersIs
  <2>2. done[o] \in Nat BY OrdersIs
  <2> QED BY <2>1, <2>2
<1>2. f \in [OrdersOf(s) -> Int] BY <1>1
<1>3. Position(s) = SumFunction(f) BY DEF Position
<1> HIDE DEF f
<1>4. Position(s) \in Int BY <1>2, <1>3, OrdersIs, SumTyped
<1> QED BY <1>2, <1>4 DEF f

\* One record per symbol of a set is a sequence of records that names each.
LEMMA OrderingIs ==
  ASSUME NEW symbols \in SUBSET Symbols, NEW q \in Orderings(symbols)
  PROVE  /\ Len(q) = Cardinality(symbols) /\ Len(q) \in Nat /\ DOMAIN q = 1..Len(q)
         /\ \A i \in DOMAIN q : q[i] \in symbols
         /\ \A s \in symbols : \E i \in DOMAIN q : q[i] = s
<1>1. Cardinality(symbols) \in Nat BY LedgerAssumption, FS_Subset, FS_CardinalityType
<1>2. q \in [1..Cardinality(symbols) -> symbols] /\ \A s \in symbols : \E i \in DOMAIN q : q[i] = s
  BY DEF Orderings
<1>3. q \in Seq(symbols) BY <1>1, <1>2
<1>4. Len(q) = Cardinality(symbols) BY <1>1, <1>2
<1> QED BY <1>1, <1>2, <1>4

\* The records of a start-up adoption, and of a flatten.
Adoptions(q) == [i \in DOMAIN q |-> AdoptRecord(q[i], Position(q[i]))]
Closings(q)  == [i \in DOMAIN q |-> FlattenRecord(q[i])]

LEMMA SettlementsIs ==
  ASSUME done \in [Orders -> Nat], NEW symbols \in SUBSET Symbols, NEW q \in Orderings(symbols)
  PROVE  /\ Adoptions(q) \in Seq({AdoptRecord(s, Position(s)) : s \in symbols})
         /\ Closings(q) \in Seq({FlattenRecord(s) : s \in symbols})
         /\ Adoptions(q) \in Seq(Records) /\ Closings(q) \in Seq(Records)
         /\ Len(Adoptions(q)) = Len(q) /\ Len(Closings(q)) = Len(q)
<1> DEFINE A == {AdoptRecord(s, Position(s)) : s \in symbols}
           C == {FlattenRecord(s) : s \in symbols}
<1>1. Len(q) \in Nat /\ DOMAIN q = 1..Len(q) /\ \A i \in DOMAIN q : q[i] \in symbols BY OrderingIs
<1>2. Adoptions(q) \in [1..Len(q) -> A] /\ Closings(q) \in [1..Len(q) -> C]
  BY <1>1 DEF Adoptions, Closings
<1>3. A \subseteq Records /\ C \subseteq Records
  BY PositionTyped DEF Records, Settlements
<1> HIDE DEF A, C
<1>4. Adoptions(q) \in Seq(A) /\ Closings(q) \in Seq(C) BY <1>1, <1>2
<1>5. Adoptions(q) \in Seq(Records) /\ Closings(q) \in Seq(Records) BY <1>3, <1>4, SeqMonotonic
<1>6. Len(Adoptions(q)) = Len(q) /\ Len(Closings(q)) = Len(q) BY <1>1, <1>2
<1> QED BY <1>4, <1>5, <1>6 DEF A, C

-----------------------------------------------------------------------------
(* The invariant: the types, and the fold as the file reads *)

IInv == TypeOK /\ Reads(log, ledger)

LEMMA GarbledLen ==
  ASSUME log \in Seq(Lines)
  PROVE  EndsTorn(log) => Len(Garbled(log)) = Len(log) /\ Garbled(log) \in Seq(Lines)
<1> SUFFICES ASSUME EndsTorn(log)
             PROVE  Len(Garbled(log)) = Len(log) /\ Garbled(log) \in Seq(Lines) OBVIOUS
<1>1. Len(log) \in 1..Len(log) BY EmptySeq DEF EndsTorn
<1> QED BY <1>1, ExceptSeq DEF Garbled, Lines

LEMMA AppendTyped ==
  ASSUME IInv, NEW records \in Seq(Records), AppendAll(records)
  PROVE  /\ Reads(log', ledger') /\ DOMAIN log' = 1..Len(log') /\ Len(log') <= MaxLog
         /\ ledger' \in Ledgers
<1>1. Reads(log', ledger') BY ReadsKept DEF IInv
<1>2. log \in Seq(Lines) /\ records \in Seq(Lines) BY SeqMonotonic DEF IInv, Reads, Lines
<1>3. Len(log') <= Len(log) + Len(records)
  <2>0. Len(log) \in Nat /\ Len(records) \in Nat BY <1>2, LenProperties
  <2>1. CASE records = <<>> \/ ~EndsTorn(log)
    <3>1. log' = log \o records BY <2>1 DEF AppendAll, AfterAppend
    <3>2. Len(log') = Len(log) + Len(records) BY <1>2, <3>1, ConcatProperties
    <3> QED BY <2>0, <3>2
  <2>2. CASE records # <<>> /\ EndsTorn(log)
    <3>1. log' = Garbled(log) \o Tail(records) BY <2>2 DEF AppendAll, AfterAppend, Garbled
    <3>2. Tail(records) \in Seq(Lines) /\ Len(Tail(records)) = Len(records) - 1
      BY <1>2, <2>2, HeadTailProperties
    <3>3. Len(Garbled(log)) = Len(log) /\ Garbled(log) \in Seq(Lines) BY <1>2, <2>2, GarbledLen
    <3>4. Len(log') = Len(log) + (Len(records) - 1) BY <3>1, <3>2, <3>3, ConcatProperties
    <3> QED BY <2>0, <3>4
  <2> QED BY <2>1, <2>2
<1>4. log' \in Seq(Lines) /\ ledger' \in Ledgers BY <1>1 DEF Reads
<1>5. Len(log') \in Nat /\ DOMAIN log' = 1..Len(log') BY <1>4, LenProperties
<1>6. Len(log) + Len(records) <= MaxLog BY DEF AppendAll
<1>7. Len(log) \in Nat /\ Len(records) \in Nat /\ MaxLog \in Nat
  BY <1>2, LenProperties, LedgerAssumption
<1> QED BY <1>1, <1>3, <1>4, <1>5, <1>6, <1>7

\* What is settled by a restart or a flatten is all that was done.
LEMMA SettleTyped ==
  ASSUME TypeOK, NEW symbols \in SUBSET Symbols, Settle(symbols)
  PROVE  /\ told' \in [Orders -> Nat] /\ \A o \in Orders : told'[o] <= done[o]
         /\ settled' \in [Orders -> Nat] /\ \A o \in Orders : settled'[o] <= told'[o]
<1> DEFINE covered == UNION {OrdersOf(s) : s \in symbols}
<1>1. /\ told' = [o \in Orders |-> IF o \in covered THEN done[o] ELSE told[o]]
      /\ settled' = [o \in Orders |-> IF o \in covered THEN done[o] ELSE settled[o]]
  BY DEF Settle
<1> HIDE DEF covered
<1>2. \A o \in Orders : /\ done[o] \in Nat /\ told[o] \in Nat /\ settled[o] \in Nat
                        /\ told[o] <= done[o] /\ settled[o] <= told[o]
  BY DEF TypeOK
<1>3. told' \in [Orders -> Nat] /\ settled' \in [Orders -> Nat] BY <1>1, <1>2
<1>4. ASSUME NEW o \in Orders PROVE told'[o] <= done[o] /\ settled'[o] <= told'[o]
  <2>1. CASE o \in covered BY <1>1, <1>2, <2>1
  <2>2. CASE o \notin covered BY <1>1, <1>2, <2>2
  <2> QED BY <2>1, <2>2
<1> QED BY <1>3, <1>4

LEMMA InitIInv == Init => IInv
<1> SUFFICES ASSUME Init PROVE IInv OBVIOUS
<1>1. log = <<>> /\ log \in Seq(Lines) /\ Len(log) = 0 BY EmptySeq DEF Init
<1>2. ledger \in Ledgers /\ \A s \in Symbols : ledger.base[s] = 0
  BY DEF Init, EmptyLedger, Ledgers
<1>3. \A o \in Orders : ledger.live[o] = 0 BY DEF Init, EmptyLedger
<1>4. TypeOK
  <2>1. \A o \in Orders : done[o] = 0 /\ told[o] = 0 /\ settled[o] = 0 /\ SizeOf[o] \in Nat
    BY LedgerAssumption DEF Init
  <2>2. done \in [Orders -> Nat] /\ told \in [Orders -> Nat] /\ settled \in [Orders -> Nat]
        /\ touched \subseteq Symbols
    BY DEF Init
  <2>3. DOMAIN log = 1..Len(log) BY <1>1, LenProperties
  <2>4. Len(log) <= MaxLog BY <1>1, LedgerAssumption
  <2>5. \A o \in Orders : done[o] <= SizeOf[o] /\ told[o] <= done[o] /\ settled[o] <= told[o]
    BY <2>1
  <2> QED BY <1>2, <2>2, <2>3, <2>4, <2>5 DEF TypeOK, Ledgers
<1>5. ASSUME NEW s \in Symbols
      PROVE  Replay(log, s) = 0 /\ StandingFills(log, s) = {}
  <2>1. LastReset(log, s) = 0
    <3>1. IsLast(log, s, 0) BY <1>1 DEF IsLast
    <3> QED BY <1>1, <3>1, LastResetIs
  <2>2. StandingFills(log, s) = {} BY <1>1, <2>1 DEF StandingFills
  <2>3. Baseline(log, s) = 0 BY <2>1 DEF Baseline
  <2>4. QtySum(log, {}) = 0
    <3>1. [i \in {} |-> log[i].qty] \in [{} -> Int] OBVIOUS
    <3> QED BY <3>1, SumOverNone DEF QtySum
  <2>5. Replay(log, s) = 0 + 0 BY <1>1, <2>2, <2>3, <2>4, ReplayIs
  <2> QED BY <2>2, <2>5
<1>6. ASSUME NEW s \in Symbols PROVE Expected(ledger, s, OrdersOf(s)) = 0
  <2>1. SettledAt(ledger, s, 0) BY <1>2, <1>3, OrdersIs DEF SettledAt
  <2> QED BY <1>2, <2>1, ExpectedSettled
<1>7. ASSUME NEW o \in Orders PROVE Latest(log, ledger, o)
  <2>1. SymbolOf[o] \in Symbols BY LedgerAssumption
  <2> QED BY <1>3, <1>5, <2>1 DEF Latest
<1> QED BY <1>1, <1>2, <1>4, <1>5, <1>6, <1>7 DEF IInv, Reads

LEMMA ReportKeeps ==
  ASSUME IInv, NEW o \in Orders, NEW total \in Nat, RecordFill(o, total),
         told' \in [Orders -> Nat], done' = done, settled' = settled, touched' \subseteq Symbols,
         \A p \in Orders : told'[p] <= done[p] /\ settled[p] <= told'[p]
  PROVE  IInv'
<1>1. <<FillOf(o, total)>> \in Seq(Records)
  <2>1. told[o] \in Nat BY DEF IInv, TypeOK
  <2> QED BY <2>1, FillOfIs
<1>2. AppendAll(<<FillOf(o, total)>>) BY DEF RecordFill
<1> DEFINE records == <<FillOf(o, total)>>
<1> HIDE DEF records
<1>3. /\ Reads(log', ledger') /\ DOMAIN log' = 1..Len(log') /\ Len(log') <= MaxLog
      /\ ledger' \in Ledgers
  BY <1>1, <1>2, AppendTyped DEF records
<1> QED BY <1>3 DEF IInv, TypeOK, Ledgers

LEMMA VenueKept ==
  ASSUME IInv, NEW o \in Orders, NEW total, VenueFills(o, total)
  PROVE  IInv'
<1>1. /\ total \in done[o] + 1..SizeOf[o] /\ done' = [done EXCEPT ![o] = total]
      /\ UNCHANGED <<log, ledger, told, settled, touched>>
  BY DEF VenueFills
<1>2. /\ done \in [Orders -> Nat] /\ SizeOf[o] \in Nat
      /\ \A p \in Orders : done[p] <= SizeOf[p] /\ told[p] <= done[p] /\ told[p] \in Nat
  BY LedgerAssumption DEF IInv, TypeOK
<1>3. total \in Nat /\ total <= SizeOf[o] /\ done[o] <= total BY <1>1, <1>2
<1>4. done' \in [Orders -> Nat] BY <1>1, <1>2, <1>3
<1>5. ASSUME NEW p \in Orders PROVE done'[p] <= SizeOf[p] /\ told[p] <= done'[p]
  <2>1. CASE p = o
    <3>1. done'[p] = total BY <1>1, <1>2, <2>1
    <3>2. told[o] <= done[o] /\ told[o] \in Nat /\ done[o] \in Nat BY <1>2
    <3> QED BY <1>3, <2>1, <3>1, <3>2
  <2>2. CASE p # o BY <1>1, <1>2, <2>2
  <2> QED BY <2>1, <2>2
<1> QED BY <1>1, <1>4, <1>5 DEF IInv, TypeOK

LEMMA LostSymbol ==
  ASSUME NEW o \in Orders, NEW total
  PROVE  Lost(<<FillOf(o, total)>>) = IF EndsTorn(log) THEN {SymbolOf[o]} ELSE {}
BY DEF Lost, FillOf, FillRecord

LEMMA ReportKept ==
  ASSUME IInv, NEW o \in Orders, NEW total, ReportFill(o, total)
  PROVE  IInv'
<1>1. /\ total \in told[o] + 1..done[o] /\ RecordFill(o, total)
      /\ told' = [told EXCEPT ![o] = total] /\ done' = done /\ settled' = settled
      /\ touched' = touched \cup Lost(<<FillOf(o, total)>>)
  BY DEF ReportFill
<1>2. /\ told \in [Orders -> Nat] /\ done[o] \in Nat /\ touched \subseteq Symbols
      /\ \A p \in Orders : told[p] <= done[p] /\ settled[p] <= told[p] /\ settled[p] \in Nat
  BY DEF IInv, TypeOK
<1>3. total \in Nat /\ total <= done[o] /\ told[o] <= total BY <1>1, <1>2
<1>4. told' \in [Orders -> Nat] BY <1>1, <1>2, <1>3
<1>5. ASSUME NEW p \in Orders PROVE told'[p] <= done[p] /\ settled[p] <= told'[p]
  <2>1. CASE p = o
    <3>1. told'[p] = total BY <1>1, <1>2, <2>1
    <3>2. settled[o] <= told[o] /\ told[o] \in Nat /\ settled[o] \in Nat BY <1>2
    <3> QED BY <1>3, <2>1, <3>1, <3>2
  <2>2. CASE p # o BY <1>1, <1>2, <2>2
  <2> QED BY <2>1, <2>2
<1>6. touched' \subseteq Symbols
  <2>1. SymbolOf[o] \in Symbols BY LedgerAssumption
  <2> QED BY <1>1, <1>2, <2>1, LostSymbol
<1> QED BY <1>1, <1>3, <1>4, <1>5, <1>6, ReportKeeps

LEMMA RepeatKept ==
  ASSUME IInv, NEW o \in Orders, NEW total, RepeatFill(o, total)
  PROVE  IInv'
<1> DEFINE stale == total < told[o] \/ settled[o] > 0
<1>1. /\ total \in 1..told[o] /\ RecordFill(o, total)
      /\ told' = told /\ done' = done /\ settled' = settled
      /\ touched' = touched \cup (IF stale THEN {SymbolOf[o]} ELSE {}) \cup Lost(<<FillOf(o, total)>>)
  BY DEF RepeatFill
<1> HIDE DEF stale
<1>2. /\ told \in [Orders -> Nat] /\ touched \subseteq Symbols
      /\ \A p \in Orders : told[p] <= done[p] /\ settled[p] <= told[p]
  BY DEF IInv, TypeOK
<1>3. total \in Nat BY <1>1, <1>2
<1>4. touched' \subseteq Symbols
  <2>1. SymbolOf[o] \in Symbols BY LedgerAssumption
  <2> QED BY <1>1, <1>2, <2>1, LostSymbol
<1>5. told' \in [Orders -> Nat] /\ \A p \in Orders : told'[p] <= done[p] /\ settled[p] <= told'[p]
  BY <1>1, <1>2
<1> QED BY <1>1, <1>3, <1>4, <1>5, ReportKeeps

LEMMA SettleKept ==
  ASSUME IInv, NEW symbols \in SUBSET Symbols, NEW records \in Seq(Records), AppendAll(records),
         Settle(symbols), done' = done, touched' \subseteq Symbols
  PROVE  IInv'
<1>1. /\ Reads(log', ledger') /\ DOMAIN log' = 1..Len(log') /\ Len(log') <= MaxLog
      /\ ledger' \in Ledgers
  BY AppendTyped
<1>2. /\ told' \in [Orders -> Nat] /\ \A o \in Orders : told'[o] <= done[o]
      /\ settled' \in [Orders -> Nat] /\ \A o \in Orders : settled'[o] <= told'[o]
  BY SettleTyped DEF IInv
<1> QED BY <1>1, <1>2 DEF IInv, TypeOK, Ledgers

\* The symbol whose record a torn line takes with it is one of those settled.
LEMMA LostSettled ==
  ASSUME NEW symbols \in SUBSET Symbols, NEW q \in Orderings(symbols), symbols # {}
  PROVE  /\ q[1] \in symbols /\ Len(q) # 0
         /\ Lost(Adoptions(q)) = IF EndsTorn(log) THEN {q[1]} ELSE {}
         /\ Lost(Closings(q)) = IF EndsTorn(log) THEN {q[1]} ELSE {}
<1>1. /\ Len(q) \in Nat /\ DOMAIN q = 1..Len(q) /\ \A i \in DOMAIN q : q[i] \in symbols
      /\ \A s \in symbols : \E i \in DOMAIN q : q[i] = s
  BY OrderingIs
<1>2. 1 \in DOMAIN q /\ Len(q) # 0 BY <1>1
<1>3. Adoptions(q)[1] = AdoptRecord(q[1], Position(q[1])) /\ Closings(q)[1] = FlattenRecord(q[1])
  BY <1>2 DEF Adoptions, Closings
<1>4. Head(Adoptions(q)) = Adoptions(q)[1] /\ Head(Closings(q)) = Closings(q)[1] OBVIOUS
<1>5. Head(Adoptions(q)).symbol = q[1] /\ Head(Closings(q)).symbol = q[1]
  BY <1>3, <1>4 DEF AdoptRecord, FlattenRecord
<1> QED BY <1>1, <1>2, <1>5 DEF Lost

LEMMA AdoptKept == IInv /\ Adopt => IInv'
<1> SUFFICES ASSUME IInv, Adopt PROVE IInv' OBVIOUS
<1> DEFINE held == {s \in Symbols : Position(s) # 0}
           midway == {s \in held : \E o \in OrdersOf(s) : Midway(o)}
<1>1. PICK q \in Orderings(held) :
        AppendAll(Adoptions(q)) /\ touched' = (touched \ held) \cup midway \cup Lost(Adoptions(q))
  BY DEF Adopt, Adoptions
<1>2. held # {} /\ Settle(held) /\ done' = done BY DEF Adopt
<1>3. held \in SUBSET Symbols /\ midway \in SUBSET Symbols OBVIOUS
<1> HIDE DEF held, midway
<1>4. done \in [Orders -> Nat] /\ touched \subseteq Symbols BY DEF IInv, TypeOK
<1>5. Adoptions(q) \in Seq(Records) BY <1>1, <1>3, <1>4, SettlementsIs
<1>6. Lost(Adoptions(q)) \subseteq Symbols BY <1>1, <1>2, <1>3, LostSettled
<1>7. touched' \subseteq Symbols BY <1>1, <1>3, <1>4, <1>6
<1> QED BY <1>1, <1>2, <1>3, <1>5, <1>7, SettleKept

LEMMA FlattenKept == IInv /\ RecordFlatten => IInv'
<1> SUFFICES ASSUME IInv, RecordFlatten PROVE IInv' OBVIOUS
<1> DEFINE expected == {s \in Symbols : ExpectedOf(s) # 0}
           midway == {s \in expected : \E o \in OrdersOf(s) : Midway(o)}
<1>1. PICK q \in Orderings(expected) :
        AppendAll(Closings(q)) /\ touched' = (touched \ expected) \cup midway \cup Lost(Closings(q))
  BY DEF RecordFlatten, Closings
<1>2. expected # {} /\ Settle(expected) /\ done' = done BY DEF RecordFlatten
<1>3. expected \in SUBSET Symbols /\ midway \subseteq Symbols OBVIOUS
<1> HIDE DEF expected, midway
<1>4. done \in [Orders -> Nat] /\ touched \subseteq Symbols BY DEF IInv, TypeOK
<1>5. Closings(q) \in Seq(Records) BY <1>1, <1>3, <1>4, SettlementsIs
<1>6. Lost(Closings(q)) \subseteq Symbols BY <1>1, <1>2, <1>3, LostSettled
<1>7. touched' \subseteq Symbols BY <1>1, <1>3, <1>4, <1>6
<1> QED BY <1>1, <1>2, <1>3, <1>5, <1>7, SettleKept

LEMMA TornKept == IInv /\ TornWrite => IInv'
<1> SUFFICES ASSUME IInv, TornWrite PROVE IInv' OBVIOUS
<1>1. /\ Len(log) < MaxLog /\ log' = Append(log, TornLine)
      /\ UNCHANGED <<ledger, done, told, settled, touched>>
  BY DEF TornWrite
<1>2. log \in Seq(Lines) /\ TornLine \in Lines /\ Reads(log, ledger) BY DEF IInv, Reads, Lines
<1>3. Reads(log', ledger') BY <1>1, <1>2, UnreadableReads
<1>4. /\ DOMAIN log' = 1..Len(log') /\ Len(log') = Len(log) + 1 /\ Len(log) \in Nat
  BY <1>1, <1>2, AppendIs
<1>5. Len(log') <= MaxLog BY <1>1, <1>4, LedgerAssumption
<1> QED BY <1>1, <1>3, <1>4, <1>5 DEF IInv, TypeOK

LEMMA StutterKept == IInv /\ UNCHANGED vars => IInv'
BY DEF IInv, TypeOK, vars

LEMMA Kept == IInv /\ [Next]_vars => IInv'
<1> SUFFICES ASSUME IInv, [Next]_vars PROVE IInv' OBVIOUS
<1>1. ASSUME NEW o \in Orders, NEW total \in 1..SizeOf[o],
             VenueFills(o, total) \/ ReportFill(o, total) \/ RepeatFill(o, total)
      PROVE  IInv'
  BY <1>1, VenueKept, ReportKept, RepeatKept
<1>2. CASE Adopt BY <1>2, AdoptKept
<1>3. CASE RecordFlatten BY <1>3, FlattenKept
<1>4. CASE TornWrite BY <1>4, TornKept
<1>5. CASE UNCHANGED vars BY <1>5, StutterKept
<1> QED BY <1>1, <1>2, <1>3, <1>4, <1>5 DEF Next

THEOREM Invariant == Spec => []IInv
<1> QED BY InitIInv, Kept, PTL DEF Spec

\* The types: in particular the engine is never told more of an order than the
\* venue did, and no settlement covers more than was told.
THEOREM TypeCorrect == Spec => []TypeOK
<1>1. IInv => TypeOK BY DEF IInv
<1> QED BY <1>1, Invariant, PTL

\* The fold the live trader carries expects of every symbol what a full replay of
\* the file says (ledger.py, PositionLedger._replay), whatever was written: stale
\* and repeated reports, restarts between two fills, lines torn and written over,
\* and fills of any basis.
THEOREM FoldIsReplayAlways == Spec => []FoldIsReplay
<1>1. IInv => FoldIsReplay BY DEF IInv, Reads, FoldIsReplay, ExpectedOf
<1> QED BY <1>1, Invariant, PTL

-----------------------------------------------------------------------------
(* One order's report *)

\* The fills of an order that filled_quantity counts: those from its last report
\* of a total on.
Counted(file, o) ==
  LET fills   == FillsOf(file, o)
      reports == {i \in fills : file[i].basis # "incremental"}
  IN  {i \in fills : \A j \in reports : j <= i}

LEMMA CountedIs ==
  ASSUME NEW file \in Seq(Lines), NEW o
  PROVE  /\ Filling(file, Counted(file, o))
         /\ FilledQuantity(file, o) = QtySum(file, Counted(file, o))
         /\ FilledQuantity(file, o) \in Int
<1>1. DOMAIN file = 1..Len(file) /\ \A i \in 1..Len(file) : file[i] \in Lines
  BY LenProperties, ElementOfSeq
<1>2. \A i \in Counted(file, o) : i \in 1..Len(file) /\ file[i].event = "fill"
  BY <1>1 DEF Counted, FillsOf
<1>3. ASSUME NEW r \in Lines, r.event = "fill" PROVE IsFill(r)
  BY <1>3, LineIs DEF IsSettlement
<1>4. Filling(file, Counted(file, o)) BY <1>1, <1>2, <1>3 DEF Filling
<1>5. FilledQuantity(file, o) = QtySum(file, Counted(file, o))
  BY DEF FilledQuantity, Counted, QtySum
<1> QED BY <1>4, <1>5, FillingTyped

LEMMA FilledAppend ==
  ASSUME NEW file \in Seq(Lines), NEW r \in Lines, NEW o
  PROVE  FilledQuantity(Append(file, r), o) =
           IF IsFill(r) /\ r.order = o
           THEN IF r.basis = "incremental" THEN FilledQuantity(file, o) + r.qty ELSE r.qty
           ELSE FilledQuantity(file, o)
<1> DEFINE n == Len(file)
           longer == Append(file, r)
           at == Counted(file, o)
<1>1. /\ n \in Nat /\ DOMAIN file = 1..n /\ DOMAIN longer = 1..n + 1 /\ longer[n + 1] = r
      /\ longer \in Seq(Lines) /\ \A i \in 1..n : longer[i] = file[i]
  BY AppendIs
<1>2. IsFill(r) <=> r.event = "fill" BY LineIs DEF IsFill, IsSettlement
<1>3. /\ Filling(file, at) /\ FilledQuantity(file, o) = QtySum(file, at)
      /\ FilledQuantity(longer, o) = QtySum(longer, Counted(longer, o))
  BY <1>1, CountedIs
<1>4. at \in SUBSET (1..n) BY <1>3 DEF Filling
<1>d. at = {i \in FillsOf(file, o) : \A j \in FillsOf(file, o) : file[j].basis # "incremental" => j <= i}
  BY DEF Counted
<1> HIDE DEF n, longer, at
<1>5. \A i : i \in FillsOf(longer, o)
             <=> i \in FillsOf(file, o) \/ (IsFill(r) /\ r.order = o /\ i = n + 1)
  <2> TAKE i
  <2>1. CASE i \in 1..n BY <1>1, <2>1 DEF FillsOf
  <2>2. CASE i = n + 1 BY <1>1, <1>2, <2>2 DEF FillsOf
  <2>3. CASE i \notin 1..n /\ i # n + 1
    <3>1. i \notin 1..n + 1 BY <1>1, <2>3
    <3> QED BY <1>1, <2>3, <3>1 DEF FillsOf
  <2> QED BY <2>1, <2>2, <2>3
<1>6. \A i \in FillsOf(file, o) : i \in 1..n /\ longer[i] = file[i] BY <1>1 DEF FillsOf
<1>7. CASE ~(IsFill(r) /\ r.order = o)
  <2>1. FillsOf(longer, o) = FillsOf(file, o) BY <1>5, <1>7
  <2>2. Counted(longer, o) = at BY <1>6, <1>d, <2>1 DEF Counted
  <2>3. QtySum(longer, at) = QtySum(file, at) BY <1>4, QtySumBefore DEF n, longer
  <2> QED BY <1>3, <1>7, <2>2, <2>3 DEF longer
<1>8. CASE IsFill(r) /\ r.order = o /\ r.basis = "incremental"
  <2>1. Counted(longer, o) = at \cup {n + 1}
    <3>1. ASSUME NEW i PROVE i \in Counted(longer, o) <=> i \in at \cup {n + 1}
      <4>1. \A j \in FillsOf(file, o) : j <= n + 1 /\ j # n + 1 BY <1>1, <1>6
      <4>2. n + 1 \in Counted(longer, o) BY <1>1, <1>5, <1>6, <1>8, <4>1 DEF Counted
      <4>3. CASE i = n + 1 BY <4>2, <4>3
      <4>4. CASE i # n + 1 BY <1>1, <1>5, <1>6, <1>8, <1>d, <4>4 DEF Counted
      <4> QED BY <4>3, <4>4
    <3> QED BY <3>1
  <2>2. QtySum(longer, at \cup {n + 1}) = QtySum(file, at) + r.qty
    BY <1>3, <1>8, QtySumAppend DEF n, longer
  <2> QED BY <1>3, <1>8, <2>1, <2>2 DEF longer
<1>9. CASE IsFill(r) /\ r.order = o /\ r.basis # "incremental"
  <2>1. Counted(longer, o) = {} \cup {n + 1}
    <3>1. ASSUME NEW i PROVE i \in Counted(longer, o) <=> i = n + 1
      <4>1. \A j \in FillsOf(file, o) : j <= n + 1 /\ ~(n + 1 <= j) BY <1>1, <1>6
      <4>2. n + 1 \in Counted(longer, o) BY <1>1, <1>5, <1>6, <1>9, <4>1 DEF Counted
      <4>3. CASE i = n + 1 BY <4>2, <4>3
      <4>4. CASE i # n + 1
        <5>1. ASSUME i \in Counted(longer, o) PROVE FALSE
          <6>1. i \in FillsOf(file, o) BY <1>5, <4>4, <5>1 DEF Counted
          <6>2. n + 1 \in FillsOf(longer, o) /\ longer[n + 1].basis # "incremental"
            BY <1>1, <1>5, <1>9
          <6>3. n + 1 <= i BY <5>1, <6>2 DEF Counted
          <6> QED BY <4>1, <6>1, <6>3
        <5> QED BY <4>4, <5>1
      <4> QED BY <4>3, <4>4
    <3> QED BY <3>1
  <2>2. Filling(file, {}) BY DEF Filling
  <2>3. QtySum(file, {}) = 0
    <3>1. [i \in {} |-> file[i].qty] \in [{} -> Int] OBVIOUS
    <3> QED BY <3>1, SumOverNone DEF QtySum
  <2>4. QtySum(longer, {} \cup {n + 1}) = QtySum(file, {}) + r.qty
    BY <1>9, <2>2, QtySumAppend DEF n, longer
  <2>5. r.qty \in Int BY <1>9 DEF IsFill
  <2>6. FilledQuantity(longer, o) = r.qty BY <1>3, <2>1, <2>3, <2>4, <2>5
  <2> QED BY <1>9, <2>6 DEF longer
<1> QED BY <1>7, <1>8, <1>9

-----------------------------------------------------------------------------
(* The reports of a symbol's orders add up to its replay *)

\* Every writer says what its fills measure.
Measured == \A o \in Orders : BasisOf[o] # "none"

Reported(file, s) == SumFunction([o \in OrdersOf(s) |-> FilledQuantity(file, o)])

Agrees(file, led) ==
  /\ Reads(file, led)
  /\ \A s \in Symbols : LastReset(file, s) = 0 =>
       /\ Reported(file, s) = Replay(file, s)
       /\ \A o \in OrdersOf(s) : BasisOf[o] = "cumulative" => FilledQuantity(file, o) = led.live[o]

LEMMA ReportedSame ==
  ASSUME NEW file, NEW longer, NEW s, NEW led, NEW new,
         \A o \in OrdersOf(s) : FilledQuantity(longer, o) = FilledQuantity(file, o)
  PROVE  Reported(longer, s) = Reported(file, s)
<1>1. [o \in OrdersOf(s) |-> FilledQuantity(longer, o)] = [o \in OrdersOf(s) |-> FilledQuantity(file, o)]
  OBVIOUS
<1> QED BY <1>1 DEF Reported

LEMMA ReportedChange ==
  ASSUME NEW file \in Seq(Lines), NEW r \in Lines, IsFill(r)
  PROVE  LET longer == Append(file, r)
             s == r.symbol
         IN  /\ Reported(file, s) \in Int
             /\ Reported(longer, s) =
                  Reported(file, s) + FilledQuantity(longer, r.order) - FilledQuantity(file, r.order)
<1> DEFINE longer == Append(file, r)
           s == r.symbol
           o == r.order
           f == [p \in OrdersOf(s) |-> FilledQuantity(file, p)]
           g == [p \in OrdersOf(s) |-> FilledQuantity(longer, p)]
<1>1. s \in Symbols /\ o \in OrdersOf(s) BY DEF IsFill, OrdersOf
<1>2. longer \in Seq(Lines) BY AppendIs
<1>3. \A p \in OrdersOf(s) \ {o} : FilledQuantity(longer, p) = FilledQuantity(file, p)
  BY FilledAppend
<1> HIDE DEF longer, s, o
<1>4. f \in [OrdersOf(s) -> Int] /\ g \in [OrdersOf(s) -> Int] BY <1>2, CountedIs
<1>5. Agree(f, g, OrdersOf(s) \ {o}) BY <1>3 DEF Agree
<1>6. f[o] = FilledQuantity(file, o) /\ g[o] = FilledQuantity(longer, o) BY <1>1
<1>7. Reported(file, s) = SumFunction(f) /\ Reported(longer, s) = SumFunction(g) BY DEF Reported
<1> HIDE DEF f, g
<1>8. SumFunction(f) \in Int BY <1>1, <1>4, OrdersIs, SumTyped
<1>9. SumFunction(g) = SumFunction(f) + g[o] - f[o] BY <1>1, <1>4, <1>5, OrdersIs, SumChange
<1> QED BY <1>6, <1>7, <1>8, <1>9 DEF longer, s, o

LEMMA AppliedElsewhere ==
  ASSUME NEW led \in Ledgers, NEW r \in Records
  PROVE  /\ r.symbol \in Symbols
         /\ \A t \in Symbols \ {r.symbol} : SameFor(led, Applied(led, r), t)
<1>1. CASE r \in Settlements
  <2>1. IsSettlement(r) BY <1>1, SettlementIs
  <2>2. r.symbol \in Symbols BY <2>1 DEF IsSettlement
  <2> QED BY <2>1, <2>2, ApplySettlement DEF Applied
<1>2. CASE r \in Fills
  <2>1. IsFill(r) BY <1>2, FillIs
  <2>2. r.symbol \in Symbols BY <2>1 DEF IsFill
  <2>3. CASE r.basis = "cumulative" BY <2>1, <2>2, <2>3, ApplyTotal DEF Applied
  <2>4. CASE r.basis # "cumulative" BY <2>1, <2>2, <2>4, ApplyShares DEF Applied
  <2> QED BY <2>3, <2>4
<1> QED BY <1>1, <1>2 DEF Records

LEMMA AgreesAppend ==
  ASSUME Measured, NEW file, NEW led, Agrees(file, led), NEW r \in Records
  PROVE  Agrees(Append(file, r), Applied(led, r))
<1> DEFINE longer == Append(file, r)
           new == Applied(led, r)
<1>1. file \in Seq(Lines) /\ led \in Ledgers /\ r \in Lines /\ longer \in Seq(Lines)
  BY AppendIs DEF Agrees, Reads, Lines
<1>2. Reads(longer, new) BY ReadsAppend DEF Agrees, Applied
<1>3. r.symbol \in Symbols /\ \A t \in Symbols \ {r.symbol} : SameFor(led, new, t)
  BY <1>1, AppliedElsewhere
<1>4. ASSUME NEW s \in Symbols, LastReset(longer, s) = 0
      PROVE  /\ Reported(longer, s) = Replay(longer, s)
             /\ \A o \in OrdersOf(s) : BasisOf[o] = "cumulative" => FilledQuantity(longer, o) = new.live[o]
  <2>1. ~IsReset(r, s) /\ LastReset(file, s) = 0
    <3>1. Len(file) + 1 # 0 BY <1>1, AppendIs
    <3> QED BY <1>1, <1>4, <3>1, LastResetAppend
  <2>2. /\ Reported(file, s) = Replay(file, s)
        /\ \A o \in OrdersOf(s) : BasisOf[o] = "cumulative" => FilledQuantity(file, o) = led.live[o]
    BY <2>1 DEF Agrees
  <2>3. CASE ~(IsFill(r) /\ r.symbol = s)
    <3>1. Replay(longer, s) = Replay(file, s) BY <1>1, <2>1, <2>3, ReplayElsewhere
    <3>2. s # r.symbol BY <1>1, <2>1, <2>3, LineIs, SettlementIs, FillIs, ResetIs DEF Records
    <3>3. SameFor(led, new, s) BY <1>3, <3>2
    <3>4. ASSUME NEW o \in OrdersOf(s) PROVE FilledQuantity(longer, o) = FilledQuantity(file, o)
      <4>1. ~(IsFill(r) /\ r.order = o) BY <2>3 DEF IsFill, OrdersOf
      <4> QED BY <1>1, <4>1, FilledAppend
    <3> HIDE DEF longer, new
    <3>5. Reported(longer, s) = Reported(file, s) BY <3>4, ReportedSame
    <3> QED BY <2>2, <3>1, <3>3, <3>4, <3>5 DEF SameFor
  <2>4. CASE IsFill(r) /\ r.symbol = s
    <3> DEFINE o == r.order
    <3>1. o \in OrdersOf(s) /\ r.basis = BasisOf[o] /\ BasisOf[o] # "none" /\ r.qty \in Int
      BY <2>4 DEF IsFill, OrdersOf, Measured
    <3>2. /\ Reported(file, s) \in Int
          /\ Reported(longer, s) = Reported(file, s) + FilledQuantity(longer, o) - FilledQuantity(file, o)
      BY <1>1, <2>4, ReportedChange
    <3>3. FilledQuantity(file, o) \in Int BY <1>1, CountedIs
    <3>4. /\ Replay(longer, s) = Expected(new, s, OrdersOf(s))
          /\ Replay(file, s) = Expected(led, s, OrdersOf(s))
      BY <1>2 DEF Agrees, Reads
    <3>5. \A p \in OrdersOf(s) : p # o => FilledQuantity(longer, p) = FilledQuantity(file, p)
      BY <1>1, FilledAppend
    <3>6. CASE BasisOf[o] = "cumulative"
      <4>1. FilledQuantity(longer, o) = r.qty BY <1>1, <2>4, <3>1, <3>6, FilledAppend
      <4>2. /\ new.live[o] = r.qty /\ \A p \in Orders \ {o} : new.live[p] = led.live[p]
            /\ Expected(new, s, OrdersOf(s)) = Expected(led, s, OrdersOf(s)) + r.qty - led.live[o]
        BY <1>1, <2>4, <3>1, <3>6, ApplyTotal DEF Applied
      <4>3. FilledQuantity(file, o) = led.live[o] BY <2>2, <3>1, <3>6
      <4> HIDE DEF longer, new, o
      <4>4. Reported(longer, s) = Replay(longer, s)
        BY <2>2, <3>2, <3>4, <4>1, <4>2, <4>3
      <4>5. \A p \in OrdersOf(s) : BasisOf[p] = "cumulative" => FilledQuantity(longer, p) = new.live[p]
        <5> TAKE p \in OrdersOf(s)
        <5>1. p \in Orders BY OrdersIs
        <5> QED BY <2>2, <3>5, <4>1, <4>2, <5>1
      <4> QED BY <4>4, <4>5
    <3>7. CASE BasisOf[o] = "incremental"
      <4>1. FilledQuantity(longer, o) = FilledQuantity(file, o) + r.qty
        BY <1>1, <2>4, <3>1, <3>7, FilledAppend
      <4>2. /\ new.live = led.live
            /\ Expected(new, s, OrdersOf(s)) = Expected(led, s, OrdersOf(s)) + r.qty
        BY <1>1, <2>4, <3>1, <3>7, ApplyShares DEF Applied
      <4> HIDE DEF longer, new, o
      <4>3. Reported(longer, s) = Replay(longer, s)
        BY <2>2, <3>1, <3>2, <3>3, <3>4, <4>1, <4>2
      <4>4. \A p \in OrdersOf(s) : BasisOf[p] = "cumulative" => FilledQuantity(longer, p) = new.live[p]
        BY <2>2, <3>5, <3>7, <4>2
      <4> QED BY <4>3, <4>4
    <3>8. o \in Orders BY <3>1, OrdersIs
    <3>9. BasisOf[o] \in {"cumulative", "incremental"} BY <3>1, <3>8, LedgerAssumption DEF Bases
    <3> QED BY <3>6, <3>7, <3>9
  <2> QED BY <2>3, <2>4
<1> HIDE DEF longer, new
<1>5. Agrees(longer, new) BY <1>2, <1>4 DEF Agrees
<1> QED BY <1>5 DEF longer, new

LEMMA UnreadableAgrees ==
  ASSUME NEW file \in Seq(Lines), NEW r \in {TornLine, GarbledLine}, NEW led
  PROVE  Agrees(Append(file, r), led) <=> Agrees(file, led)
<1> DEFINE longer == Append(file, r)
<1>1. r \in Lines BY DEF Lines
<1>2. \A s : ~IsReset(r, s) /\ ~IsFill(r) BY DEF TornLine, GarbledLine, IsReset, Resets, IsFill
<1>3. Reads(longer, led) <=> Reads(file, led) BY UnreadableReads
<1>4. \A o : FilledQuantity(longer, o) = FilledQuantity(file, o) BY <1>1, <1>2, FilledAppend
<1>5. \A s : LastReset(longer, s) = LastReset(file, s) BY <1>1, <1>2, LastResetAppend
<1>6. \A s : Replay(longer, s) = Replay(file, s) BY <1>1, <1>2, ReplayElsewhere
<1> HIDE DEF longer
<1>7. \A s : Reported(longer, s) = Reported(file, s) BY <1>4, ReportedSame
<1>8. Agrees(longer, led) <=> Agrees(file, led) BY <1>3, <1>4, <1>5, <1>6, <1>7 DEF Agrees
<1> QED BY <1>8 DEF longer

\* A step writes records, tears a line, or leaves the file and its fold alone.
LEMMA FileSteps ==
  ASSUME IInv, [Next]_vars
  PROVE  \/ \E records \in Seq(Records) : AppendAll(records)
         \/ log' = Append(log, TornLine) /\ ledger' = ledger
         \/ log' = log /\ ledger' = ledger
<1> DEFINE Writes == \E records \in Seq(Records) : AppendAll(records)
           Tears == log' = Append(log, TornLine) /\ ledger' = ledger
           Leaves == log' = log /\ ledger' = ledger
<1>0. done \in [Orders -> Nat] /\ told \in [Orders -> Nat] /\ \A o \in Orders : SizeOf[o] \in Nat
  BY LedgerAssumption DEF IInv, TypeOK
<1>1. ASSUME NEW o \in Orders, NEW total \in 1..SizeOf[o], RecordFill(o, total) PROVE Writes
  <2>1. <<FillOf(o, total)>> \in Seq(Records)
    <3>1. told[o] \in Nat /\ total \in Nat BY <1>0
    <3> QED BY <3>1, FillOfIs
  <2>2. AppendAll(<<FillOf(o, total)>>) BY <1>1 DEF RecordFill
  <2> DEFINE records == <<FillOf(o, total)>>
  <2> HIDE DEF records
  <2> QED BY <2>1, <2>2 DEF records
<1>2. ASSUME NEW o \in Orders, NEW total \in 1..SizeOf[o],
             VenueFills(o, total) \/ ReportFill(o, total) \/ RepeatFill(o, total)
      PROVE  Writes \/ Leaves
  <2>1. CASE VenueFills(o, total)
    <3>1. Leaves BY <2>1 DEF VenueFills
    <3> QED BY <3>1
  <2>2. CASE ReportFill(o, total) \/ RepeatFill(o, total)
    <3>1. RecordFill(o, total) BY <2>2 DEF ReportFill, RepeatFill
    <3> HIDE DEF Writes
    <3> QED BY <1>1, <3>1
  <2> HIDE DEF Writes, Leaves
  <2> QED BY <1>2, <2>1, <2>2
<1>3. CASE Adopt
  <2> DEFINE held == {s \in Symbols : Position(s) # 0}
  <2>1. PICK q \in Orderings(held) : AppendAll(Adoptions(q)) BY <1>3 DEF Adopt, Adoptions
  <2>2. held \in SUBSET Symbols OBVIOUS
  <2> HIDE DEF held
  <2>3. Adoptions(q) \in Seq(Records) BY <1>0, <2>1, <2>2, SettlementsIs
  <2> QED BY <2>1, <2>3
<1>4. CASE RecordFlatten
  <2> DEFINE expected == {s \in Symbols : ExpectedOf(s) # 0}
  <2>1. PICK q \in Orderings(expected) : AppendAll(Closings(q)) BY <1>4 DEF RecordFlatten, Closings
  <2>2. expected \in SUBSET Symbols OBVIOUS
  <2> HIDE DEF expected
  <2>3. Closings(q) \in Seq(Records) BY <1>0, <2>1, <2>2, SettlementsIs
  <2> QED BY <2>1, <2>3
<1>5. CASE TornWrite BY <1>5 DEF TornWrite
<1>6. CASE UNCHANGED vars BY <1>6 DEF vars
<1> HIDE DEF Writes, Leaves, Tears
<1>7. Writes \/ Tears \/ Leaves
  BY <1>2, <1>3, <1>4, <1>5, <1>6 DEF Next, Writes, Tears, Leaves
<1> QED BY <1>7 DEF Writes, Tears, Leaves

LEMMA AgreesKept ==
  ASSUME Measured, IInv, Agrees(log, ledger), [Next]_vars
  PROVE  Agrees(log', ledger')
<1>1. CASE \E records \in Seq(Records) : AppendAll(records)
  <2>1. PICK records \in Seq(Records) : AppendAll(records) BY <1>1
  <2> DEFINE K == {p \in Seq(Lines) \X Ledgers : Agrees(p[1], p[2])}
  <2>2. \A file, led : <<file, led>> \in K <=> Agrees(file, led) BY DEF Agrees, Reads
  <2>3. K \in SUBSET (Seq(Lines) \X Ledgers) OBVIOUS
  <2>4. EndsTorn(log) => <<Garbled(log), ledger>> \in K
    <3>1. SUFFICES ASSUME EndsTorn(log) PROVE <<Garbled(log), ledger>> \in K OBVIOUS
    <3>2. PICK front \in Seq(Lines) :
            log = Append(front, TornLine) /\ Garbled(log) = Append(front, GarbledLine)
      BY <3>1, GarbledIs DEF IInv, Reads
    <3>3. Agrees(front, ledger) BY <3>2, UnreadableAgrees
    <3>4. Agrees(Garbled(log), ledger) BY <3>2, <3>3, UnreadableAgrees
    <3> QED BY <2>2, <3>4
  <2>5. ASSUME NEW file, NEW led, <<file, led>> \in K, NEW r \in Records
        PROVE  <<Append(file, r), Applied(led, r)>> \in K
    BY <2>2, <2>5, AgreesAppend
  <2>6. <<log, ledger>> \in K BY <2>2
  <2> HIDE DEF K
  <2>7. <<log', ledger'>> \in K BY <2>1, <2>3, <2>4, <2>5, <2>6, AppendChain
  <2> QED BY <2>2, <2>7
<1>2. CASE log' = Append(log, TornLine) /\ ledger' = ledger
  <2>1. log \in Seq(Lines) BY DEF IInv, Reads
  <2> QED BY <1>2, <2>1, UnreadableAgrees
<1>3. CASE log' = log /\ ledger' = ledger BY <1>3
<1> QED BY <1>1, <1>2, <1>3, FileSteps

LEMMA InitAgrees == Init => Agrees(log, ledger)
<1> SUFFICES ASSUME Init PROVE Agrees(log, ledger) OBVIOUS
<1>1. Reads(log, ledger) BY InitIInv DEF IInv
<1>2. log = <<>> /\ log \in Seq(Lines) /\ Len(log) = 0 BY EmptySeq DEF Init
<1>3. ASSUME NEW o PROVE FilledQuantity(log, o) = 0
  <2>1. Counted(log, o) = {} BY <1>2, LenProperties DEF Counted, FillsOf
  <2>2. [i \in {} |-> log[i].qty] \in [{} -> Int] OBVIOUS
  <2> QED BY <1>2, <2>1, <2>2, CountedIs, SumOverNone DEF QtySum
<1>4. ledger \in Ledgers /\ \A o \in Orders : ledger.live[o] = 0 BY DEF Init, EmptyLedger, Ledgers
<1>5. ASSUME NEW s \in Symbols PROVE Reported(log, s) = Replay(log, s)
  <2>1. SettledAt(ledger, s, 0) BY <1>4, OrdersIs DEF SettledAt, Init, EmptyLedger
  <2>2. Replay(log, s) = 0 BY <1>1, <1>4, <2>1, ExpectedSettled DEF Reads
  <2> DEFINE f == [o \in OrdersOf(s) |-> FilledQuantity(log, o)]
  <2>3. f \in [OrdersOf(s) -> Nat] /\ \A o \in OrdersOf(s) : f[o] = 0 BY <1>3
  <2>4. Reported(log, s) = SumFunction(f) BY DEF Reported
  <2> HIDE DEF f
  <2> QED BY <2>2, <2>3, <2>4, OrdersIs, SumZero
<1> QED BY <1>1, <1>3, <1>4, <1>5, OrdersIs DEF Agrees

\* While nothing has reset a symbol, what the lifecycle report says its orders have
\* filled (ledger.py, filled_quantity) adds up to what the replay expects, however
\* reports were missed, repeated, stale or torn.  A fill whose writer did not say what
\* it measures is counted by the one as a total and by the other as shares, which is
\* why they agree only when every writer says.
THEOREM ReportsAddUp == ASSUME Measured PROVE Spec => []LifecycleAgreesWithReplay
<1>1. Agrees(log, ledger) => LifecycleAgreesWithReplay
  BY DEF Agrees, Reported, LifecycleAgreesWithReplay
<1>2. Init => IInv /\ Agrees(log, ledger) BY InitIInv, InitAgrees
<1>3. IInv /\ Agrees(log, ledger) /\ [Next]_vars => IInv' /\ Agrees(log, ledger)'
  BY Kept, AgreesKept
<1> QED BY <1>1, <1>2, <1>3, PTL DEF Spec

-----------------------------------------------------------------------------
(* Symbols no fault has hit *)

Claimed(s) == SumFunction([o \in OrdersOf(s) |-> SignOf[o] * told[o]])

\* The fold expects what the engine was told; it holds each order's last total until
\* a settlement covers it; and what a settlement covers was over.
Known(s) ==
  /\ Measured => ExpectedOf(s) = Claimed(s)
  /\ \A o \in OrdersOf(s) :
       /\ BasisOf[o] = "cumulative" =>
            ledger.live[o] = IF settled[o] = 0 THEN SignOf[o] * told[o] ELSE 0
       /\ settled[o] # 0 => done[o] = SizeOf[o] /\ settled[o] = done[o]

Untouched == \A s \in Symbols \ touched : Known(s)

LEMMA Signed ==
  ASSUME NEW o \in Orders, NEW m \in Int, NEW n \in Int
  PROVE  /\ SignOf[o] * m \in Int /\ SignOf[o] * 0 = 0
         /\ SignOf[o] * (m - n) = SignOf[o] * m - SignOf[o] * n
<1>1. SignOf[o] = 1 \/ SignOf[o] = -1 BY LedgerAssumption
<1> QED BY <1>1

LEMMA ClaimedTyped ==
  ASSUME told \in [Orders -> Nat], NEW s \in Symbols
  PROVE  /\ [o \in OrdersOf(s) |-> SignOf[o] * told[o]] \in [OrdersOf(s) -> Int]
         /\ Claimed(s) \in Int
<1> DEFINE f == [o \in OrdersOf(s) |-> SignOf[o] * told[o]]
<1>1. ASSUME NEW o \in OrdersOf(s) PROVE SignOf[o] * told[o] \in Int
  <2>1. o \in Orders /\ told[o] \in Int BY OrdersIs
  <2> QED BY <2>1, Signed
<1>2. f \in [OrdersOf(s) -> Int] BY <1>1
<1>3. Claimed(s) = SumFunction(f) BY DEF Claimed
<1> HIDE DEF f
<1>4. Claimed(s) \in Int BY <1>2, <1>3, OrdersIs, SumTyped
<1> QED BY <1>2, <1>4 DEF f

\* What a symbol is known by has not changed.
LEMMA KnownSame ==
  ASSUME NEW s \in Symbols, Known(s), SameFor(ledger, ledger', s),
         \A o \in OrdersOf(s) : told'[o] = told[o] /\ settled'[o] = settled[o] /\ done'[o] = done[o]
  PROVE  Known(s)'
<1>1. ExpectedOf(s)' = ExpectedOf(s) BY ExpectedSame DEF ExpectedOf
<1>2. Claimed(s)' = Claimed(s)
  <2>1. [o \in OrdersOf(s) |-> SignOf[o] * told'[o]] = [o \in OrdersOf(s) |-> SignOf[o] * told[o]]
    OBVIOUS
  <2> QED BY <2>1 DEF Claimed
<1>3. \A o \in OrdersOf(s) : ledger'.live[o] = ledger.live[o] BY DEF SameFor
<1> QED BY <1>1, <1>2, <1>3 DEF Known

\* One record, or none, folded.
LEMMA FoldedOne ==
  ASSUME NEW led \in Ledgers, NEW r \in Records
  PROVE  Folded(led, <<r>>) = Applied(led, r) /\ Folded(led, <<>>) = led
<1>1. Folded(led, <<>>) = led
  <2> DEFINE none == <<>>
  <2>1. none \in Seq(Records) /\ Len(none) = 0 BY EmptySeq
  <2> HIDE DEF none
  <2>2. PICK after \in [0..Len(none) -> Ledgers] :
          after[0] = led /\ Folded(led, none) = after[Len(none)]
    BY <2>1, FoldedIs
  <2> QED BY <2>1, <2>2 DEF none
<1>2. Folded(led, <<r>>) = Applied(led, r)
  <2>1. <<r>> \in Seq(Records) /\ Len(<<r>>) = 1 /\ <<r>>[1] = r OBVIOUS
  <2> DEFINE records == <<r>>
  <2> HIDE DEF records
  <2>2. PICK after \in [0..Len(records) -> Ledgers] :
          /\ after[0] = led
          /\ \A i \in 1..Len(records) : after[i] = Applied(after[i - 1], records[i])
          /\ Folded(led, records) = after[Len(records)]
    BY <2>1, FoldedIs DEF records
  <2>3. Len(records) = 1 /\ records[1] = r BY <2>1 DEF records
  <2>4. 1 \in 1..Len(records) /\ 1 - 1 = 0 BY <2>3
  <2>5. after[1] = Applied(after[1 - 1], records[1]) BY <2>2, <2>4
  <2>6. after[1] = Applied(led, r) BY <2>2, <2>3, <2>4, <2>5
  <2> QED BY <2>2, <2>3, <2>6 DEF records
<1> QED BY <1>1, <1>2

\* What recording one fill does to the fold: nothing when its line is lost.
LEMMA FillFolds ==
  ASSUME IInv, NEW o \in Orders, NEW total \in Nat, RecordFill(o, total)
  PROVE  /\ EndsTorn(log) => ledger' = ledger
         /\ ~EndsTorn(log) => ledger' = Applied(ledger, FillOf(o, total))
<1> DEFINE r == FillOf(o, total)
<1>1. r \in Records
  <2>1. told[o] \in Nat BY DEF IInv, TypeOK
  <2> QED BY <2>1, FillOfIs DEF Records
<1>2. ledger \in Ledgers BY DEF IInv, Reads
<1>3. ledger' = Folded(ledger, Legible(log, <<r>>)) BY DEF RecordFill, AppendAll
<1> HIDE DEF r
<1>4. <<r>> # <<>> /\ Tail(<<r>>) = <<>> OBVIOUS
<1>5. Legible(log, <<r>>) = IF EndsTorn(log) THEN <<>> ELSE <<r>> BY <1>4 DEF Legible
<1> QED BY <1>1, <1>2, <1>3, <1>5, FoldedOne DEF r

\* A fill of an order leaves every other symbol's part of the fold alone.
LEMMA FillElsewhere ==
  ASSUME IInv, NEW o \in Orders, NEW total \in Nat, RecordFill(o, total),
         NEW s \in Symbols \ {SymbolOf[o]}
  PROVE  SameFor(ledger, ledger', s)
<1>1. FillOf(o, total) \in Records
  <2>1. told[o] \in Nat BY DEF IInv, TypeOK
  <2> QED BY <2>1, FillOfIs DEF Records
<1>2. FillOf(o, total).symbol = SymbolOf[o] BY DEF FillOf, FillRecord
<1>3. ledger \in Ledgers BY DEF IInv, Reads
<1>4. CASE EndsTorn(log)
  <2>1. ledger' = ledger BY <1>4, FillFolds
  <2> QED BY <2>1 DEF SameFor
<1>5. CASE ~EndsTorn(log)
  <2>1. ledger' = Applied(ledger, FillOf(o, total)) BY <1>5, FillFolds
  <2> QED BY <1>1, <1>2, <1>3, <2>1, AppliedElsewhere
<1> QED BY <1>4, <1>5

\* A report the engine takes moves the fold by what it was not told before.
LEMMA ReportKnown ==
  ASSUME IInv, NEW o \in Orders, NEW total, ReportFill(o, total), ~EndsTorn(log), Known(SymbolOf[o])
  PROVE  Known(SymbolOf[o])'
<1> DEFINE s == SymbolOf[o]
           r == FillOf(o, total)
           f == [p \in OrdersOf(s) |-> SignOf[p] * told[p]]
           g == [p \in OrdersOf(s) |-> SignOf[p] * told'[p]]
<1>1. /\ total \in told[o] + 1..done[o] /\ RecordFill(o, total)
      /\ told' = [told EXCEPT ![o] = total] /\ done' = done /\ settled' = settled
  BY DEF ReportFill
<1>2. /\ told \in [Orders -> Nat] /\ done[o] \in Nat /\ settled[o] \in Nat
      /\ settled[o] <= told[o] /\ ledger \in Ledgers
  BY DEF IInv, TypeOK, Reads
<1>3. total \in Nat /\ told[o] \in Nat /\ told' \in [Orders -> Nat] BY <1>1, <1>2
<1>4. s \in Symbols /\ o \in OrdersOf(s) BY LedgerAssumption DEF OrdersOf
<1>5. settled[o] = 0
  <2>1. settled[o] # 0 => settled[o] = done[o] BY <1>4 DEF Known
  <2>2. total <= done[o] /\ told[o] + 1 <= total BY <1>1, <1>2, <1>3
  <2> QED BY <1>2, <1>3, <2>1, <2>2
<1>6. r \in Fills BY <1>3, FillOfIs
<1>7. /\ IsFill(r) /\ r.symbol = s /\ r.order = o /\ r.basis = BasisOf[o]
      /\ r.qty = SignOf[o] * (IF BasisOf[o] = "incremental" THEN total - told[o] ELSE total)
  BY <1>6, FillIs DEF FillOf, FillRecord
<1>8. ledger' = Applied(ledger, r) BY <1>1, <1>3, FillFolds
<1>9. told'[o] = total /\ \A p \in Orders \ {o} : told'[p] = told[p] BY <1>1, <1>2
<1>10. /\ SignOf[o] * total \in Int /\ SignOf[o] * told[o] \in Int
       /\ SignOf[o] * (total - told[o]) = SignOf[o] * total - SignOf[o] * told[o]
  <2>1. SignOf[o] = 1 \/ SignOf[o] = -1 BY LedgerAssumption
  <2> QED BY <1>3, <2>1
<1>11. Claimed(s)' = Claimed(s) + SignOf[o] * total - SignOf[o] * told[o] /\ Claimed(s) \in Int
  <2>1. f \in [OrdersOf(s) -> Int] /\ g \in [OrdersOf(s) -> Int] /\ Claimed(s) \in Int
    <3>1. [told' EXCEPT ![o] = told'[o]] = told' BY <1>3
    <3>2. ASSUME NEW p \in OrdersOf(s) PROVE SignOf[p] * told'[p] \in Int
      <4>1. p \in Orders /\ told'[p] \in Int BY <1>3, <1>4, OrdersIs
      <4> QED BY <4>1, Signed
    <3> QED BY <1>2, <1>4, <3>2, ClaimedTyped
  <2>2. Agree(f, g, OrdersOf(s) \ {o}) BY <1>4, <1>9, OrdersIs DEF Agree
  <2>3. f[o] = SignOf[o] * told[o] /\ g[o] = SignOf[o] * total BY <1>4, <1>9
  <2>4. Claimed(s) = SumFunction(f) /\ Claimed(s)' = SumFunction(g) BY DEF Claimed
  <2> HIDE DEF f, g, s
  <2>5. SumFunction(g) = SumFunction(f) + g[o] - f[o] BY <1>4, <2>1, <2>2, OrdersIs, SumChange
  <2> QED BY <2>1, <2>3, <2>4, <2>5
<1>12. /\ Measured => ExpectedOf(s) = Claimed(s)
       /\ \A p \in OrdersOf(s) :
            /\ BasisOf[p] = "cumulative" =>
                 ledger.live[p] = IF settled[p] = 0 THEN SignOf[p] * told[p] ELSE 0
            /\ settled[p] # 0 => done[p] = SizeOf[p] /\ settled[p] = done[p]
  BY DEF Known
<1>13. CASE BasisOf[o] = "cumulative"
  <2>1. /\ ledger'.live[o] = r.qty /\ r.qty = SignOf[o] * total
        /\ \A p \in Orders \ {o} : ledger'.live[p] = ledger.live[p]
        /\ Expected(ledger', s, OrdersOf(s)) =
             Expected(ledger, s, OrdersOf(s)) + r.qty - ledger.live[o]
    BY <1>2, <1>7, <1>8, <1>13, ApplyTotal DEF Applied
  <2>2. ledger.live[o] = SignOf[o] * told[o] BY <1>4, <1>5, <1>12, <1>13
  <2>3. ExpectedOf(s)' = ExpectedOf(s) + SignOf[o] * total - SignOf[o] * told[o]
    BY <2>1, <2>2 DEF ExpectedOf
  <2>4. Measured => ExpectedOf(s)' = Claimed(s)'
    <3> HIDE DEF s
    <3> QED BY <1>11, <1>12, <2>3
  <2>5. ASSUME NEW p \in OrdersOf(s), BasisOf[p] = "cumulative"
        PROVE  ledger'.live[p] = IF settled[p] = 0 THEN SignOf[p] * told'[p] ELSE 0
    <3>1. CASE p = o BY <1>5, <1>9, <2>1, <3>1
    <3>2. CASE p # o BY <1>4, <1>9, <1>12, <2>1, <2>5, <3>2, OrdersIs
    <3> QED BY <3>1, <3>2
  <2> QED BY <1>1, <1>12, <2>4, <2>5 DEF Known
<1>14. CASE BasisOf[o] # "cumulative"
  <2>1. /\ ledger'.live = ledger.live
        /\ Expected(ledger', s, OrdersOf(s)) = Expected(ledger, s, OrdersOf(s)) + r.qty
    BY <1>2, <1>7, <1>8, <1>14, ApplyShares DEF Applied
  <2>2. Measured => ExpectedOf(s)' = Claimed(s)'
    <3> SUFFICES ASSUME Measured PROVE ExpectedOf(s)' = Claimed(s)' OBVIOUS
    <3>1. BasisOf[o] = "incremental" BY <1>14, LedgerAssumption DEF Measured, Bases
    <3>2. r.qty = SignOf[o] * total - SignOf[o] * told[o] BY <1>7, <1>10, <3>1
    <3>3. ExpectedOf(s)' = Claimed(s) + r.qty BY <1>12, <2>1 DEF ExpectedOf
    <3> HIDE DEF s, r
    <3> QED BY <1>10, <1>11, <3>2, <3>3
  <2>3. ASSUME NEW p \in OrdersOf(s), BasisOf[p] = "cumulative"
        PROVE  ledger'.live[p] = IF settled[p] = 0 THEN SignOf[p] * told'[p] ELSE 0
    <3>1. p # o /\ p \in Orders BY <1>4, <1>14, <2>3, OrdersIs
    <3> QED BY <1>9, <1>12, <2>1, <2>3, <3>1
  <2> QED BY <1>1, <1>12, <2>2, <2>3 DEF Known
<1> QED BY <1>13, <1>14

LEMMA ReportUntouched ==
  ASSUME IInv, Untouched, NEW o \in Orders, NEW total, ReportFill(o, total)
  PROVE  Untouched'
<1>1. /\ RecordFill(o, total) /\ told' = [told EXCEPT ![o] = total] /\ total \in Nat
      /\ done' = done /\ settled' = settled
      /\ touched' = touched \cup (IF EndsTorn(log) THEN {SymbolOf[o]} ELSE {})
  <2>1. told[o] \in Nat /\ done[o] \in Nat BY DEF IInv, TypeOK
  <2>2. total \in told[o] + 1..done[o] BY DEF ReportFill
  <2>3. total \in Nat BY <2>1, <2>2
  <2>4. touched' = touched \cup Lost(<<FillOf(o, total)>>) BY DEF ReportFill
  <2>5. touched' = touched \cup (IF EndsTorn(log) THEN {SymbolOf[o]} ELSE {})
    BY <2>4, LostSymbol
  <2> QED BY <2>3, <2>5 DEF ReportFill
<1>2. ASSUME NEW s \in Symbols \ touched' PROVE Known(s)'
  <2>1. Known(s) BY <1>1, <1>2 DEF Untouched
  <2>2. CASE s = SymbolOf[o]
    <3>1. ~EndsTorn(log) BY <1>1, <1>2, <2>2
    <3> QED BY <2>1, <2>2, <3>1, ReportKnown
  <2>3. CASE s # SymbolOf[o]
    <3>1. SameFor(ledger, ledger', s) BY <1>1, <1>2, <2>3, FillElsewhere
    <3>2. \A p \in OrdersOf(s) : told'[p] = told[p] BY <1>1, <2>3 DEF OrdersOf, IInv, TypeOK
    <3> QED BY <1>1, <1>2, <2>1, <3>1, <3>2, KnownSame
  <2> QED BY <2>2, <2>3
<1> QED BY <1>2 DEF Untouched

\* A report already recorded, in a symbol no fault hits, sets what stands already.
LEMMA RepeatMovesNothing ==
  ASSUME IInv, Untouched, NEW o \in Orders, NEW total, RepeatFill(o, total),
         SymbolOf[o] \notin touched'
  PROVE  ledger' = ledger
<1> DEFINE stale == total < told[o] \/ settled[o] > 0
           s == SymbolOf[o]
           r == FillOf(o, total)
<1>1. /\ BasisOf[o] = "cumulative" /\ total \in 1..told[o] /\ RecordFill(o, total)
      /\ touched' = touched \cup (IF stale THEN {s} ELSE {}) \cup Lost(<<FillOf(o, total)>>)
  BY DEF RepeatFill
<1>2. told[o] \in Nat /\ settled[o] \in Nat /\ ledger \in Ledgers BY DEF IInv, TypeOK, Reads
<1>3. s \in Symbols \ touched /\ o \in OrdersOf(s) /\ ~stale /\ ~EndsTorn(log)
  <2>1. s \in Symbols /\ o \in OrdersOf(s) BY LedgerAssumption DEF OrdersOf
  <2> HIDE DEF stale
  <2> QED BY <1>1, <2>1, LostSymbol
<1>4. total = told[o] /\ settled[o] = 0 /\ total \in Nat BY <1>1, <1>2, <1>3
<1>5. ledger.live[o] = SignOf[o] * total BY <1>1, <1>3, <1>4 DEF Untouched, Known
<1>6. r.event = "fill" /\ r.basis = "cumulative" /\ r.order = o /\ r.qty = SignOf[o] * total
  BY <1>1 DEF FillOf, FillRecord
<1>7. ledger' = Applied(ledger, r) BY <1>1, <1>3, <1>4, FillFolds
<1> HIDE DEF r
<1>8. ledger' = [ledger EXCEPT !.live[o] = r.qty] BY <1>6, <1>7 DEF Applied, Apply
<1> QED BY <1>2, <1>5, <1>6, <1>8 DEF Ledgers

LEMMA RepeatUntouched ==
  ASSUME IInv, Untouched, NEW o \in Orders, NEW total, RepeatFill(o, total)
  PROVE  Untouched'
<1>1. /\ RecordFill(o, total) /\ told' = told /\ done' = done /\ settled' = settled
      /\ touched \subseteq touched' /\ total \in Nat
  <2>1. told[o] \in Nat BY DEF IInv, TypeOK
  <2> QED BY <2>1 DEF RepeatFill
<1>2. ASSUME NEW s \in Symbols \ touched' PROVE Known(s)'
  <2>1. Known(s) BY <1>1, <1>2 DEF Untouched
  <2>2. CASE s = SymbolOf[o]
    <3>1. ledger' = ledger BY <1>2, <2>2, RepeatMovesNothing
    <3>2. SameFor(ledger, ledger', s) BY <3>1 DEF SameFor
    <3> QED BY <1>1, <1>2, <2>1, <3>2, KnownSame
  <2>3. CASE s # SymbolOf[o]
    <3>1. SameFor(ledger, ledger', s) BY <1>1, <1>2, <2>3, FillElsewhere
    <3> QED BY <1>1, <1>2, <2>1, <3>1, KnownSame
  <2> QED BY <2>2, <2>3
<1> QED BY <1>2 DEF Untouched

-----------------------------------------------------------------------------
(* Settling several symbols at once *)

\* The records that settle some symbols at given quantities.
SettlingAt(symbols, target) ==
  {r \in Settlements : r.symbol \in symbols /\ Recorded(r) = target[r.symbol]}

\* Before the records after the first n nothing was settled; each settles its symbol.
SettledSince(n, target, file, led) ==
  /\ Len(file) >= n
  /\ \A s \in Symbols :
       /\ (\E j \in n + 1..Len(file) : file[j].symbol = s) => SettledAt(led, s, target[s])
       /\ (\A j \in n + 1..Len(file) : file[j].symbol # s) => SameFor(ledger, led, s)

LEMMA SettledAppend ==
  ASSUME NEW n \in Nat, NEW target, NEW symbols, NEW file \in Seq(Lines), NEW led \in Ledgers,
         SettledSince(n, target, file, led), NEW r \in SettlingAt(symbols, target)
  PROVE  SettledSince(n, target, Append(file, r), Applied(led, r))
<1> DEFINE longer == Append(file, r)
           m == Len(file)
           new == Applied(led, r)
<1>1. r \in Lines /\ IsSettlement(r) /\ Recorded(r) = target[r.symbol]
  BY SettlementIs DEF SettlingAt, Lines, Records
<1>2. /\ m \in Nat /\ Len(longer) = m + 1 /\ longer[m + 1] = r
      /\ \A i \in 1..m : longer[i] = file[i]
  BY <1>1, AppendIs
<1>3. SettledAt(new, r.symbol, target[r.symbol]) /\ \A t \in Symbols \ {r.symbol} : SameFor(led, new, t)
  BY <1>1, ApplySettlement DEF Applied
<1>4. m >= n BY DEF SettledSince
<1> HIDE DEF longer, m, new
<1>5. \A j : j \in n + 1..m + 1 <=> j \in n + 1..m \/ j = m + 1 BY <1>2, <1>4
<1>6. \A j \in n + 1..m : longer[j] = file[j] BY <1>2
<1>7. ASSUME NEW s \in Symbols
      PROVE  /\ (\E j \in n + 1..m + 1 : longer[j].symbol = s) => SettledAt(new, s, target[s])
             /\ (\A j \in n + 1..m + 1 : longer[j].symbol # s) => SameFor(ledger, new, s)
  <2>1. CASE s = r.symbol BY <1>2, <1>3, <1>5, <2>1
  <2>2. CASE s # r.symbol
    <3>1. SameFor(led, new, s) BY <1>3, <2>2
    <3>2. (\E j \in n + 1..m + 1 : longer[j].symbol = s) => \E j \in n + 1..m : file[j].symbol = s
      BY <1>2, <1>5, <1>6, <2>2
    <3>3. (\A j \in n + 1..m + 1 : longer[j].symbol # s) => \A j \in n + 1..m : file[j].symbol # s
      BY <1>5, <1>6
    <3>4. /\ (\E j \in n + 1..m : file[j].symbol = s) => SettledAt(led, s, target[s])
          /\ (\A j \in n + 1..m : file[j].symbol # s) => SameFor(ledger, led, s)
      BY DEF SettledSince, m
    <3> QED BY <3>1, <3>2, <3>3, <3>4 DEF SettledAt, SameFor
  <2> QED BY <2>1, <2>2
<1>8. m + 1 >= n BY <1>2, <1>4
<1> QED BY <1>2, <1>7, <1>8 DEF SettledSince, longer, new

\* What appending them does to the fold: the symbols a reader sees a record of are
\* settled, those none concerns are left alone.
LEMMA SettleFolds ==
  ASSUME IInv, NEW symbols \in SUBSET Symbols, NEW target,
         NEW records \in Seq(SettlingAt(symbols, target)), AppendAll(records),
         NEW s \in Symbols
  PROVE  /\ s \notin symbols => SameFor(ledger, ledger', s)
         /\ (\E i \in 1..Len(Legible(log, records)) : Legible(log, records)[i].symbol = s)
              => SettledAt(ledger', s, target[s])
<1> DEFINE R == SettlingAt(symbols, target)
           K == {p \in Seq(Lines) \X Ledgers : SettledSince(Len(log), target, p[1], p[2])}
           n == Len(log)
           seen == Legible(log, records)
<1>1. R \in SUBSET Records /\ \A r \in R : r.symbol \in symbols BY DEF SettlingAt, Records
<1>2. log \in Seq(Lines) /\ ledger \in Ledgers /\ n \in Nat BY LenProperties DEF IInv, Reads
<1>3. \A file \in Seq(Lines) : \A led \in Ledgers :
        <<file, led>> \in K <=> SettledSince(n, target, file, led)
  OBVIOUS
<1>4. K \in SUBSET (Seq(Lines) \X Ledgers) OBVIOUS
<1>5. ASSUME NEW file \in Seq(Lines), Len(file) = n PROVE <<file, ledger>> \in K
  <2>1. n + 1..n = {} BY <1>2
  <2>2. n >= n BY <1>2
  <2>3. \A t : SameFor(ledger, ledger, t) BY DEF SameFor
  <2>4. SettledSince(n, target, file, ledger) BY <1>5, <2>1, <2>2, <2>3 DEF SettledSince
  <2> HIDE DEF K, n
  <2> QED BY <1>2, <1>3, <2>4
<1>6. EndsTorn(log) => <<Garbled(log), ledger>> \in K
  <2> HIDE DEF K
  <2> QED BY <1>2, <1>5, GarbledLen
<1>7. ASSUME NEW file, NEW led, <<file, led>> \in K, NEW r \in R
      PROVE  <<Append(file, r), Applied(led, r)>> \in K
  <2>1. file \in Seq(Lines) /\ led \in Ledgers BY <1>4, <1>7
  <2>2. r \in Records BY <1>1
  <2>3. Append(file, r) \in Seq(Lines) /\ Applied(led, r) \in Ledgers
    BY <2>1, <2>2, AppendIs, AppliedTyped DEF Lines
  <2> HIDE DEF K
  <2>4. SettledSince(n, target, file, led) BY <1>3, <1>7, <2>1
  <2> HIDE DEF n
  <2>5. SettledSince(n, target, Append(file, r), Applied(led, r))
    BY <1>2, <2>1, <2>4, SettledAppend
  <2> QED BY <1>3, <2>3, <2>5
<1>8. <<log, ledger>> \in K
  <2> HIDE DEF K
  <2> QED BY <1>2, <1>5
<1>9. records \in Seq(R) OBVIOUS
<1>k. /\ <<log', ledger'>> \in K => log' \in Seq(Lines) /\ ledger' \in Ledgers
  BY <1>4
<1> HIDE DEF R, K
<1>10. <<log', ledger'>> \in K BY <1>1, <1>4, <1>6, <1>7, <1>8, <1>9, AppendChain
<1>11. SettledSince(n, target, log', ledger') BY <1>3, <1>10, <1>k
<1>12. \E file \in Seq(Lines) : Len(file) = n /\ log' = file \o seen
  <2>1. CASE records = <<>> \/ ~EndsTorn(log)
    <3>1. log' = log \o seen BY <2>1 DEF AppendAll, AfterAppend, Legible
    <3> QED BY <1>2, <3>1
  <2>2. CASE records # <<>> /\ EndsTorn(log)
    <3>1. log' = Garbled(log) \o seen BY <2>2 DEF AppendAll, AfterAppend, Legible, Garbled
    <3> QED BY <1>2, <2>2, <3>1, GarbledLen
  <2> QED BY <2>1, <2>2
<1>13. seen \in Seq(R)
  <2>1. CASE records = <<>> \/ ~EndsTorn(log) BY <1>9, <2>1 DEF Legible
  <2>2. CASE records # <<>> /\ EndsTorn(log)
    <3>1. seen = Tail(records) BY <2>2 DEF Legible
    <3> QED BY <1>9, <2>2, <3>1, HeadTailProperties
  <2> QED BY <2>1, <2>2
<1> HIDE DEF seen, n
<1>14. PICK file \in Seq(Lines) : Len(file) = n /\ log' = file \o seen BY <1>12
<1>15. seen \in Seq(Lines) /\ Len(seen) \in Nat /\ \A i \in 1..Len(seen) : seen[i] \in R
  <2>1. R \subseteq Lines BY <1>1 DEF Lines
  <2> QED BY <1>13, <2>1, SeqMonotonic, LenProperties, ElementOfSeq
<1>16. /\ Len(log') = n + Len(seen)
       /\ \A i \in 1..n + Len(seen) : log'[i] = IF i <= n THEN file[i] ELSE seen[i - n]
  BY <1>14, <1>15, ConcatProperties
<1>17. \A j \in n + 1..Len(log') : j - n \in 1..Len(seen) /\ log'[j] = seen[j - n]
  <2> TAKE j \in n + 1..Len(log')
  <2>1. j \in 1..n + Len(seen) /\ ~(j <= n) /\ j - n \in 1..Len(seen) BY <1>2, <1>15, <1>16
  <2> QED BY <1>16, <2>1
<1>18. ASSUME s \notin symbols PROVE SameFor(ledger, ledger', s)
  <2>1. \A j \in n + 1..Len(log') : log'[j].symbol # s BY <1>1, <1>15, <1>17, <1>18
  <2> QED BY <1>11, <2>1 DEF SettledSince
<1>19. ASSUME NEW i \in 1..Len(seen), seen[i].symbol = s PROVE SettledAt(ledger', s, target[s])
  <2>1. n + i \in n + 1..Len(log') /\ (n + i) - n = i BY <1>2, <1>15, <1>16
  <2>2. log'[n + i].symbol = s BY <1>17, <1>19, <2>1
  <2> QED BY <1>11, <2>1, <2>2 DEF SettledSince
<1> QED BY <1>18, <1>19 DEF seen

\* The records of an ordering that a reader sees: all, or all but the first.
LEMMA SeenOf ==
  ASSUME NEW symbols \in SUBSET Symbols, NEW q \in Orderings(symbols), NEW V,
         NEW records \in Seq(V), Len(records) = Len(q), \A i \in 1..Len(q) : records[i].symbol = q[i],
         NEW s \in symbols, s \notin (IF EndsTorn(log) THEN {q[1]} ELSE {})
  PROVE  \E i \in 1..Len(Legible(log, records)) : Legible(log, records)[i].symbol = s
<1>1. Len(q) \in Nat /\ DOMAIN q = 1..Len(q) /\ \E i \in DOMAIN q : q[i] = s BY OrderingIs
<1>2. PICK k \in 1..Len(q) : q[k] = s BY <1>1
<1>3. CASE ~EndsTorn(log)
  <2>1. Legible(log, records) = records BY <1>3 DEF Legible
  <2> QED BY <1>2, <2>1
<1>4. CASE EndsTorn(log)
  <2>1. k # 1 BY <1>2, <1>4
  <2>2. records # <<>> BY <1>1, <1>2, EmptySeq
  <2>3. Legible(log, records) = Tail(records) BY <1>4, <2>2 DEF Legible
  <2>4. /\ Len(Tail(records)) = Len(q) - 1
        /\ \A i \in 1..Len(Tail(records)) : Tail(records)[i] = records[i + 1]
    BY <2>2, HeadTailProperties
  <2>5. k - 1 \in 1..Len(Tail(records)) /\ (k - 1) + 1 = k BY <1>1, <1>2, <2>1, <2>4
  <2>6. Tail(records)[k - 1].symbol = s BY <1>2, <2>4, <2>5
  <2> QED BY <2>3, <2>5, <2>6
<1> QED BY <1>3, <1>4

\* A symbol settled at its position, with no order between fills, is known again.
LEMMA SettledKnown ==
  ASSUME IInv, NEW symbols \in SUBSET Symbols, NEW s \in symbols, Settle(symbols), done' = done,
         ledger' \in Ledgers, SettledAt(ledger', s, Position(s)), \A o \in OrdersOf(s) : ~Midway(o)
  PROVE  Known(s)'
<1>1. \A o \in Orders : done[o] \in Nat BY DEF IInv, TypeOK
<1>2. s \in Symbols OBVIOUS
<1>3. \A o \in OrdersOf(s) : told'[o] = done[o] /\ settled'[o] = done[o]
  BY <1>2, OrdersIs DEF Settle
<1>4. Claimed(s)' = Position(s)
  <2>1. [o \in OrdersOf(s) |-> SignOf[o] * told'[o]] = [o \in OrdersOf(s) |-> SignOf[o] * done[o]]
    BY <1>3
  <2> QED BY <2>1 DEF Claimed, Position
<1>5. ExpectedOf(s)' = Position(s) BY <1>2, ExpectedSettled DEF ExpectedOf
<1>6. ASSUME NEW o \in OrdersOf(s)
      PROVE  /\ ledger'.live[o] = IF settled'[o] = 0 THEN SignOf[o] * told'[o] ELSE 0
             /\ settled'[o] # 0 => done'[o] = SizeOf[o] /\ settled'[o] = done'[o]
  <2>1. o \in Orders /\ ledger'.live[o] = 0 BY <1>2, OrdersIs DEF SettledAt
  <2>2. SignOf[o] * 0 = 0
    <3>1. SignOf[o] = 1 \/ SignOf[o] = -1 BY <2>1, LedgerAssumption
    <3> QED BY <3>1
  <2>3. done[o] \in {0, SizeOf[o]} BY DEF Midway
  <2> QED BY <1>3, <2>1, <2>2, <2>3
<1> QED BY <1>4, <1>5, <1>6 DEF Known

\* A symbol no record of a settlement concerns is known as it was.
LEMMA UnsettledKnown ==
  ASSUME IInv, NEW symbols \in SUBSET Symbols, NEW s \in Symbols \ symbols, Settle(symbols),
         done' = done, SameFor(ledger, ledger', s), Known(s)
  PROVE  Known(s)'
<1>1. \A o \in OrdersOf(s) : o \in Orders /\ o \notin UNION {OrdersOf(t) : t \in symbols}
  BY DEF OrdersOf
<1>2. \A o \in OrdersOf(s) : told'[o] = told[o] /\ settled'[o] = settled[o] /\ done'[o] = done[o]
  BY <1>1 DEF Settle
<1> QED BY <1>2, KnownSame

LEMMA AdoptUntouched == IInv /\ Untouched /\ Adopt => Untouched'
<1> SUFFICES ASSUME IInv, Untouched, Adopt PROVE Untouched' OBVIOUS
<1> DEFINE held == {s \in Symbols : Position(s) # 0}
           midway == {s \in held : \E o \in OrdersOf(s) : Midway(o)}
           target == [s \in Symbols |-> Position(s)]
<1>1. PICK q \in Orderings(held) :
        AppendAll(Adoptions(q)) /\ touched' = (touched \ held) \cup midway \cup Lost(Adoptions(q))
  BY DEF Adopt, Adoptions
<1>2. held # {} /\ Settle(held) /\ done' = done BY DEF Adopt
<1>3. held \in SUBSET Symbols /\ \A s \in held \ midway : \A o \in OrdersOf(s) : ~Midway(o) OBVIOUS
<1>4. \A s \in Symbols : target[s] = Position(s) OBVIOUS
<1> HIDE DEF held, midway, target
<1>5. done \in [Orders -> Nat] BY DEF IInv, TypeOK
<1>6. /\ Adoptions(q) \in Seq({AdoptRecord(s, Position(s)) : s \in held})
      /\ Adoptions(q) \in Seq(Records) /\ Len(Adoptions(q)) = Len(q)
  BY <1>1, <1>3, <1>5, SettlementsIs
<1>7. {AdoptRecord(s, Position(s)) : s \in held} \subseteq SettlingAt(held, target)
  <2> SUFFICES ASSUME NEW s \in held PROVE AdoptRecord(s, Position(s)) \in SettlingAt(held, target)
    OBVIOUS
  <2>1. s \in Symbols /\ Position(s) \in Int BY <1>3, <1>5, PositionTyped
  <2>2. AdoptRecord(s, Position(s)) \in Settlements BY <2>1 DEF Settlements
  <2>3. AdoptRecord(s, Position(s)).symbol = s /\ Recorded(AdoptRecord(s, Position(s))) = Position(s)
    BY DEF AdoptRecord, Recorded
  <2> QED BY <1>4, <2>1, <2>2, <2>3 DEF SettlingAt
<1>8. Adoptions(q) \in Seq(SettlingAt(held, target)) BY <1>6, <1>7, SeqMonotonic
<1>9. \A i \in 1..Len(q) : Adoptions(q)[i].symbol = q[i]
  <2>1. DOMAIN q = 1..Len(q) BY <1>1, <1>3, OrderingIs
  <2> QED BY <2>1 DEF Adoptions, AdoptRecord
<1>10. Lost(Adoptions(q)) = IF EndsTorn(log) THEN {q[1]} ELSE {} BY <1>1, <1>2, <1>3, LostSettled
<1>11. ledger' \in Ledgers BY <1>1, <1>6, AppendTyped
<1>12. ASSUME NEW s \in Symbols \ touched' PROVE Known(s)'
  <2>1. CASE s \in held
    <3>1. s \notin midway /\ s \notin Lost(Adoptions(q)) BY <1>1, <1>12
    <3>2. \E i \in 1..Len(Legible(log, Adoptions(q))) : Legible(log, Adoptions(q))[i].symbol = s
      BY <1>1, <1>3, <1>6, <1>9, <1>10, <2>1, <3>1, SeenOf
    <3>3. SettledAt(ledger', s, target[s]) BY <1>1, <1>3, <1>8, <3>2, SettleFolds
    <3>4. SettledAt(ledger', s, Position(s)) BY <1>4, <3>3
    <3>5. \A o \in OrdersOf(s) : ~Midway(o) BY <1>3, <2>1, <3>1
    <3> QED BY <1>2, <1>3, <1>11, <2>1, <3>4, <3>5, SettledKnown
  <2>2. CASE s \notin held
    <3>1. Known(s) BY <1>1, <1>12, <2>2 DEF Untouched
    <3>2. SameFor(ledger, ledger', s) BY <1>1, <1>3, <1>8, <2>2, SettleFolds
    <3> QED BY <1>2, <1>3, <2>2, <3>1, <3>2, UnsettledKnown
  <2> QED BY <2>1, <2>2
<1> QED BY <1>12 DEF Untouched

LEMMA FlattenUntouched == IInv /\ Untouched /\ RecordFlatten => Untouched'
<1> SUFFICES ASSUME IInv, Untouched, RecordFlatten PROVE Untouched' OBVIOUS
<1> DEFINE expected == {s \in Symbols : ExpectedOf(s) # 0}
           midway == {s \in expected : \E o \in OrdersOf(s) : Midway(o)}
           target == [s \in Symbols |-> 0]
<1>1. PICK q \in Orderings(expected) :
        AppendAll(Closings(q)) /\ touched' = (touched \ expected) \cup midway \cup Lost(Closings(q))
  BY DEF RecordFlatten, Closings
<1>2. /\ expected # {} /\ Settle(expected) /\ done' = done
      /\ \A s \in Symbols : Position(s) = 0
  BY DEF RecordFlatten
<1>3. expected \in SUBSET Symbols /\ \A s \in expected \ midway : \A o \in OrdersOf(s) : ~Midway(o) OBVIOUS
<1>4. \A s \in Symbols : target[s] = 0 OBVIOUS
<1> HIDE DEF expected, midway, target
<1>5. done \in [Orders -> Nat] BY DEF IInv, TypeOK
<1>6. /\ Closings(q) \in Seq({FlattenRecord(s) : s \in expected})
      /\ Closings(q) \in Seq(Records) /\ Len(Closings(q)) = Len(q)
  BY <1>1, <1>3, <1>5, SettlementsIs
<1>7. {FlattenRecord(s) : s \in expected} \subseteq SettlingAt(expected, target)
  <2> SUFFICES ASSUME NEW s \in expected PROVE FlattenRecord(s) \in SettlingAt(expected, target)
    OBVIOUS
  <2>1. s \in Symbols BY <1>3
  <2>2. FlattenRecord(s) \in Settlements BY <2>1 DEF Settlements
  <2>3. FlattenRecord(s).symbol = s /\ Recorded(FlattenRecord(s)) = 0
    BY DEF FlattenRecord, Recorded
  <2> QED BY <1>4, <2>1, <2>2, <2>3 DEF SettlingAt
<1>8. Closings(q) \in Seq(SettlingAt(expected, target)) BY <1>6, <1>7, SeqMonotonic
<1>9. \A i \in 1..Len(q) : Closings(q)[i].symbol = q[i]
  <2>1. DOMAIN q = 1..Len(q) BY <1>1, <1>3, OrderingIs
  <2> QED BY <2>1 DEF Closings, FlattenRecord
<1>10. Lost(Closings(q)) = IF EndsTorn(log) THEN {q[1]} ELSE {} BY <1>1, <1>2, <1>3, LostSettled
<1>11. ledger' \in Ledgers BY <1>1, <1>6, AppendTyped
<1>12. ASSUME NEW s \in Symbols \ touched' PROVE Known(s)'
  <2>1. CASE s \in expected
    <3>1. s \notin midway /\ s \notin Lost(Closings(q)) BY <1>1, <1>12
    <3>2. \E i \in 1..Len(Legible(log, Closings(q))) : Legible(log, Closings(q))[i].symbol = s
      BY <1>1, <1>3, <1>6, <1>9, <1>10, <2>1, <3>1, SeenOf
    <3>3. SettledAt(ledger', s, target[s]) BY <1>1, <1>3, <1>8, <3>2, SettleFolds
    <3>4. SettledAt(ledger', s, Position(s)) BY <1>2, <1>4, <3>3
    <3>5. \A o \in OrdersOf(s) : ~Midway(o) BY <1>3, <2>1, <3>1
    <3> QED BY <1>2, <1>3, <1>11, <2>1, <3>4, <3>5, SettledKnown
  <2>2. CASE s \notin expected
    <3>1. Known(s) BY <1>1, <1>12, <2>2 DEF Untouched
    <3>2. SameFor(ledger, ledger', s) BY <1>1, <1>3, <1>8, <2>2, SettleFolds
    <3> QED BY <1>2, <1>3, <2>2, <3>1, <3>2, UnsettledKnown
  <2> QED BY <2>1, <2>2
<1> QED BY <1>12 DEF Untouched

LEMMA VenueUntouched ==
  ASSUME IInv, Untouched, NEW o \in Orders, NEW total, VenueFills(o, total)
  PROVE  Untouched'
<1>1. /\ total \in done[o] + 1..SizeOf[o] /\ done' = [done EXCEPT ![o] = total]
      /\ UNCHANGED <<log, ledger, told, settled, touched>>
  BY DEF VenueFills
<1>2. done \in [Orders -> Nat] /\ SizeOf[o] \in Nat BY LedgerAssumption DEF IInv, TypeOK
<1>3. done[o] # SizeOf[o] BY <1>1, <1>2
<1>4. \A p \in Orders \ {o} : done'[p] = done[p] BY <1>1, <1>2
<1>5. ASSUME NEW s \in Symbols \ touched PROVE Known(s)'
  <2>1. Known(s) BY DEF Untouched
  <2>2. ExpectedOf(s)' = ExpectedOf(s) /\ Claimed(s)' = Claimed(s)
    BY <1>1 DEF ExpectedOf, Claimed
  <2>3. ASSUME NEW p \in OrdersOf(s), settled[p] # 0 PROVE done'[p] = SizeOf[p] /\ settled[p] = done'[p]
    <3>1. done[p] = SizeOf[p] /\ settled[p] = done[p] BY <2>1, <2>3 DEF Known
    <3>2. p \in Orders \ {o} BY <1>3, <3>1, OrdersIs
    <3> QED BY <1>4, <3>1, <3>2
  <2> QED BY <1>1, <2>1, <2>2, <2>3 DEF Known
<1> QED BY <1>1, <1>5 DEF Untouched

LEMMA UntouchedSame ==
  ASSUME Untouched, UNCHANGED <<ledger, done, told, settled, touched>>
  PROVE  Untouched'
BY DEF Untouched, Known, Claimed, ExpectedOf

LEMMA UntouchedKept == IInv /\ Untouched /\ [Next]_vars => Untouched'
<1> SUFFICES ASSUME IInv, Untouched, [Next]_vars PROVE Untouched' OBVIOUS
<1>1. ASSUME NEW o \in Orders, NEW total \in 1..SizeOf[o],
             VenueFills(o, total) \/ ReportFill(o, total) \/ RepeatFill(o, total)
      PROVE  Untouched'
  BY <1>1, VenueUntouched, ReportUntouched, RepeatUntouched
<1>2. CASE Adopt BY <1>2, AdoptUntouched
<1>3. CASE RecordFlatten BY <1>3, FlattenUntouched
<1>4. CASE TornWrite BY <1>4, UntouchedSame DEF TornWrite
<1>5. CASE UNCHANGED vars BY <1>5, UntouchedSame DEF vars
<1> QED BY <1>1, <1>2, <1>3, <1>4, <1>5 DEF Next

LEMMA InitUntouched == Init => Untouched
<1> SUFFICES ASSUME Init, NEW s \in Symbols PROVE Known(s) BY DEF Untouched
<1>1. /\ ledger \in Ledgers /\ SettledAt(ledger, s, 0)
      /\ \A o \in OrdersOf(s) : told[o] = 0 /\ settled[o] = 0
  BY OrdersIs DEF Init, EmptyLedger, Ledgers, SettledAt
<1>2. ExpectedOf(s) = 0 BY <1>1, ExpectedSettled DEF ExpectedOf
<1>3. \A o \in OrdersOf(s) : SignOf[o] * told[o] = 0
  <2> TAKE o \in OrdersOf(s)
  <2>1. o \in Orders BY OrdersIs
  <2>2. SignOf[o] = 1 \/ SignOf[o] = -1 BY <2>1, LedgerAssumption
  <2> QED BY <1>1, <2>2
<1>4. Claimed(s) = 0
  <2> DEFINE f == [o \in OrdersOf(s) |-> SignOf[o] * told[o]]
  <2>1. f \in [OrdersOf(s) -> Nat] /\ \A o \in OrdersOf(s) : f[o] = 0 BY <1>3
  <2>2. Claimed(s) = SumFunction(f) BY DEF Claimed
  <2> HIDE DEF f
  <2> QED BY <2>1, <2>2, OrdersIs, SumZero
<1> QED BY <1>1, <1>2, <1>3, <1>4 DEF Known, SettledAt

LEMMA UntouchedInvariant == Spec => [](IInv /\ Untouched)
<1> QED BY InitIInv, InitUntouched, Kept, UntouchedKept, PTL DEF Spec

LEMMA KnownReconciles ==
  ASSUME Measured, IInv, Untouched
  PROVE  UntouchedReconcile
<1> SUFFICES ASSUME told = done PROVE DriftIn(Symbols \ touched) = {} BY DEF UntouchedReconcile
<1>1. ASSUME NEW s \in Symbols \ touched PROVE Replay(log, s) = Position(s)
  <2>1. ExpectedOf(s) = Claimed(s) BY <1>1 DEF Untouched, Known
  <2>2. Claimed(s) = Position(s) BY DEF Claimed, Position
  <2>3. ExpectedOf(s) = Replay(log, s) BY DEF IInv, Reads, ExpectedOf
  <2> QED BY <2>1, <2>2, <2>3
<1> DEFINE replays == [s \in Symbols |-> Replay(log, s)]
           positions == [s \in Symbols |-> Position(s)]
<1>2. \A t \in Symbols \ touched : replays[t] = positions[t] BY <1>1
<1>3. DriftIn(Symbols \ touched) = Reconcile(Symbols \ touched, replays, positions) BY DEF DriftIn
<1> HIDE DEF replays, positions
<1>4. \A t \in Symbols \ touched : Divergence(replays[t], positions[t]) = "none"
  BY <1>2 DEF Divergence
<1> QED BY <1>3, <1>4 DEF Reconcile

\* Once the engine has been told the running total of every order, what a replay of
\* the file expects is what the broker holds, in every symbol no fault has hit since
\* it was last settled: reports missed and repeated, restarts between orders and
\* flattens cost nothing, and a fault stays in the symbol it hit.
THEOREM ReconcilesUntouched == ASSUME Measured PROVE Spec => []UntouchedReconcile
<1>1. IInv /\ Untouched => UntouchedReconcile BY KnownReconciles
<1> QED BY <1>1, UntouchedInvariant, PTL

\* A report that was already recorded (record_fill), arriving again before anything
\* newer, moves nothing the ledger expects.
THEOREM RepeatsAreIdempotent == Spec => RepeatsMoveNothing
<1>1. ASSUME IInv, Untouched
      PROVE  \A o \in Orders : \A total \in 1..SizeOf[o] :
               RepeatFill(o, total) /\ SymbolOf[o] \notin touched' => ledger' = ledger
  <2> TAKE o \in Orders
  <2> TAKE total \in 1..SizeOf[o]
  <2> HAVE RepeatFill(o, total) /\ SymbolOf[o] \notin touched'
  <2> QED BY <1>1, RepeatMovesNothing
<1>2. IInv /\ Untouched =>
        [\A o \in Orders : \A total \in 1..SizeOf[o] :
           RepeatFill(o, total) /\ SymbolOf[o] \notin touched' => ledger' = ledger]_vars
  BY <1>1
<1> QED BY <1>2, UntouchedInvariant, PTL DEF Spec, RepeatsMoveNothing
=============================================================================
