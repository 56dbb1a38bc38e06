------------------------- MODULE TrialStore_proofs -------------------------
(***************************************************************************)
(* What holds of the journal and its index for any processes, trials and   *)
(* rounds, and any number of torn lines, lost journals and kills: the      *)
(* types, that no trial goes uncounted and no quarantine is lifted unless  *)
(* a race nothing orders has been run, and what a replay counts.           *)
(***************************************************************************)
EXTENDS TrialStore, DataInduction, SequenceTheorems

\* A trial's line is written once, before any line that quarantines it; the
\* rounds' lines are in the rounds' order, after the one their session starts with.
JournalInv ==
  /\ \A i \in DOMAIN journal : journal[i].kind \in {"trial", "mark"} => journal[i].id \in begun
  /\ \A i, j \in DOMAIN journal : \A t \in Ids :
       i < j /\ journal[j] = Trial(t) =>
         /\ journal[i] # Trial(t) /\ journal[i] # Quarantine(t)
         /\ \A r \in Rounds : t \in Rounds /\ journal[i] = Trial(r) => r < t
  /\ \A r \in Rounds \cap begun : 1..r \subseteq begun
  /\ \A i, j \in DOMAIN journal : \A r \in Rounds : i < j /\ journal[j] = Start => journal[i] # Trial(r)
  /\ started \/ (Start \notin Lines /\ Rounds \cap begun = {})

ReadRounds(p) == ReadTrials(p) \cap Rounds

Jobs == {Trial(t) : t \in Ids} \cup {Quarantine(t) : t \in Ids}

\* Where a process is in its work says what it holds.
JobsInv ==
  \A p \in Processes :
    /\ proc[p].job \in Jobs \cup {NoJob}
    /\ proc[p].step = "rest" => proc[p].job = NoJob
    /\ proc[p].step \in {"chosen", "open", "apply"} => proc[p].job \in Jobs
    /\ proc[p].step = "chosen" => proc[p].job.kind = "mark"
    /\ proc[p].step \notin {"replay", "eof"} => proc[p].pos = 0

\* The total a replay carries is that of the last round it has read.
TotalsInv ==
  \A p \in Processes : \E m \in {0} \cup ReadRounds(p) :
    proc[p].last = Cumulative[m] /\ \A r \in ReadRounds(p) : r <= m

\* What the index and its writers know is about trials that were begun.
Known ==
  /\ owed \subseteq begun /\ Held \subseteq begun
  /\ \A p \in Processes : proc[p].job # NoJob => proc[p].job.id \in begun

\* What is marked was written down; a row counts what its trial ran at the least.
RowsInv ==
  /\ \A t \in marked : Quarantine(t) \in Lines
  /\ \A t \in Ids : row[t].in => row[t].counts >= RowOfTrial(t).counts

\* A row without a strategy is a round's whose session's start was torn.
NamesInv == \A t \in nameless : t \in Rounds /\ started /\ Start \notin Lines

\* A quarantine that a running replay has still to read is not lost.
MarkAhead(t) ==
  \E p \in Processes :
    proc[p].step = "replay" /\ \E i \in DOMAIN journal : i > proc[p].pos /\ journal[i] = Quarantine(t)

Safe(t) == row[t].in /\ (~row[t].clean \/ MarkAhead(t))

\* The index holds what a process has read.
Caught(p) ==
  \A t \in ReadTrials(p) : row[t].in /\ (Quarantine(t) \in ReadLines(p) => Safe(t))

\* The index holds all it owes, and so will whatever rebuild ends next.
Whole ==
  /\ \A t \in owed \cap Readable : row[t].in
  /\ \A t \in marked \cap Readable : Safe(t)
  /\ \A p \in Rebuilding : Caught(p)

\* A rebuild that began without a journal has nothing to lose and reads nothing.
Barren == Held = {} /\ \A p \in Rebuilding : proc[p].pos = 0

Dropped(p) == proc[p].step = "dropped"
Dropping   == \E p \in Processes : proc[p].step \in {"meta", "dropped"}
Replaying  == \E p \in Processes : proc[p].step = "replay" /\ Caught(p)

\* While no race has gone unordered the index is whole, or flagged, or a rebuild
\* is at work that will make it whole.
IndexInv ==
  \/ doubtful
  \/ Whole /\ (mounted \/ Rebuilding = {} \/ Barren)
  \/ sentinel /\ Rebuilding = {}
  \/ mounted /\ (Dropping \/ Replaying)

\* The table a rebuild writes to is missing only while another is to create it.
TablesInv ==
  ~doubtful /\ Rebuilding # {} /\ "trials" \notin tables => \E p \in Processes : Dropped(p)

Counted == SumFunction([r \in Rounds |-> row[r].counts])

\* An undisturbed replay has counted what the last running total said, and has a
\* row only where it has read one.
ReplayInv ==
  replayed => \A p \in Rebuilding :
    /\ Rebuilding = {p} /\ proc[p].step # "meta"
    /\ Counted = proc[p].last
    /\ \A r \in Rounds : row[r].in => r \in ReadRounds(p)

IInv ==
  TypeOK /\ JobsInv /\ JournalInv /\ Known /\ TotalsInv /\ RowsInv /\ NamesInv /\ IndexInv /\ TablesInv /\ ReplayInv

-----------------------------------------------------------------------------
(* Types *)

LEMMA TotalsGrow == \A r \in Rounds : Cumulative[r] \in Nat /\ Cumulative[r - 1] \in Nat /\ Cumulative[r] > Cumulative[r - 1]
BY TrialAssumption DEF TrialAssumption, Rounds

LEMMA RowsTyped ==
  ASSUME NEW t \in Ids, NEW at, at.last \in Nat
  PROVE  RowOfTrial(t) \in RowOf /\ ReplayedRow(at, t) \in RowOf /\ RowOfTrial(t).counts \in Nat
<1>1. ASSUME t \in Rounds
      PROVE  /\ Cumulative[t] - Cumulative[t - 1] \in Nat \ {0}
             /\ RoundCounts(at.last, t) \in Nat \ {0}
  <2>1. Cumulative[t] \in Nat /\ Cumulative[t] - at.last \in Int BY <1>1, TotalsGrow
  <2>2. Max({Cumulative[t] - at.last, 1}) = IF Cumulative[t] - at.last >= 1 THEN Cumulative[t] - at.last ELSE 1
    BY <2>1 DEF Max
  <2> QED BY <2>1, <2>2, <1>1, TotalsGrow DEF RoundCounts
<1>2. 1 \in Nat \ {0} OBVIOUS
<1> QED BY <1>1, <1>2 DEF RowOfTrial, ReplayedRow, Recorded, RowOf

LEMMA Appended ==
  ASSUME journal \in Seq(Line), NEW l \in Line, journal' = Append(journal, l)
  PROVE  /\ Len(journal) \in Nat /\ Len(journal') = Len(journal) + 1
         /\ journal' \in Seq(Line)
         /\ DOMAIN journal = 1..Len(journal) /\ DOMAIN journal' = 1..(Len(journal) + 1)
         /\ \A i \in DOMAIN journal : journal'[i] = journal[i]
         /\ journal'[Len(journal) + 1] = l
BY AppendProperties, LenProperties

LEMMA LinesTyped ==
  /\ Torn \in Line /\ Start \in Line
  /\ \A t \in Ids : Trial(t) \in Line /\ Quarantine(t) \in Line
BY DEF Torn, Start, Trial, Quarantine, Line

LEMMA InitTypeOK == Init => TypeOK
<1> SUFFICES ASSUME Init PROVE TypeOK OBVIOUS
<1>0. PICK old \in {{}} \cup {{t} : t \in Singles} :
        /\ journal \in {<<Trial(t)>> : t \in old} \cup (IF old = {} THEN {<<>>} ELSE {})
        /\ row = [t \in Ids |-> IF t \in old THEN Recorded(1) ELSE Absent]
        /\ stale = (old # {})
        /\ begun = old /\ owed = old
  BY DEF Init
<1>1. old \subseteq Ids BY DEF Ids
<1>2. journal \in Seq(Line)
  <2>1. CASE old = {} BY <2>1, <1>0
  <2>2. CASE old # {}
    <3>1. PICK t \in old : journal = <<Trial(t)>> BY <2>2, <1>0
    <3> QED BY <3>1, <1>1, LinesTyped
  <2> QED BY <2>1, <2>2
<1>3. row \in [Ids -> RowOf] BY <1>0 DEF Recorded, Absent, RowOf
<1>4. proc \in [Processes -> [step : Steps, job : Line \cup {NoJob}, pos : 0..Len(journal), last : Nat]]
  <2>1. 0 \in 0..Len(journal) BY <1>2, LenProperties
  <2> QED BY <2>1 DEF Init, AtRest, Steps
<1>5. /\ torn \in BOOLEAN /\ mounted \in BOOLEAN /\ sentinel \in BOOLEAN /\ stale \in BOOLEAN
      /\ doubtful \in BOOLEAN /\ replayed \in BOOLEAN /\ started \in BOOLEAN
  BY <1>0, Zenon DEF Init
<1>6. tables \subseteq {"meta", "trials"} /\ marked \subseteq Ids /\ nameless \subseteq Ids BY DEF Init
<1>7. faults \in 0..MaxFaults BY TrialAssumption DEF Init, TrialAssumption
<1> QED BY <1>0, <1>1, <1>2, <1>3, <1>4, <1>5, <1>6, <1>7, Zenon DEF TypeOK

\* The file only grows, by a line.
Grows == journal' = journal \/ \E l \in Line : journal' = Append(journal, l)

LEMMA JournalGrows == JobsInv /\ [Next]_vars => Grows
<1> SUFFICES ASSUME JobsInv, [Next]_vars PROVE Grows OBVIOUS
<1>1. ASSUME NEW l \in Line, AppendLine(l) PROVE Grows BY <1>1 DEF AppendLine, Grows
<1>2. ASSUME NEW p \in Processes, Write(p) PROVE Grows
  <2>1. ASSUME NEW t \in Ids, JournalTrial(p, t) \/ JournalRound(p, t) PROVE Grows
    BY <2>1, <1>1, LinesTyped DEF JournalTrial, JournalRound
  <2>2. ASSUME JournalQuarantine(p) PROVE Grows
    <3>1. proc[p].job \in Line BY <2>2, LinesTyped DEF JournalQuarantine, JobsInv, Jobs
    <3> QED BY <3>1, <2>2, <1>1 DEF JournalQuarantine
  <2>3. CASE (\E t \in Ids : Select(p, t)) \/ Open(p) \/ Record(p) \/ MarkContaminated(p) \/ GiveUp(p)
    BY <2>3 DEF Select, Open, Record, MarkContaminated, GiveUp, file, Grows
  <2>4. JournalStart(p) => Grows BY <1>1, LinesTyped DEF JournalStart
  <2> QED BY <1>2, <2>1, <2>2, <2>3, <2>4 DEF Write, Ids
<1>3. ASSUME NEW p \in Processes, Rebuild(p) PROVE Grows
  BY <1>3 DEF Rebuild, BeginRebuild, DropTrials, CreateFlagged, Replay, ReachEnd, Finish, Abort, file, Grows
<1>4. CASE Look \/ LoseJournal \/ FindJournal BY <1>4 DEF Look, LoseJournal, FindJournal, file, Grows
<1>5. CASE TearLine BY <1>5, LinesTyped DEF TearLine, Grows
<1>6. CASE \E p \in Processes : Kill(p) BY <1>6 DEF Kill, file, Grows
<1>7. CASE UNCHANGED vars BY <1>7 DEF vars, file, Grows
<1> QED BY <1>2, <1>3, <1>4, <1>5, <1>6, <1>7 DEF Next

\* A process at work, and what it may become.
Process == [step : Steps, job : Line \cup {NoJob}, pos : 0..Len(journal), last : Nat]
ProcTyped == proc' \in [Processes -> Process]

LEMMA GoTyped ==
  ASSUME TypeOK, NEW p \in Processes, NEW s \in Steps
  PROVE  /\ Go(p, s) => ProcTyped
         /\ \A l \in Line : proc' = [proc EXCEPT ![p].step = s, ![p].job = l] => ProcTyped
         /\ Rest(p) => ProcTyped
<1>1. proc \in [Processes -> Process] BY DEF TypeOK, Process
<1>2. [proc[p] EXCEPT !.step = s] \in Process BY <1>1 DEF Process
<1>3. \A l \in Line : [proc[p] EXCEPT !.step = s, !.job = l] \in Process BY <1>1 DEF Process
<1>4. AtRest \in Process
  <2>1. 0 \in 0..Len(journal) BY LenProperties DEF TypeOK
  <2> QED BY <2>1 DEF AtRest, Process, Steps
<1> HIDE DEF Process
<1>5. proc' = [proc EXCEPT ![p] = AtRest] => ProcTyped BY <1>1, <1>4 DEF ProcTyped
<1>6. proc' = [proc EXCEPT ![p].step = s] => ProcTyped BY <1>1, <1>2 DEF ProcTyped
<1>7. \A l \in Line : proc' = [proc EXCEPT ![p].step = s, ![p].job = l] => ProcTyped BY <1>1, <1>3 DEF ProcTyped
<1> QED BY <1>5, <1>6, <1>7 DEF Go, Rest

LEMMA QuarantinedTyped ==
  ASSUME TypeOK, NEW t \in Ids
  PROVE  /\ Quarantined(t) \in [Ids -> RowOf]
         /\ \A u \in Ids : /\ Quarantined(t)[u].in <=> row[u].in
                           /\ Quarantined(t)[u].counts = row[u].counts
                           /\ u # t => Quarantined(t)[u] = row[u]
                           /\ ~row[u].clean => ~Quarantined(t)[u].clean
         /\ row[t].in => ~Quarantined(t)[t].clean
<1>1. row \in [Ids -> RowOf] BY DEF TypeOK
<1>2. CASE row[t].in
  <2> DEFINE r == [row[t] EXCEPT !.clean = FALSE]
  <2>1. row[t] # Absent BY <1>2 DEF Absent
  <2>2. row[t] \in [in : {TRUE}, clean : BOOLEAN, counts : Nat \ {0}] BY <1>1, <2>1 DEF RowOf
  <2>3. r \in [in : {TRUE}, clean : BOOLEAN, counts : Nat \ {0}] BY <2>2
  <2>4. r.in = row[t].in /\ r.counts = row[t].counts /\ r.clean = FALSE BY <2>2
  <2>5. r \in RowOf BY <2>3 DEF RowOf
  <2>6. Quarantined(t) = [row EXCEPT ![t] = r] BY <1>2 DEF Quarantined
  <2> HIDE DEF r
  <2>7. \A u \in Ids : Quarantined(t)[u] = IF u = t THEN r ELSE row[u] BY <1>1, <2>6
  <2>8. Quarantined(t) \in [Ids -> RowOf] BY <1>1, <2>5, <2>6
  <2> QED BY <2>4, <2>7, <2>8, <1>2
<1>3. CASE ~row[t].in BY <1>1, <1>3 DEF Quarantined
<1> QED BY <1>2, <1>3

LEMMA WriteTyped ==
  ASSUME TypeOK, JobsInv, NEW p \in Processes, Write(p)
  PROVE  row' \in [Ids -> RowOf] /\ ProcTyped
<1>0. row \in [Ids -> RowOf] /\ {"chosen", "open", "apply"} \subseteq Steps BY DEF TypeOK, Steps
<1>1. ASSUME NEW t \in Ids, JournalTrial(p, t) \/ JournalRound(p, t) PROVE row' = row /\ ProcTyped
  BY <1>0, <1>1, LinesTyped, GoTyped DEF JournalTrial, JournalRound, index
<1>2. ASSUME NEW t \in Ids, Select(p, t) PROVE row' = row /\ ProcTyped
  BY <1>0, <1>2, LinesTyped, GoTyped DEF Select, index
<1>3. ASSUME JournalQuarantine(p) \/ Open(p) PROVE row' = row /\ ProcTyped
  BY <1>0, <1>3, GoTyped DEF JournalQuarantine, Open, index
<1>8. ASSUME JournalStart(p) PROVE row' = row /\ ProcTyped
  BY <1>8 DEF JournalStart, index, ProcTyped, TypeOK, Process
<1>4. ASSUME Record(p) PROVE row' \in [Ids -> RowOf]
  <2>1. proc[p].job.id \in Ids BY <1>4 DEF Record, JobsInv, Jobs, Trial, Quarantine
  <2>2. proc[p].last \in Nat /\ RowOfTrial(proc[p].job.id) \in RowOf
    <3>1. proc[p].last \in Nat BY DEF TypeOK
    <3> QED BY <2>1, <3>1, RowsTyped
  <2> QED BY <1>0, <2>1, <2>2, <1>4 DEF Record
<1>5. ASSUME MarkContaminated(p) PROVE row' \in [Ids -> RowOf]
  <2>1. proc[p].job.id \in Ids BY <1>5 DEF MarkContaminated, JobsInv, Jobs, Trial, Quarantine
  <2> QED BY <2>1, QuarantinedTyped, <1>5 DEF MarkContaminated
<1>6. Record(p) \/ MarkContaminated(p) \/ GiveUp(p) => ProcTyped
  BY <1>0, GoTyped DEF Record, MarkContaminated, GiveUp
<1>7. GiveUp(p) => row' = row BY DEF GiveUp, index
<1> QED BY <1>0, <1>1, <1>2, <1>3, <1>4, <1>5, <1>6, <1>7, <1>8 DEF Write, Ids

\* A replay's next line, and the process after it.
NextLine(p) == journal[proc[p].pos + 1]

LEMMA ReplayReads ==
  ASSUME TypeOK, NEW p \in Processes, Replay(p)
  PROVE  /\ proc[p].pos \in Nat /\ proc[p].pos + 1 \in DOMAIN journal /\ Len(journal) \in Nat
         /\ NextLine(p) \in Line
         /\ row' = Ingested(proc[p], NextLine(p))
         /\ proc' = [proc EXCEPT ![p] = AfterLine(proc[p], NextLine(p))]
         /\ AfterLine(proc[p], NextLine(p)) \in Process
<1> DEFINE at == proc[p]
<1>0. Len(journal) \in Nat BY LenProperties DEF TypeOK
<1>1. at \in Process BY DEF TypeOK, Process
<1>2. at.pos < Len(journal) BY DEF Replay
<1>3. at.pos \in Nat /\ at.pos + 1 \in 1..Len(journal) BY <1>0, <1>1, <1>2 DEF Process
<1>4. NextLine(p) \in Line BY <1>3, ElementOfSeq DEF TypeOK, NextLine
<1>5. AfterLine(at, NextLine(p)) \in Process
  <2> DEFINE l == TotalAfter(at.last, NextLine(p))
  <2>1. l \in Nat BY <1>1, TotalsGrow DEF Process, TotalAfter
  <2>2. AfterLine(at, NextLine(p)) = [at EXCEPT !.pos = at.pos + 1, !.last = l] BY <1>1 DEF AfterLine, Process
  <2> HIDE DEF l
  <2>3. at.pos + 1 \in 0..Len(journal) BY <1>0, <1>3
  <2> QED BY <1>1, <2>1, <2>2, <2>3 DEF Process
<1>6. row' = Ingested(at, NextLine(p)) /\ proc' = [proc EXCEPT ![p] = AfterLine(at, NextLine(p))]
  BY DEF Replay, NextLine
<1> QED BY <1>0, <1>3, <1>4, <1>5, <1>6, LenProperties DEF TypeOK

LEMMA RebuildTyped ==
  ASSUME TypeOK, JobsInv, NEW p \in Processes, Rebuild(p)
  PROVE  row' \in [Ids -> RowOf] /\ ProcTyped
<1>0. /\ row \in [Ids -> RowOf] /\ proc \in [Processes -> Process]
      /\ {"meta", "dropped", "replay", "eof"} \subseteq Steps
  BY DEF TypeOK, Steps, RebuildSteps, Process
<1>1. ASSUME BeginRebuild(p) \/ CreateFlagged(p) \/ ReachEnd(p) PROVE row' = row /\ ProcTyped
  <2>1. BeginRebuild(p) => row' = row /\ Go(p, "meta") BY DEF BeginRebuild
  <2>2. CreateFlagged(p) => row' = row /\ Go(p, "replay") BY DEF CreateFlagged, Go
  <2>3. ReachEnd(p) => row' = row /\ Go(p, "eof") BY DEF ReachEnd, index
  <2> QED BY <1>0, <1>1, <2>1, <2>2, <2>3, GoTyped
<1>2. ASSUME DropTrials(p) PROVE row' \in [Ids -> RowOf] /\ ProcTyped
  <2>1. row' = [t \in Ids |-> Absent] /\ Go(p, "dropped") BY <1>2 DEF DropTrials
  <2> QED BY <2>1, <1>0, GoTyped DEF RowOf
<1>3. ASSUME Finish(p) PROVE row' = row /\ ProcTyped
  <2>1. proc[p] \in Process /\ AtRest \in Process
    <3>1. 0 \in 0..Len(journal) BY LenProperties DEF TypeOK
    <3> QED BY <1>0, <3>1 DEF AtRest, Process, Steps
  <2>2. [AtRest EXCEPT !.step = "apply", !.job = proc[p].job] \in Process BY <2>1 DEF Process, Steps
  <2> DEFINE new == IF proc[p].job = NoJob THEN AtRest
                    ELSE [AtRest EXCEPT !.step = "apply", !.job = proc[p].job]
  <2>3. row' = row /\ proc' = [proc EXCEPT ![p] = new] BY <1>3, <1>0 DEF Finish
  <2>4. new \in Process BY <2>1, <2>2
  <2> HIDE DEF new
  <2> QED BY <1>0, <2>3, <2>4 DEF ProcTyped
<1>4. ASSUME Abort(p) PROVE row' = row /\ ProcTyped
  <2>1. row' = row /\ Rest(p) BY <1>4 DEF Abort, index
  <2> QED BY <2>1, <1>0, GoTyped
<1>5. ASSUME Replay(p) PROVE row' \in [Ids -> RowOf] /\ ProcTyped
  <2> DEFINE at == proc[p]
             line == NextLine(p)
  <2>1. /\ line \in Line /\ row' = Ingested(at, line) /\ at.last \in Nat
        /\ proc' = [proc EXCEPT ![p] = AfterLine(at, line)] /\ AfterLine(at, line) \in Process
    BY <1>0, <1>5, ReplayReads DEF Process
  <2>2. ProcTyped BY <1>0, <2>1 DEF ProcTyped
  <2>3. Ingested(at, line) \in [Ids -> RowOf]
    <3>2. CASE line.id \in Ids
      <4>1. ReplayedRow(at, line.id) \in RowOf BY <2>1, <3>2, RowsTyped
      <4>2. Quarantined(line.id) \in [Ids -> RowOf] BY <3>2, QuarantinedTyped
      <4>3. [row EXCEPT ![line.id] = ReplayedRow(at, line.id)] \in [Ids -> RowOf] BY <1>0, <4>1
      <4> QED BY <1>0, <4>2, <4>3 DEF Ingested
    <3>3. CASE line.id \notin Ids
      <4>1. [row EXCEPT ![line.id] = ReplayedRow(at, line.id)] = row BY <1>0, <3>3
      <4>2. [row EXCEPT ![line.id].clean = FALSE] = row BY <1>0, <3>3
      <4> QED BY <1>0, <4>1, <4>2 DEF Ingested, Quarantined
    <3> QED BY <3>2, <3>3
  <2> QED BY <2>1, <2>2, <2>3
<1> QED BY <1>0, <1>1, <1>2, <1>3, <1>4, <1>5 DEF Rebuild

\* What else a step may change.
IndexTyped ==
  /\ torn' \in BOOLEAN /\ mounted' \in BOOLEAN /\ sentinel' \in BOOLEAN /\ stale' \in BOOLEAN
  /\ doubtful' \in BOOLEAN /\ replayed' \in BOOLEAN
  /\ tables' \subseteq {"meta", "trials"}

HistoryTyped == begun' \subseteq Ids /\ owed' \subseteq Ids /\ marked' \subseteq Ids /\ started' \in BOOLEAN

LEMMA OthersTyped ==
  ASSUME TypeOK, JobsInv, [Next]_vars
  PROVE  IndexTyped /\ HistoryTyped /\ faults' \in 0..MaxFaults
<1> USE DEF file, index, history
<1>0. /\ torn \in BOOLEAN /\ mounted \in BOOLEAN /\ sentinel \in BOOLEAN /\ stale \in BOOLEAN
      /\ doubtful \in BOOLEAN /\ replayed \in BOOLEAN
      /\ tables \subseteq {"meta", "trials"}
      /\ begun \subseteq Ids /\ owed \subseteq Ids /\ marked \subseteq Ids /\ started \in BOOLEAN
      /\ faults \in 0..MaxFaults
  BY DEF TypeOK
<1>f. Fault => faults' \in 0..MaxFaults BY <1>0, TrialAssumption DEF Fault, TrialAssumption
<1>1. ASSUME NEW p \in Processes, Write(p) PROVE IndexTyped /\ HistoryTyped /\ faults' = faults
  <2>1. ASSUME NEW t \in Ids, JournalTrial(p, t) \/ JournalRound(p, t) \/ Select(p, t)
        PROVE  IndexTyped /\ HistoryTyped /\ faults' = faults
    BY <1>0, <2>1 DEF JournalTrial, JournalRound, Select, AppendLine, IndexTyped, HistoryTyped
  <2>2. ASSUME JournalStart(p) \/ JournalQuarantine(p) \/ Open(p) \/ GiveUp(p)
        PROVE  IndexTyped /\ HistoryTyped /\ faults' = faults
    BY <1>0, <2>2 DEF JournalStart, JournalQuarantine, Open, GiveUp, AppendLine, IndexTyped, HistoryTyped
  <2>3. ASSUME Record(p) \/ MarkContaminated(p)
        PROVE  IndexTyped /\ HistoryTyped /\ faults' = faults
    <3>1. proc[p].step = "apply" BY <2>3 DEF Record, MarkContaminated
    <3>2. proc[p].job.id \in Ids BY <3>1 DEF JobsInv, Jobs, Trial, Quarantine
    <3> QED BY <1>0, <3>2, <2>3 DEF Record, MarkContaminated, IndexTyped, HistoryTyped
  <2> QED BY <1>1, <2>1, <2>2, <2>3 DEF Write, Ids
<1>2. ASSUME NEW p \in Processes, Rebuild(p) PROVE IndexTyped /\ HistoryTyped /\ faults' = faults
  <2>1. CASE BeginRebuild(p) \/ DropTrials(p) \/ CreateFlagged(p)
    BY <1>0, <2>1 DEF BeginRebuild, DropTrials, CreateFlagged, IndexTyped, HistoryTyped
  <2>2. CASE Replay(p) \/ ReachEnd(p) \/ Abort(p)
    BY <1>0, <2>2 DEF Replay, ReachEnd, Abort, IndexTyped, HistoryTyped
  <2>3. CASE Finish(p) BY <1>0, <2>3 DEF Finish, ReadTrials, IndexTyped, HistoryTyped
  <2> QED BY <1>2, <2>1, <2>2, <2>3 DEF Rebuild
<1>3. ASSUME NEW p \in Processes, Kill(p) PROVE IndexTyped /\ HistoryTyped /\ Fault
  BY <1>0, <1>3 DEF Kill, IndexTyped, HistoryTyped
<1>4. CASE Look BY <1>0, <1>4 DEF Look, IndexTyped, HistoryTyped
<1>5. CASE TearLine \/ LoseJournal
  BY <1>0, <1>f, <1>5 DEF TearLine, LoseJournal, IndexTyped, HistoryTyped
<1>6. CASE FindJournal BY <1>0, <1>6 DEF FindJournal, IndexTyped, HistoryTyped
<1>7. CASE UNCHANGED vars BY <1>0, <1>7 DEF vars, IndexTyped, HistoryTyped
<1> QED BY <1>0, <1>f, <1>1, <1>2, <1>3, <1>4, <1>5, <1>6, <1>7 DEF Next

\* The steps that name a row, or leave it without a name.
LEMMA NameSteps ==
  ASSUME [Next]_vars
  PROVE  \/ nameless' \subseteq nameless
         \/ \E p \in Processes : Replay(p) /\ nameless' = Unnamed(p, NextLine(p))
<1> USE DEF file, index, history
<1>1. ASSUME NEW p \in Processes, Write(p) PROVE nameless' \subseteq nameless
  BY <1>1 DEF Write, JournalTrial, JournalStart, JournalRound, Select, JournalQuarantine, Open,
              Record, MarkContaminated, GiveUp
<1>2. ASSUME NEW p \in Processes, Rebuild(p) PROVE nameless' \subseteq nameless \/ Replay(p)
  BY <1>2 DEF Rebuild, BeginRebuild, DropTrials, CreateFlagged, ReachEnd, Finish, Abort
<1>3. \A p \in Processes : Replay(p) => nameless' = Unnamed(p, NextLine(p))
  BY DEF Replay, NextLine
<1>4. (\E p \in Processes : Kill(p)) \/ Look \/ TearLine \/ LoseJournal \/ FindJournal \/ UNCHANGED vars
        => nameless' \subseteq nameless
  BY DEF Kill, Look, TearLine, LoseJournal, FindJournal, vars
<1> QED BY <1>1, <1>2, <1>3, <1>4 DEF Next

LEMMA NamesTyped == ASSUME TypeOK, [Next]_vars PROVE nameless' \subseteq Ids
<1>0. nameless \subseteq Ids BY DEF TypeOK
<1>1. ASSUME NEW p \in Processes, nameless' = Unnamed(p, NextLine(p)) PROVE nameless' \subseteq Ids
  BY <1>0, <1>1 DEF Unnamed, Ids
<1> QED BY <1>0, <1>1, NameSteps

LEMMA TypeKept == TypeOK /\ JobsInv /\ [Next]_vars => TypeOK'
<1> SUFFICES ASSUME TypeOK, JobsInv, [Next]_vars PROVE TypeOK' OBVIOUS
<1>1. row' \in [Ids -> RowOf] /\ ProcTyped
  <2>0. row \in [Ids -> RowOf] /\ proc \in [Processes -> Process] BY DEF TypeOK, Process
  <2>1. ASSUME NEW p \in Processes, Kill(p) PROVE row' = row /\ ProcTyped
    <3>1. "rest" \in Steps BY DEF Steps
    <3> QED BY <2>1, <3>1, GoTyped DEF Kill, index
  <2>2. CASE Look \/ TearLine \/ LoseJournal \/ FindJournal \/ UNCHANGED vars
    BY <2>0, <2>2 DEF Look, TearLine, LoseJournal, FindJournal, vars, index, ProcTyped
  <2> QED BY <2>0, <2>1, <2>2, WriteTyped, RebuildTyped DEF Next
<1>2. journal' \in Seq(Line) /\ Len(journal') >= Len(journal) /\ Len(journal) \in Nat /\ Len(journal') \in Nat
  <2>1. journal \in Seq(Line) /\ Len(journal) \in Nat BY LenProperties DEF TypeOK
  <2>2. CASE journal' = journal BY <2>1, <2>2
  <2>3. ASSUME NEW l \in Line, journal' = Append(journal, l)
        PROVE  journal' \in Seq(Line) /\ Len(journal') = Len(journal) + 1
    BY <2>1, <2>3, Appended
  <2> QED BY <2>1, <2>2, <2>3, JournalGrows DEF Grows
<1>3. proc' \in [Processes -> [step : Steps, job : Line \cup {NoJob}, pos : 0..Len(journal'), last : Nat]]
  <2>1. 0..Len(journal) \subseteq 0..Len(journal') BY <1>2
  <2>2. Process \subseteq [step : Steps, job : Line \cup {NoJob}, pos : 0..Len(journal'), last : Nat]
    BY <2>1 DEF Process
  <2> QED BY <1>1, <2>2 DEF ProcTyped
<1> QED BY <1>1, <1>2, <1>3, OthersTyped, NamesTyped DEF TypeOK, IndexTyped, HistoryTyped

LEMMA JobsKept == TypeOK /\ JobsInv /\ [Next]_vars => JobsInv'
<1> SUFFICES ASSUME TypeOK, JobsInv, [Next]_vars PROVE JobsInv' OBVIOUS
<1> DEFINE Fits(r) == /\ r.job \in Jobs \cup {NoJob}
                      /\ r.step = "rest" => r.job = NoJob
                      /\ r.step \in {"chosen", "open", "apply"} => r.job \in Jobs
                      /\ r.step = "chosen" => r.job.kind = "mark"
                      /\ r.step \notin {"replay", "eof"} => r.pos = 0
<1>0. proc \in [Processes -> Process] /\ \A p \in Processes : Fits(proc[p])
  BY DEF TypeOK, Process, JobsInv
<1>r. AtRest \in Process /\ Fits(AtRest)
  <2>1. 0 \in 0..Len(journal) BY LenProperties DEF TypeOK
  <2> QED BY <2>1 DEF AtRest, Process, Steps
<1>1. ASSUME NEW p \in Processes, NEW r, Fits(r), proc' = [proc EXCEPT ![p] = r] PROVE JobsInv'
  BY <1>0, <1>1 DEF JobsInv
<1>2. ASSUME proc' = proc PROVE JobsInv' BY <1>2 DEF JobsInv
<1>3. ASSUME NEW p \in Processes, Write(p) PROVE JobsInv'
  <2>1. ASSUME NEW t \in Ids, JournalTrial(p, t) \/ JournalRound(p, t) \/ Select(p, t) PROVE JobsInv'
    <3>1. Trial(t) \in Jobs /\ Quarantine(t) \in Jobs /\ Quarantine(t).kind = "mark" BY DEF Jobs, Quarantine
    <3> DEFINE a(s, j) == [proc[p] EXCEPT !.step = s, !.job = j]
    <3>2. proc[p].step = "rest" /\ proc[p].pos = 0 BY <1>0, <2>1 DEF JournalTrial, JournalRound, Select
    <3>3. \A s \in {"open", "apply", "chosen"} : \A j \in Jobs :
            (s = "chosen" => j.kind = "mark") => Fits(a(s, j))
      BY <1>0, <3>2 DEF Process
    <3>4. \E s \in {"open", "apply", "chosen"} : \E j \in Jobs :
            (s = "chosen" => j.kind = "mark") /\ proc' = [proc EXCEPT ![p] = a(s, j)]
      BY <1>0, <2>1, <3>1 DEF JournalTrial, JournalRound, Select
    <3> QED BY <1>1, <3>3, <3>4
  <2>2. ASSUME JournalQuarantine(p) \/ Open(p) PROVE JobsInv'
    <3> DEFINE a(s) == [proc[p] EXCEPT !.step = s]
    <3>1. Fits(a("open")) /\ Fits(a("apply"))
      BY <1>0, <2>2 DEF Process, JournalQuarantine, Open
    <3>2. proc' = [proc EXCEPT ![p] = a("open")] \/ proc' = [proc EXCEPT ![p] = a("apply")]
      BY <1>0, <2>2 DEF JournalQuarantine, Open, Go
    <3> QED BY <1>1, <3>1, <3>2
  <2>3. Record(p) \/ MarkContaminated(p) \/ GiveUp(p) => JobsInv'
    BY <1>1, <1>r DEF Record, MarkContaminated, GiveUp, Rest
  <2>4. JournalStart(p) => JobsInv' BY <1>2 DEF JournalStart
  <2> QED BY <1>3, <2>1, <2>2, <2>3, <2>4 DEF Write, Ids
<1>4. ASSUME NEW p \in Processes, Rebuild(p) PROVE JobsInv'
  <2>1. ASSUME BeginRebuild(p) \/ DropTrials(p) \/ CreateFlagged(p) \/ ReachEnd(p) PROVE JobsInv'
    <3> DEFINE a(s) == [proc[p] EXCEPT !.step = s]
    <3>1. \A s \in RebuildSteps : (s \notin {"replay", "eof"} => proc[p].pos = 0) => Fits(a(s))
      BY <1>0 DEF Process, RebuildSteps
    <3>2. \E s \in RebuildSteps : /\ s \notin {"replay", "eof"} => proc[p].pos = 0
                                  /\ proc' = [proc EXCEPT ![p] = a(s)]
      BY <1>0, <2>1 DEF BeginRebuild, DropTrials, CreateFlagged, ReachEnd, Go, RebuildSteps
    <3> QED BY <1>1, <3>1, <3>2
  <2>2. ASSUME Replay(p) PROVE JobsInv'
    <3>1. Fits(AfterLine(proc[p], NextLine(p)))
      BY <1>0, <2>2, ReplayReads DEF AfterLine, Process, Replay
    <3> QED BY <1>1, <2>2, <3>1, ReplayReads
  <2>3. ASSUME Finish(p) PROVE JobsInv'
    <3> DEFINE a == [AtRest EXCEPT !.step = "apply", !.job = proc[p].job]
    <3>1. proc[p].job # NoJob => Fits(a) BY <1>0, <1>r DEF AtRest
    <3>2. proc' = [proc EXCEPT ![p] = IF proc[p].job = NoJob THEN AtRest ELSE a] BY <1>0, <2>3 DEF Finish
    <3>3. Fits(IF proc[p].job = NoJob THEN AtRest ELSE a) BY <3>1, <1>r
    <3> QED BY <1>1, <3>2, <3>3
  <2>4. Abort(p) => JobsInv' BY <1>1, <1>r DEF Abort, Rest
  <2> QED BY <1>4, <2>1, <2>2, <2>3, <2>4 DEF Rebuild
<1>5. \A p \in Processes : Kill(p) => JobsInv' BY <1>1, <1>r DEF Kill, Rest
<1>6. Look \/ TearLine \/ LoseJournal \/ FindJournal \/ UNCHANGED vars => JobsInv'
  BY <1>2 DEF Look, TearLine, LoseJournal, FindJournal, vars
<1> QED BY <1>3, <1>4, <1>5, <1>6 DEF Next

-----------------------------------------------------------------------------
(* The journal *)

\* A line of a trial or of a quarantine is no other line.
LEMMA LinesDiffer ==
  /\ \A t, u \in Ids : Trial(t) = Trial(u) => t = u
  /\ \A t, u \in Ids : Quarantine(t) = Quarantine(u) => t = u
  /\ \A t, u \in Ids : Trial(t) # Quarantine(u)
  /\ \A t \in Ids : /\ Trial(t).kind = "trial" /\ Trial(t).id = t
                    /\ Quarantine(t).kind = "mark" /\ Quarantine(t).id = t
                    /\ Trial(t) # Torn /\ Quarantine(t) # Torn
                    /\ Trial(t) # Start /\ Quarantine(t) # Start
  /\ Torn.kind = "torn" /\ Start.kind = "start" /\ Torn # Start
<1>1. \A t \in Ids : /\ Trial(t).kind = "trial" /\ Trial(t).id = t
                     /\ Quarantine(t).kind = "mark" /\ Quarantine(t).id = t
  BY DEF Trial, Quarantine
<1>2. Torn.kind = "torn" /\ Start.kind = "start" BY DEF Torn, Start
<1> QED BY <1>1, <1>2

\* A new line keeps the order if it is of a trial not begun before, or of none.
LEMMA LineKeepsOrder ==
  ASSUME TypeOK, JournalInv, NEW l \in Line, journal' = Append(journal, l),
         begun \subseteq begun',
         l.kind \in {"trial", "mark"} => l.id \in begun',
         \A t \in Ids : l = Trial(t) => t \notin begun /\ \A r \in Rounds \cap begun : t \in Rounds => r < t,
         \A r \in Rounds \cap begun' : 1..r \subseteq begun',
         l = Start => ~started /\ started',
         started => started', Rounds \cap begun' # {} => Rounds \cap begun # {} \/ started'
  PROVE  JournalInv'
<1>1. /\ Len(journal) \in Nat
      /\ DOMAIN journal = 1..Len(journal) /\ DOMAIN journal' = 1..(Len(journal) + 1)
      /\ \A i \in DOMAIN journal : journal'[i] = journal[i]
      /\ journal'[Len(journal) + 1] = l
  BY Appended DEF TypeOK
<1>2. ASSUME NEW i \in DOMAIN journal'
      PROVE  journal'[i].kind \in {"trial", "mark"} => journal'[i].id \in begun'
  BY <1>1 DEF JournalInv
<1>3. ASSUME NEW i \in DOMAIN journal', NEW j \in DOMAIN journal', NEW t \in Ids, i < j, journal'[j] = Trial(t)
      PROVE  /\ journal'[i] # Trial(t) /\ journal'[i] # Quarantine(t)
             /\ \A r \in Rounds : t \in Rounds /\ journal'[i] = Trial(r) => r < t
  <2>1. i \in DOMAIN journal /\ journal'[i] = journal[i] BY <1>1, <1>3
  <2>2. CASE j \in DOMAIN journal BY <1>1, <1>3, <2>1, <2>2 DEF JournalInv
  <2>3. CASE j = Len(journal) + 1
    <3>1. l = Trial(t) BY <1>1, <1>3, <2>3
    <3>2. journal[i].kind \in {"trial", "mark"} => journal[i].id \in begun BY <2>1 DEF JournalInv
    <3>3. \A u \in Ids : journal[i] = Trial(u) \/ journal[i] = Quarantine(u) => u \in begun
      BY <3>2, LinesDiffer
    <3>4. Rounds \subseteq Ids BY DEF Ids
    <3> QED BY <2>1, <3>1, <3>3, <3>4
  <2> QED BY <1>1, <2>2, <2>3
<1>4. ASSUME NEW i \in DOMAIN journal', NEW j \in DOMAIN journal', NEW r \in Rounds, i < j,
             journal'[j] = Start, journal'[i] = Trial(r)
      PROVE  FALSE
  <2>1. i \in DOMAIN journal /\ journal[i] = Trial(r) /\ r \in Ids BY <1>1, <1>4 DEF Ids
  <2>2. r \in begun BY <2>1, LinesDiffer DEF JournalInv
  <2>3. CASE j \in DOMAIN journal BY <1>1, <1>4, <2>1, <2>3 DEF JournalInv
  <2>4. CASE j = Len(journal) + 1
    <3>1. l = Start BY <1>1, <1>4, <2>4
    <3> QED BY <2>2, <3>1 DEF JournalInv
  <2> QED BY <1>1, <2>3, <2>4
<1>5. started' \/ (Start \notin Lines' /\ Rounds \cap begun' = {})
  <2> SUFFICES ASSUME ~started' PROVE Start \notin Lines' /\ Rounds \cap begun' = {} OBVIOUS
  <2>1. l # Start /\ Start \notin Lines /\ Rounds \cap begun' = {} BY DEF JournalInv
  <2>2. Start \notin Lines' BY <1>1, <2>1 DEF Lines
  <2> QED BY <2>1, <2>2
<1>6. \A i, j \in DOMAIN journal' : \A r \in Rounds : i < j /\ journal'[j] = Start => journal'[i] # Trial(r)
  BY <1>4
<1> QED BY <1>2, <1>3, <1>5, <1>6 DEF JournalInv

LEMMA JournalKept == TypeOK /\ JobsInv /\ JournalInv /\ Known /\ [Next]_vars => JournalInv'
<1> SUFFICES ASSUME TypeOK, JobsInv, JournalInv, Known, [Next]_vars PROVE JournalInv' OBVIOUS
<1> USE DEF file, index, history
<1>1. ASSUME UNCHANGED <<journal, begun, started>> PROVE JournalInv' BY <1>1 DEF JournalInv, Lines
<1>2. ASSUME NEW p \in Processes, NEW t \in Ids, JournalTrial(p, t) \/ JournalRound(p, t),
             t \in Rounds => JournalRound(p, t)
      PROVE  JournalInv'
  <2>1. t \notin begun /\ begun' = begun \cup {t} /\ AppendLine(Trial(t))
    BY <1>2 DEF JournalTrial, JournalRound
  <2>6. started' = started /\ (t \in Rounds => started) BY <1>2 DEF JournalTrial, JournalRound
  <2>7. Rounds \cap begun' # {} => Rounds \cap begun # {} \/ started' BY <2>1, <2>6
  <2>2. \A r \in Rounds \cap begun : t \in Rounds => r < t
    <3> SUFFICES ASSUME NEW r \in Rounds \cap begun, t \in Rounds, r >= t PROVE FALSE
      BY DEF Rounds
    <3>1. 1..r \subseteq begun BY DEF JournalInv
    <3> QED BY <3>1, <2>1 DEF Rounds
  <2>3. \A r \in Rounds \cap begun' : 1..r \subseteq begun'
    <3>1. \A r \in Rounds \cap begun : 1..r \subseteq begun' BY <2>1 DEF JournalInv
    <3>2. t \in Rounds => 1..t \subseteq begun'
      <4> SUFFICES ASSUME t \in Rounds PROVE 1..t \subseteq begun' OBVIOUS
      <4>1. t > 1 => t - 1 \in begun BY <1>2 DEF JournalRound
      <4>2. t > 1 => 1..(t - 1) \subseteq begun'
        <5>1. t > 1 => t - 1 \in Rounds BY TrialAssumption DEF Rounds, TrialAssumption
        <5> QED BY <4>1, <5>1, <3>1
      <4>3. 1..t \subseteq {t} \cup IF t > 1 THEN 1..(t - 1) ELSE {} BY DEF Rounds
      <4> QED BY <4>2, <4>3, <2>1
    <3> QED BY <3>1, <3>2, <2>1
  <2>4. CASE torn
    <3>1. journal' = journal BY <2>1, <2>4 DEF AppendLine
    <3>2. \A i \in DOMAIN journal : journal[i].kind \in {"trial", "mark"} => journal[i].id \in begun'
      BY <2>1 DEF JournalInv
    <3>3. started' \/ (Start \notin Lines' /\ Rounds \cap begun' = {})
      BY <2>6, <2>7, <3>1 DEF JournalInv, Lines
    <3> QED BY <2>3, <3>1, <3>2, <3>3 DEF JournalInv
  <2>5. CASE ~torn
    <3>1. journal' = Append(journal, Trial(t)) BY <2>1, <2>5 DEF AppendLine
    <3>2. Trial(t).id \in begun' /\ \A u \in Ids : Trial(t) = Trial(u) => u = t
      BY <2>1, LinesDiffer
    <3>3. Trial(t) # Start BY LinesDiffer
    <3> QED BY <2>1, <2>2, <2>3, <2>6, <2>7, <3>1, <3>2, <3>3, LineKeepsOrder, LinesTyped
  <2> QED BY <2>4, <2>5
<1>3. ASSUME NEW p \in Processes, JournalQuarantine(p) PROVE JournalInv'
  <2>1. PICK t \in Ids : proc[p].job = Quarantine(t)
    BY <1>3, LinesDiffer DEF JournalQuarantine, JobsInv, Jobs
  <2>2. t \in begun
    <3>1. proc[p].job # NoJob BY <2>1 DEF Quarantine, NoJob
    <3> QED BY <2>1, <3>1, LinesDiffer DEF Known
  <2>3. begun' = begun /\ started' = started /\ (journal' = journal \/ journal' = Append(journal, Quarantine(t)))
    BY <1>3, <2>1 DEF JournalQuarantine, AppendLine
  <2>4. ASSUME journal' = Append(journal, Quarantine(t)) PROVE JournalInv'
    <3>1. \A r \in Rounds \cap begun' : 1..r \subseteq begun' BY <2>3 DEF JournalInv
    <3> QED BY <2>2, <2>3, <2>4, <3>1, LineKeepsOrder, LinesTyped, LinesDiffer
  <2> QED BY <1>1, <2>3, <2>4
<1>4. CASE TearLine
  <2>1. begun' = begun /\ started' = started /\ journal' = Append(journal, Torn) BY <1>4 DEF TearLine
  <2>2. \A r \in Rounds \cap begun' : 1..r \subseteq begun' BY <2>1 DEF JournalInv
  <2> QED BY <2>1, <2>2, LineKeepsOrder, LinesTyped, LinesDiffer
<1>8. ASSUME NEW p \in Processes, JournalStart(p) PROVE JournalInv'
  <2>1. begun' = begun /\ ~started /\ started' /\ (journal' = journal \/ journal' = Append(journal, Start))
    BY <1>8 DEF JournalStart, AppendLine
  <2>2. \A r \in Rounds \cap begun' : 1..r \subseteq begun' BY <2>1 DEF JournalInv
  <2>3. CASE journal' = journal BY <2>1, <2>3 DEF JournalInv
  <2>4. CASE journal' = Append(journal, Start)
    BY <2>1, <2>2, <2>4, LineKeepsOrder, LinesTyped, LinesDiffer
  <2> QED BY <2>1, <2>3, <2>4
<1>5. ASSUME NEW p \in Processes, Write(p) PROVE JournalInv'
  <2>1. \A t \in Singles : JournalTrial(p, t) => JournalInv'
    BY <1>2, TrialAssumption DEF Ids, TrialAssumption
  <2>2. \A t \in Rounds : JournalRound(p, t) => JournalInv' BY <1>2 DEF Ids
  <2>3. (\E t \in Ids : Select(p, t)) \/ Open(p) \/ Record(p) \/ MarkContaminated(p) \/ GiveUp(p)
          => UNCHANGED <<journal, begun, started>>
    BY DEF Select, Open, Record, MarkContaminated, GiveUp
  <2> QED BY <1>1, <1>3, <1>8, <1>5, <2>1, <2>2, <2>3 DEF Write
<1>6. ASSUME NEW p \in Processes, Rebuild(p) PROVE UNCHANGED <<journal, begun, started>>
  BY <1>6 DEF Rebuild, BeginRebuild, DropTrials, CreateFlagged, Replay, ReachEnd, Finish, Abort
<1>7. (\E p \in Processes : Kill(p)) \/ Look \/ LoseJournal \/ FindJournal \/ UNCHANGED vars
        => UNCHANGED <<journal, begun, started>>
  BY DEF Kill, Look, LoseJournal, FindJournal, vars
<1> QED BY <1>1, <1>4, <1>5, <1>6, <1>7 DEF Next

-----------------------------------------------------------------------------
(* What is read, known and counted *)

\* What has been read stays read.
LEMMA ReadStays ==
  ASSUME TypeOK, Grows, NEW q \in Processes
  PROVE  /\ \A i \in 1..proc[q].pos : i \in DOMAIN journal /\ i \in DOMAIN journal' /\ journal'[i] = journal[i]
         /\ proc'[q].pos = proc[q].pos => ReadLines(q)' = ReadLines(q)
<1>1. Len(journal) \in Nat /\ DOMAIN journal = 1..Len(journal) BY LenProperties DEF TypeOK
<1>2. proc[q].pos \in 0..Len(journal) BY DEF TypeOK
<1>3. \A i \in 1..proc[q].pos : i \in DOMAIN journal BY <1>1, <1>2
<1>4. \A i \in DOMAIN journal : i \in DOMAIN journal' /\ journal'[i] = journal[i]
  <2>1. ASSUME NEW l \in Line, journal' = Append(journal, l)
        PROVE  \A i \in DOMAIN journal : i \in DOMAIN journal' /\ journal'[i] = journal[i]
    BY <1>1, <2>1, Appended DEF TypeOK
  <2> QED BY <2>1 DEF Grows
<1> QED BY <1>3, <1>4 DEF ReadLines

\* A step leaves a process at its place in the journal, takes it out, or is the
\* replay of a line.
LEMMA Places ==
  ASSUME TypeOK, JobsInv, [Next]_vars, NEW q \in Processes
  PROVE  \/ proc'[q].pos = proc[q].pos /\ proc'[q].last = proc[q].last
         \/ proc'[q].pos = 0 /\ proc'[q].last = 0
         \/ Replay(q)
<1> DEFINE Kept == proc'[q].pos = proc[q].pos /\ proc'[q].last = proc[q].last
           Out  == proc'[q].pos = 0 /\ proc'[q].last = 0
<1>0. proc \in [Processes -> Process] BY DEF TypeOK, Process
<1>1. ASSUME NEW p \in Processes, Rest(p) PROVE Kept \/ Out BY <1>0, <1>1 DEF Rest, AtRest
<1>2. ASSUME NEW p \in Processes, NEW s, Go(p, s) PROVE Kept BY <1>0, <1>2 DEF Go, Process
<1>3. ASSUME NEW p \in Processes, NEW s, NEW j, proc' = [proc EXCEPT ![p].step = s, ![p].job = j] PROVE Kept
  BY <1>0, <1>3 DEF Process
<1>4. ASSUME NEW p \in Processes, Write(p) PROVE Kept \/ Out
  <2>1. ASSUME NEW t, JournalTrial(p, t) \/ JournalRound(p, t) \/ Select(p, t) PROVE Kept
    BY <2>1, <1>3 DEF JournalTrial, JournalRound, Select
  <2>2. JournalQuarantine(p) \/ Open(p) => Kept BY <1>2 DEF JournalQuarantine, Open
  <2>3. Record(p) \/ MarkContaminated(p) \/ GiveUp(p) => Kept \/ Out
    BY <1>1 DEF Record, MarkContaminated, GiveUp
  <2>4. JournalStart(p) => Kept BY DEF JournalStart
  <2> QED BY <1>4, <2>1, <2>2, <2>3, <2>4 DEF Write
<1>5. ASSUME NEW p \in Processes, Rebuild(p) PROVE Kept \/ Out \/ Replay(q)
  <2>1. BeginRebuild(p) \/ DropTrials(p) \/ CreateFlagged(p) \/ ReachEnd(p) => Kept
    BY <1>2 DEF BeginRebuild, DropTrials, CreateFlagged, ReachEnd, Go
  <2>2. ASSUME Replay(p), p # q PROVE Kept BY <2>2, <1>0, ReplayReads
  <2>3. ASSUME Finish(p) PROVE Kept \/ Out
    <3>1. proc' = [proc EXCEPT ![p] = IF proc[p].job = NoJob THEN AtRest
                                      ELSE [AtRest EXCEPT !.step = "apply", !.job = proc[p].job]]
      BY <2>3, <1>0 DEF Finish
    <3> QED BY <1>0, <3>1 DEF AtRest
  <2>4. Abort(p) => Kept \/ Out BY <1>1 DEF Abort
  <2> QED BY <1>5, <2>1, <2>2, <2>3, <2>4 DEF Rebuild
<1>6. \A p \in Processes : Kill(p) => Kept \/ Out BY <1>1 DEF Kill
<1>7. Look \/ TearLine \/ LoseJournal \/ FindJournal \/ UNCHANGED vars => Kept
  BY DEF Look, TearLine, LoseJournal, FindJournal, vars
<1> QED BY <1>4, <1>5, <1>6, <1>7 DEF Next

\* Running totals grow from round to round.
LEMMA TotalsMonotone ==
  ASSUME NEW m \in 0..MaxRounds, NEW n \in 0..MaxRounds, m <= n
  PROVE  Cumulative[m] \in Nat /\ Cumulative[n] \in Nat /\ Cumulative[m] <= Cumulative[n]
<1>0. MaxRounds \in Nat /\ Cumulative \in [0..MaxRounds -> Nat] BY TrialAssumption DEF TrialAssumption
<1> DEFINE Bad == {k \in Nat : m <= k /\ k <= MaxRounds /\ ~(Cumulative[m] <= Cumulative[k])}
<1>1. Bad = {}
  <2> SUFFICES ASSUME Bad # {} PROVE FALSE OBVIOUS
  <2>1. PICK k \in Bad : \A j \in Bad : k <= j
    <3>1. Bad \in SUBSET Nat OBVIOUS
    <3> HIDE DEF Bad
    <3> QED BY <3>1, NatMin
  <2>2. k \in Nat /\ m <= k /\ k <= MaxRounds /\ ~(Cumulative[m] <= Cumulative[k]) OBVIOUS
  <2>3. k # m BY <2>2, <1>0
  <2>4. k - 1 \in Nat /\ m <= k - 1 /\ k - 1 <= MaxRounds /\ k \in Rounds BY <2>2, <2>3, <1>0 DEF Rounds
  <2>5. k - 1 \notin Bad BY <2>1, <2>4
  <2>6. Cumulative[m] <= Cumulative[k - 1] BY <2>4, <2>5
  <2>7. Cumulative[m] \in Nat BY <1>0
  <2> QED BY <2>2, <2>4, <2>6, <2>7, TotalsGrow
<1>2. n \notin Bad BY <1>1
<1> QED BY <1>0, <1>2

\* The rounds a replay has read come before the round it reads next.
LEMMA RoundsInOrder ==
  ASSUME TypeOK, JournalInv, TotalsInv, NEW p \in Processes, NEW t \in Rounds,
         Replay(p), NextLine(p) = Trial(t)
  PROVE  /\ \A r \in ReadRounds(p) : r < t
         /\ proc[p].last <= Cumulative[t - 1]
         /\ proc[p].last \in Nat /\ Cumulative[t - 1] \in Nat /\ Cumulative[t] \in Nat
<1>1. \A r \in ReadRounds(p) : r < t
  <2> SUFFICES ASSUME NEW r \in ReadRounds(p) PROVE r < t OBVIOUS
  <2>1. PICK i \in 1..proc[p].pos : journal[i] = Trial(r) /\ r \in Rounds
    BY DEF ReadRounds, ReadTrials, ReadLines
  <2>2. i \in DOMAIN journal
    <3>1. Len(journal) \in Nat /\ DOMAIN journal = 1..Len(journal) /\ proc[p].pos \in 0..Len(journal)
      BY LenProperties DEF TypeOK
    <3> QED BY <3>1
  <2>3. proc[p].pos + 1 \in DOMAIN journal /\ i < proc[p].pos + 1 /\ t \in Ids
    BY ReplayReads DEF Ids
  <2> QED BY <2>1, <2>2, <2>3 DEF JournalInv, NextLine
<1>2. PICK m \in {0} \cup ReadRounds(p) : proc[p].last = Cumulative[m] BY DEF TotalsInv
<1>3. m \in 0..MaxRounds /\ t - 1 \in 0..MaxRounds /\ m <= t - 1
  <2>1. MaxRounds \in Nat BY TrialAssumption DEF TrialAssumption
  <2> QED BY <1>1, <1>2, <2>1 DEF ReadRounds, Rounds
<1> QED BY <1>1, <1>2, <1>3, TotalsMonotone, TotalsGrow

\* The line a session starts with is read before its rounds: it changes no total.
LEMMA TotalOf ==
  ASSUME TypeOK, JournalInv, TotalsInv, NEW p \in Processes, Replay(p)
  PROVE  /\ NextLine(p) = Start => ReadRounds(p) = {} /\ proc[p].last = 0
         /\ TotalAfter(proc[p].last, NextLine(p))
              = IF NextLine(p).kind = "trial" /\ NextLine(p).id \in Rounds
                THEN Cumulative[NextLine(p).id] ELSE proc[p].last
<1>1. ASSUME NextLine(p) = Start PROVE ReadRounds(p) = {} /\ proc[p].last = 0
  <2>1. ASSUME NEW r \in ReadRounds(p) PROVE FALSE
    <3>1. PICK i \in 1..proc[p].pos : journal[i] = Trial(r) /\ r \in Rounds
      BY <2>1 DEF ReadRounds, ReadTrials, ReadLines
    <3>2. i \in DOMAIN journal
      <4>1. Len(journal) \in Nat /\ DOMAIN journal = 1..Len(journal) /\ proc[p].pos \in 0..Len(journal)
        BY LenProperties DEF TypeOK
      <4> QED BY <4>1
    <3>3. proc[p].pos + 1 \in DOMAIN journal /\ i < proc[p].pos + 1 BY ReplayReads
    <3> QED BY <1>1, <3>1, <3>2, <3>3 DEF JournalInv, NextLine
  <2>2. Cumulative[0] = 0 BY TrialAssumption DEF TrialAssumption
  <2> QED BY <2>1, <2>2 DEF TotalsInv
<1> QED BY <1>1 DEF TotalAfter

LEMMA TotalsKept ==
  TypeOK /\ JobsInv /\ JournalInv /\ TotalsInv /\ [Next]_vars => TotalsInv'
<1> SUFFICES ASSUME TypeOK, JobsInv, JournalInv, TotalsInv, [Next]_vars, NEW q \in Processes
    PROVE (\E m \in {0} \cup ReadRounds(q) :
             proc[q].last = Cumulative[m] /\ \A r \in ReadRounds(q) : r <= m)'
  BY DEF TotalsInv
<1>0. Grows /\ Cumulative[0] = 0 BY JournalGrows, TrialAssumption DEF TrialAssumption
<1>1. ASSUME proc'[q].pos = proc[q].pos, proc'[q].last = proc[q].last
      PROVE (\E m \in {0} \cup ReadRounds(q) :
               proc[q].last = Cumulative[m] /\ \A r \in ReadRounds(q) : r <= m)'
  <2>1. ReadLines(q)' = ReadLines(q) BY <1>0, <1>1, ReadStays
  <2>2. ReadRounds(q)' = ReadRounds(q) BY <2>1 DEF ReadRounds, ReadTrials
  <2> QED BY <1>1, <2>2 DEF TotalsInv
<1>2. ASSUME proc'[q].pos = 0, proc'[q].last = 0
      PROVE (\E m \in {0} \cup ReadRounds(q) :
               proc[q].last = Cumulative[m] /\ \A r \in ReadRounds(q) : r <= m)'
  BY <1>0, <1>2 DEF ReadRounds, ReadTrials, ReadLines
<1>3. ASSUME Replay(q)
      PROVE (\E m \in {0} \cup ReadRounds(q) :
               proc[q].last = Cumulative[m] /\ \A r \in ReadRounds(q) : r <= m)'
  <2>1. proc'[q] = AfterLine(proc[q], NextLine(q)) /\ proc[q].pos \in Nat /\ NextLine(q) \in Line
    BY <1>3, ReplayReads DEF TypeOK
  <2>2. /\ proc'[q].pos = proc[q].pos + 1
        /\ proc'[q].last = IF NextLine(q).kind = "trial" /\ NextLine(q).id \in Rounds
                           THEN Cumulative[NextLine(q).id] ELSE proc[q].last
    <3>1. proc[q] \in Process BY DEF TypeOK, Process
    <3>2. /\ proc'[q].pos = proc[q].pos + 1
          /\ proc'[q].last = TotalAfter(proc[q].last, NextLine(q))
      BY <2>1, <3>1 DEF AfterLine, Process
    <3> QED BY <1>3, <3>2, TotalOf
  <2>3. journal' = journal BY <1>3 DEF Replay, file
  <2>4. ReadLines(q)' = ReadLines(q) \cup {NextLine(q)}
    <3>1. 1..(proc[q].pos + 1) = (1..proc[q].pos) \cup {proc[q].pos + 1} BY <2>1
    <3> QED BY <3>1, <2>2, <2>3 DEF ReadLines, NextLine
  <2>5. ReadRounds(q)' = {t \in Rounds : Trial(t) \in ReadLines(q) \cup {NextLine(q)}}
    BY <2>4 DEF ReadRounds, ReadTrials, Ids
  <2>6. CASE NextLine(q).kind = "trial" /\ NextLine(q).id \in Rounds
    <3> DEFINE t == NextLine(q).id
    <3>1. NextLine(q) = Trial(t) BY <2>1, <2>6 DEF Line, Trial
    <3>2. \A r \in ReadRounds(q) : r < t BY <1>3, <2>6, <3>1, RoundsInOrder
    <3>3. ReadRounds(q)' = ReadRounds(q) \cup {t}
      <4>1. \A r \in Rounds : Trial(r) = Trial(t) <=> r = t BY <2>6, LinesDiffer DEF Ids
      <4> QED BY <2>5, <2>6, <3>1, <4>1 DEF ReadRounds, ReadTrials, Ids
    <3>4. \A r \in ReadRounds(q)' : r <= t
      <4>1. ReadRounds(q) \subseteq Nat /\ t \in Nat BY <2>6 DEF ReadRounds, Rounds
      <4> QED BY <3>2, <3>3, <4>1
    <3> QED BY <2>2, <2>6, <3>3, <3>4
  <2>7. CASE ~(NextLine(q).kind = "trial" /\ NextLine(q).id \in Rounds)
    <3>1. \A r \in Rounds : Trial(r) # NextLine(q) BY <2>7, LinesDiffer DEF Ids
    <3>2. ReadRounds(q)' = ReadRounds(q) BY <2>5, <3>1 DEF ReadRounds, ReadTrials, Ids
    <3> QED BY <2>2, <2>7, <3>2 DEF TotalsInv
  <2> QED BY <2>6, <2>7
<1> QED BY <1>1, <1>2, <1>3, Places

\* The line a replay reads is a trial's, a quarantine's, or touches no row.
LEMMA Ingests ==
  ASSUME TypeOK, JournalInv, NEW p \in Processes, Replay(p)
  PROVE  \/ \E t \in Ids : /\ NextLine(p) = Trial(t) /\ t \in begun
                           /\ row' = [row EXCEPT ![t] = ReplayedRow(proc[p], t)]
         \/ \E t \in Ids : /\ NextLine(p) = Quarantine(t) /\ t \in begun
                           /\ row' = Quarantined(t)
         \/ /\ \A t \in Ids : NextLine(p) # Trial(t) /\ NextLine(p) # Quarantine(t)
            /\ row' = row
<1> DEFINE l == NextLine(p)
<1>1. l \in Line /\ row' = Ingested(proc[p], l) BY ReplayReads
<1>2. l.kind \in {"trial", "mark"} => l.id \in begun BY ReplayReads DEF JournalInv, NextLine
<1>3. begun \subseteq Ids BY DEF TypeOK
<1>4. CASE l.kind = "trial"
  <2>1. l = Trial(l.id) BY <1>1, <1>4 DEF Line, Trial
  <2>2. row' = [row EXCEPT ![l.id] = ReplayedRow(proc[p], l.id)] BY <1>1, <1>4 DEF Ingested
  <2> QED BY <1>2, <1>3, <1>4, <2>1, <2>2
<1>5. CASE l.kind = "mark"
  <2>1. l = Quarantine(l.id) BY <1>1, <1>5 DEF Line, Quarantine
  <2>2. row' = Quarantined(l.id) BY <1>1, <1>5 DEF Ingested
  <2> QED BY <1>2, <1>3, <1>5, <2>1, <2>2
<1>6. CASE l.kind \in {"torn", "start"}
  <2>1. row' = row BY <1>1, <1>6 DEF Ingested
  <2> QED BY <2>1, <1>6, LinesDiffer
<1> QED BY <1>1, <1>4, <1>5, <1>6 DEF Line

\* What has been read has been begun.
LEMMA ReadableBegun ==
  ASSUME TypeOK, JournalInv
  PROVE  /\ Readable \subseteq begun
         /\ \A p \in Processes : ReadTrials(p) \subseteq Readable /\ ReadLines(p) \subseteq Lines
<1>1. ASSUME NEW t \in Ids, Trial(t) \in Lines PROVE t \in begun
  BY <1>1, LinesDiffer DEF JournalInv, Lines
<1>2. \A p \in Processes : ReadLines(p) \subseteq Lines
  <2>1. Len(journal) \in Nat /\ DOMAIN journal = 1..Len(journal) BY LenProperties DEF TypeOK
  <2>2. \A p \in Processes : proc[p].pos \in 0..Len(journal) BY DEF TypeOK
  <2> QED BY <2>1, <2>2 DEF ReadLines, Lines
<1> QED BY <1>1, <1>2 DEF Readable, ReadTrials

LEMMA KnownKept ==
  TypeOK /\ JobsInv /\ JournalInv /\ Known /\ [Next]_vars => Known'
<1> SUFFICES ASSUME TypeOK, JobsInv, JournalInv, Known, [Next]_vars PROVE Known' OBVIOUS
<1> USE DEF file, index, history
<1> DEFINE JobsKnown == \A q \in Processes : proc[q].job # NoJob => proc[q].job.id \in begun
<1>0. /\ proc \in [Processes -> Process] /\ row \in [Ids -> RowOf] /\ begun \subseteq Ids
      /\ owed \subseteq begun /\ Held \subseteq begun /\ JobsKnown
  BY DEF TypeOK, Process, Known
<1>1. ASSUME UNCHANGED <<begun, owed, row>>, NEW p \in Processes, NEW r, proc' = [proc EXCEPT ![p] = r],
             r.job # NoJob => r.job.id \in begun
      PROVE  Known'
  BY <1>0, <1>1 DEF Known, Held
<1>2. ASSUME UNCHANGED <<begun, owed, row, proc>> PROVE Known' BY <1>0, <1>2 DEF Known, Held
<1>3. ASSUME UNCHANGED <<begun, owed, row>>, NEW p \in Processes, Rest(p) PROVE Known'
  BY <1>1, <1>3 DEF Rest, AtRest
<1>4. ASSUME UNCHANGED <<begun, owed, row>>, NEW p \in Processes, NEW s, Go(p, s) PROVE Known'
  <2>1. proc' = [proc EXCEPT ![p] = [proc[p] EXCEPT !.step = s]] /\ [proc[p] EXCEPT !.step = s].job = proc[p].job
    BY <1>0, <1>4 DEF Go, Process
  <2> QED BY <1>0, <1>1, <1>4, <2>1
<1>5. ASSUME NEW p \in Processes, NEW t \in Ids, JournalTrial(p, t) \/ JournalRound(p, t) PROVE Known'
  <2>1. \E s : proc' = [proc EXCEPT ![p].step = s, ![p].job = Trial(t)]
    BY <1>5 DEF JournalTrial, JournalRound
  <2>2. proc'[p].job = Trial(t) /\ \A q \in Processes \ {p} : proc'[q] = proc[q] BY <1>0, <2>1 DEF Process
  <2>3. begun' = begun \cup {t} /\ UNCHANGED <<owed, row>> BY <1>5 DEF JournalTrial, JournalRound
  <2>4. Trial(t).id = t BY LinesDiffer
  <2> QED BY <1>0, <2>2, <2>3, <2>4 DEF Known, Held
<1>6. ASSUME NEW p \in Processes, NEW t \in Ids, Select(p, t) PROVE Known'
  <2>1. proc' = [proc EXCEPT ![p].step = "chosen", ![p].job = Quarantine(t)] /\ row[t].in
        /\ UNCHANGED <<begun, owed, row>>
    BY <1>6 DEF Select
  <2> DEFINE r == [proc[p] EXCEPT !.step = "chosen", !.job = Quarantine(t)]
  <2>2. proc' = [proc EXCEPT ![p] = r] /\ r.job = Quarantine(t) BY <1>0, <2>1 DEF Process
  <2>3. t \in begun BY <1>0, <2>1 DEF Held
  <2>4. r.job.id \in begun BY <2>2, <2>3, LinesDiffer
  <2> HIDE DEF r
  <2> QED BY <1>1, <2>1, <2>2, <2>4
<1>7. ASSUME NEW p \in Processes, Record(p) \/ MarkContaminated(p) PROVE Known'
  <2> DEFINE t == proc[p].job.id
  <2>1. proc[p].job \in Jobs BY <1>7 DEF Record, MarkContaminated, JobsInv
  <2>2. t \in Ids /\ proc[p].job # NoJob BY <2>1 DEF Jobs, Trial, Quarantine, NoJob
  <2>3. t \in begun BY <1>0, <2>2
  <2>4. begun' = begun /\ owed' \subseteq owed \cup {t} /\ Rest(p) BY <1>7 DEF Record, MarkContaminated
  <2>5. \A u \in Ids \ {t} : row'[u].in => row[u].in
    <3>1. Record(p) => row' = [row EXCEPT ![t] = RowOfTrial(t)] BY DEF Record
    <3>2. MarkContaminated(p) => row' = Quarantined(t) BY DEF MarkContaminated
    <3> HIDE DEF t
    <3> QED BY <1>0, <1>7, <2>2, <3>1, <3>2, QuarantinedTyped
  <2>6. Held' \subseteq begun BY <1>0, <2>3, <2>5 DEF Held
  <2>7. \A q \in Processes : proc'[q] = proc[q] \/ proc'[q].job = NoJob
    BY <1>0, <2>4 DEF Rest, AtRest
  <2>8. \A q \in Processes : proc'[q].job # NoJob => proc'[q].job.id \in begun BY <1>0, <2>7
  <2>9. owed' \subseteq begun BY <1>0, <2>3, <2>4
  <2> QED BY <2>4, <2>6, <2>8, <2>9 DEF Known
<1>8. ASSUME NEW p \in Processes, Write(p) PROVE Known'
  <2>1. JournalQuarantine(p) \/ Open(p) => Known' BY <1>4 DEF JournalQuarantine, Open
  <2>2. GiveUp(p) => Known' BY <1>3 DEF GiveUp
  <2>3. JournalStart(p) => Known' BY <1>2 DEF JournalStart
  <2> QED BY <1>5, <1>6, <1>7, <1>8, <2>1, <2>2, <2>3 DEF Write, Ids
<1>9. ASSUME NEW p \in Processes, Rebuild(p) PROVE Known'
  <2>1. BeginRebuild(p) \/ CreateFlagged(p) \/ ReachEnd(p) => Known'
    BY <1>4 DEF BeginRebuild, CreateFlagged, ReachEnd, Go
  <2>2. ASSUME DropTrials(p) PROVE Known'
    <3>1. Held' = {} BY <2>2 DEF DropTrials, Held, Absent
    <3>2. \A q \in Processes : proc'[q].job = proc[q].job BY <1>0, <2>2 DEF DropTrials, Go, Process
    <3> QED BY <1>0, <2>2, <3>1, <3>2 DEF DropTrials, Known
  <2>3. ASSUME Replay(p) PROVE Known'
    <3>1. UNCHANGED <<begun, owed>> BY <2>3 DEF Replay
    <3>2. \A q \in Processes : proc'[q].job = proc[q].job
      <4>1. proc' = [proc EXCEPT ![p] = AfterLine(proc[p], NextLine(p))] BY <2>3, ReplayReads
      <4>2. AfterLine(proc[p], NextLine(p)).job = proc[p].job BY <1>0 DEF AfterLine, Process
      <4> QED BY <1>0, <4>1, <4>2
    <3>3. Held' \subseteq begun
      <4>1. ASSUME NEW t \in begun, row' = [row EXCEPT ![t] = ReplayedRow(proc[p], t)] PROVE Held' \subseteq begun
        BY <1>0, <4>1 DEF Held
      <4>2. ASSUME NEW t \in Ids, row' = Quarantined(t) PROVE Held' \subseteq begun
        BY <1>0, <4>2, QuarantinedTyped DEF Held
      <4>3. row' = row => Held' \subseteq begun BY <1>0 DEF Held
      <4> QED BY <2>3, <4>1, <4>2, <4>3, Ingests
    <3> QED BY <1>0, <3>1, <3>2, <3>3 DEF Known
  <2>4. ASSUME Finish(p) PROVE Known'
    <3>1. UNCHANGED <<begun, row>> /\ owed' = owed \cup ReadTrials(p) BY <2>4 DEF Finish
    <3>2. owed' \subseteq begun BY <1>0, <3>1, ReadableBegun
    <3>3. \A q \in Processes : proc'[q].job = proc[q].job
      <4>1. proc' = [proc EXCEPT ![p] = IF proc[p].job = NoJob THEN AtRest
                                        ELSE [AtRest EXCEPT !.step = "apply", !.job = proc[p].job]]
        BY <2>4, <1>0 DEF Finish
      <4>2. AtRest.job = NoJob /\ [AtRest EXCEPT !.step = "apply", !.job = proc[p].job].job = proc[p].job
        BY DEF AtRest
      <4>3. proc'[p].job = proc[p].job
        <5>1. CASE proc[p].job = NoJob BY <1>0, <4>1, <4>2, <5>1
        <5>2. CASE proc[p].job # NoJob
          <6>1. proc'[p] = [AtRest EXCEPT !.step = "apply", !.job = proc[p].job] BY <1>0, <4>1, <5>2
          <6> QED BY <6>1, <4>2
        <5> QED BY <5>1, <5>2
      <4>4. \A q \in Processes \ {p} : proc'[q] = proc[q] BY <1>0, <4>1
      <4> QED BY <4>3, <4>4
    <3> QED BY <1>0, <3>1, <3>2, <3>3 DEF Known, Held
  <2>5. Abort(p) => Known' BY <1>3 DEF Abort
  <2> QED BY <1>9, <2>1, <2>2, <2>3, <2>4, <2>5 DEF Rebuild
<1>10. \A p \in Processes : Kill(p) => Known' BY <1>3 DEF Kill
<1>11. Look \/ TearLine \/ LoseJournal \/ FindJournal \/ UNCHANGED vars => Known'
  BY <1>2 DEF Look, TearLine, LoseJournal, FindJournal, vars
<1> QED BY <1>8, <1>9, <1>10, <1>11 DEF Next

\* The steps that touch a row, and those that touch what is owed and marked.
LEMMA RowSteps ==
  ASSUME [Next]_vars
  PROVE  /\ \/ row' = row
            \/ \E p \in Processes : Record(p) \/ MarkContaminated(p) \/ DropTrials(p) \/ Replay(p)
         /\ \/ UNCHANGED <<owed, marked>>
            \/ \E p \in Processes : Record(p) \/ MarkContaminated(p) \/ Finish(p)
<1> USE DEF file, index, history
<1>1. ASSUME NEW p \in Processes, Write(p) PROVE
        /\ row' = row \/ Record(p) \/ MarkContaminated(p)
        /\ UNCHANGED <<owed, marked>> \/ Record(p) \/ MarkContaminated(p)
  BY <1>1 DEF Write, JournalTrial, JournalStart, JournalRound, Select, JournalQuarantine, Open, GiveUp
<1>2. ASSUME NEW p \in Processes, Rebuild(p) PROVE
        /\ row' = row \/ DropTrials(p) \/ Replay(p)
        /\ UNCHANGED <<owed, marked>> \/ Finish(p)
  BY <1>2 DEF Rebuild, BeginRebuild, DropTrials, CreateFlagged, Replay, ReachEnd, Finish, Abort
<1>3. (\E p \in Processes : Kill(p)) \/ Look \/ TearLine \/ LoseJournal \/ FindJournal \/ UNCHANGED vars
        => UNCHANGED <<row, owed, marked>>
  BY DEF Kill, Look, TearLine, LoseJournal, FindJournal, vars
<1> QED BY <1>1, <1>2, <1>3 DEF Next

\* What a row counts when it is replayed.
LEMMA ReplayCountsEnough ==
  ASSUME TypeOK, JournalInv, TotalsInv, NEW p \in Processes, NEW t \in Ids,
         Replay(p), NextLine(p) = Trial(t)
  PROVE  /\ ReplayedRow(proc[p], t).counts >= RowOfTrial(t).counts
         /\ ReplayedRow(proc[p], t).in /\ ReplayedRow(proc[p], t).clean
         /\ t \in Rounds => ReplayedRow(proc[p], t).counts = Cumulative[t] - proc[p].last
<1>1. CASE t \in Rounds
  <2> DEFINE n == Cumulative[t] - proc[p].last
  <2>1. /\ proc[p].last <= Cumulative[t - 1] /\ proc[p].last \in Nat
        /\ Cumulative[t - 1] \in Nat /\ Cumulative[t] \in Nat /\ Cumulative[t] > Cumulative[t - 1]
    BY <1>1, RoundsInOrder, TotalsGrow
  <2>2. n \in Nat /\ n >= 1 /\ n >= Cumulative[t] - Cumulative[t - 1] BY <2>1
  <2>3. Max({n, 1}) = n BY <2>2 DEF Max
  <2>4. ReplayedRow(proc[p], t) = Recorded(n) /\ RowOfTrial(t) = Recorded(Cumulative[t] - Cumulative[t - 1])
    BY <1>1, <2>3 DEF ReplayedRow, RowOfTrial, RoundCounts
  <2> QED BY <2>2, <2>4 DEF Recorded
<1>2. CASE t \notin Rounds
  <2>1. ReplayedRow(proc[p], t) = Recorded(1) /\ RowOfTrial(t) = Recorded(1)
    BY <1>2 DEF ReplayedRow, RowOfTrial
  <2> QED BY <1>2, <2>1 DEF Recorded
<1> QED BY <1>1, <1>2

LEMMA RowsKept ==
  TypeOK /\ JobsInv /\ JournalInv /\ TotalsInv /\ RowsInv /\ [Next]_vars => RowsInv'
<1> SUFFICES ASSUME TypeOK, JobsInv, JournalInv, TotalsInv, RowsInv, [Next]_vars PROVE RowsInv' OBVIOUS
<1> DEFINE Enough(u) == row[u].in => row[u].counts >= RowOfTrial(u).counts
<1>0. row \in [Ids -> RowOf] /\ (\A u \in Ids : Enough(u)) /\ (\A u \in marked : Quarantine(u) \in Lines)
  BY DEF TypeOK, RowsInv
<1>i. \A p \in Processes : proc[p].step = "apply" => proc[p].job.id \in Ids
  BY DEF JobsInv, Jobs, Trial, Quarantine
<1>n. \A u \in Ids : RowOfTrial(u).counts \in Nat
  <2>1. AtRest.last \in Nat BY DEF AtRest
  <2> QED BY <2>1, RowsTyped
<1>1. Lines \subseteq Lines'
  <2>1. Grows BY JournalGrows
  <2>2. ASSUME NEW l \in Line, journal' = Append(journal, l) PROVE Lines \subseteq Lines'
    <3>1. DOMAIN journal \subseteq DOMAIN journal' /\ \A i \in DOMAIN journal : journal'[i] = journal[i]
      <4>1. /\ Len(journal) \in Nat /\ DOMAIN journal = 1..Len(journal)
            /\ DOMAIN journal' = 1..(Len(journal) + 1)
            /\ \A i \in DOMAIN journal : journal'[i] = journal[i]
        BY <2>2, Appended DEF TypeOK
      <4> QED BY <4>1
    <3> QED BY <3>1 DEF Lines
  <2> QED BY <2>1, <2>2 DEF Grows, Lines
<1>2. \A u \in Ids : Enough(u)'
  <2>1. ASSUME NEW p \in Processes, Record(p) PROVE \A u \in Ids : Enough(u)'
    <3>1. row' = [row EXCEPT ![proc[p].job.id] = RowOfTrial(proc[p].job.id)] /\ proc[p].job.id \in Ids
      BY <1>i, <2>1 DEF Record
    <3>2. \A u \in Ids : row'[u] = IF u = proc[p].job.id THEN RowOfTrial(u) ELSE row[u] BY <1>0, <3>1
    <3> QED BY <1>0, <1>n, <3>2
  <2>2. ASSUME NEW t \in Ids, row' = Quarantined(t) PROVE \A u \in Ids : Enough(u)'
    BY <1>0, <2>2, QuarantinedTyped
  <2>3. \A p \in Processes : MarkContaminated(p) => \A u \in Ids : Enough(u)'
    BY <1>i, <2>2 DEF MarkContaminated
  <2>4. \A p \in Processes : DropTrials(p) => \A u \in Ids : Enough(u)' BY DEF DropTrials, Absent
  <2>5. ASSUME NEW p \in Processes, Replay(p) PROVE \A u \in Ids : Enough(u)'
    <3>1. ASSUME NEW t \in Ids, NextLine(p) = Trial(t), row' = [row EXCEPT ![t] = ReplayedRow(proc[p], t)]
          PROVE  \A u \in Ids : Enough(u)'
      <4>1. \A u \in Ids : row'[u] = IF u = t THEN ReplayedRow(proc[p], t) ELSE row[u] BY <1>0, <3>1
      <4> QED BY <1>0, <2>5, <3>1, <4>1, ReplayCountsEnough
    <3>2. row' = row => \A u \in Ids : Enough(u)' BY <1>0
    <3> QED BY <2>2, <2>5, <3>1, <3>2, Ingests
  <2>6. row' = row => \A u \in Ids : Enough(u)' BY <1>0
  <2> QED BY <2>1, <2>3, <2>4, <2>5, <2>6, RowSteps
<1>3. \A u \in marked' : Quarantine(u) \in Lines'
  <2>1. ASSUME NEW p \in Processes, Record(p) PROVE marked' = marked BY <2>1 DEF Record
  <2>2. ASSUME NEW p \in Processes, MarkContaminated(p), NEW u \in marked' PROVE u \in marked \/ Quarantine(u) \in Lines
    BY <2>2 DEF MarkContaminated
  <2>3. ASSUME NEW p \in Processes, Finish(p), NEW u \in marked' PROVE u \in marked \/ Quarantine(u) \in Lines
    BY <2>3, ReadableBegun DEF Finish
  <2> QED BY <1>0, <1>1, <2>1, <2>2, <2>3, RowSteps
<1> QED BY <1>2, <1>3 DEF RowsInv

LEMMA NamesKept ==
  TypeOK /\ JobsInv /\ JournalInv /\ NamesInv /\ [Next]_vars => NamesInv'
<1> SUFFICES ASSUME TypeOK, JobsInv, JournalInv, NamesInv, [Next]_vars PROVE NamesInv' OBVIOUS
<1> USE DEF file, index, history
<1>0. Len(journal) \in Nat /\ DOMAIN journal = 1..Len(journal) BY LenProperties DEF TypeOK
<1>1. started => started'
  <2>1. \A p \in Processes : Write(p) => started' = started \/ started'
    BY DEF Write, JournalTrial, JournalStart, JournalRound, Select, JournalQuarantine, Open, Record,
           MarkContaminated, GiveUp
  <2>2. \A p \in Processes : Rebuild(p) => started' = started
    BY DEF Rebuild, BeginRebuild, DropTrials, CreateFlagged, Replay, ReachEnd, Finish, Abort
  <2>3. (\E p \in Processes : Kill(p)) \/ Look \/ TearLine \/ LoseJournal \/ FindJournal \/ UNCHANGED vars
          => started' = started
    BY DEF Kill, Look, TearLine, LoseJournal, FindJournal, vars
  <2> QED BY <2>1, <2>2, <2>3 DEF Next
\* The line a session starts with is written once.
<1>2. started /\ Start \notin Lines => Start \notin Lines'
  <2> SUFFICES ASSUME started, Start \notin Lines PROVE Start \notin Lines' OBVIOUS
  <2>1. journal' = journal => Start \notin Lines' BY DEF Lines
  <2>2. ASSUME NEW l \in Line, journal' = Append(journal, l), l # Start PROVE Start \notin Lines'
    <3>1. /\ DOMAIN journal' = 1..(Len(journal) + 1)
          /\ \A i \in DOMAIN journal : journal'[i] = journal[i]
          /\ journal'[Len(journal) + 1] = l
      BY <2>2, Appended DEF TypeOK
    <3>2. \A i \in DOMAIN journal' : journal'[i] # Start
      <4> SUFFICES ASSUME NEW i \in DOMAIN journal' PROVE journal'[i] # Start OBVIOUS
      <4>1. i \in DOMAIN journal \/ i = Len(journal) + 1 BY <1>0, <3>1
      <4> QED BY <2>2, <3>1, <4>1 DEF Lines
    <3> QED BY <3>2 DEF Lines
  <2>3. ASSUME NEW l \in Line, AppendLine(l), l # Start PROVE Start \notin Lines'
    BY <2>1, <2>2, <2>3 DEF AppendLine
  <2>4. ASSUME NEW p \in Processes, Write(p) PROVE Start \notin Lines'
    <3>1. \A t \in Ids : JournalTrial(p, t) \/ JournalRound(p, t) => Start \notin Lines'
      BY <2>3, LinesTyped, LinesDiffer DEF JournalTrial, JournalRound
    <3>2. ASSUME JournalQuarantine(p) PROVE Start \notin Lines'
      <4>1. PICK t \in Ids : proc[p].job = Quarantine(t)
        BY <3>2, LinesDiffer DEF JournalQuarantine, JobsInv, Jobs
      <4> QED BY <2>3, <3>2, <4>1, LinesTyped, LinesDiffer DEF JournalQuarantine
    <3>3. (\E t \in Ids : Select(p, t)) \/ Open(p) \/ Record(p) \/ MarkContaminated(p) \/ GiveUp(p)
            => journal' = journal
      BY DEF Select, Open, Record, MarkContaminated, GiveUp
    <3>4. ~JournalStart(p) BY DEF JournalStart
    <3> QED BY <2>1, <2>4, <3>1, <3>2, <3>3, <3>4 DEF Write, Ids
  <2>5. ASSUME NEW p \in Processes, Rebuild(p) PROVE journal' = journal
    BY <2>5 DEF Rebuild, BeginRebuild, DropTrials, CreateFlagged, Replay, ReachEnd, Finish, Abort
  <2>6. TearLine => Start \notin Lines' BY <2>2, LinesTyped, LinesDiffer DEF TearLine
  <2>7. (\E p \in Processes : Kill(p)) \/ Look \/ LoseJournal \/ FindJournal \/ UNCHANGED vars
          => journal' = journal
    BY DEF Kill, Look, LoseJournal, FindJournal, vars
  <2> QED BY <2>1, <2>4, <2>5, <2>6, <2>7 DEF Next
<1>3. ASSUME NEW p \in Processes, Replay(p), NEW t \in Unnamed(p, NextLine(p))
      PROVE  t \in nameless \/ (t \in Rounds /\ started /\ Start \notin Lines)
  <2> SUFFICES ASSUME t \notin nameless PROVE t \in Rounds /\ started /\ Start \notin Lines OBVIOUS
  <2>1. /\ NextLine(p).kind = "trial" /\ t = NextLine(p).id
        /\ t \in Rounds /\ Start \notin ReadLines(p)
    BY <1>3 DEF Unnamed
  <2>2. proc[p].pos \in Nat /\ proc[p].pos + 1 \in DOMAIN journal /\ NextLine(p) \in Line
    BY <1>3, ReplayReads
  <2>3. NextLine(p) = Trial(t) BY <2>1, <2>2 DEF Line, Trial
  <2>4. started
    <3>1. t \in begun BY <2>1, <2>2 DEF JournalInv, NextLine
    <3> QED BY <2>1, <3>1 DEF JournalInv
  <2>5. ASSUME NEW j \in DOMAIN journal, journal[j] = Start PROVE FALSE
    <3>1. j # proc[p].pos + 1 BY <2>1, <2>3, <2>5, LinesDiffer DEF NextLine, Ids
    <3>2. j \notin 1..proc[p].pos BY <2>1, <2>5 DEF ReadLines
    <3>3. proc[p].pos + 1 < j BY <1>0, <2>2, <3>1, <3>2
    <3> QED BY <2>1, <2>2, <2>3, <2>5, <3>3 DEF JournalInv, NextLine
  <2> QED BY <2>1, <2>4, <2>5 DEF Lines
<1> QED BY <1>1, <1>2, <1>3, NameSteps DEF NamesInv

\* The process a step of one process moves, and where to.
Moves(p, r) == proc' = [proc EXCEPT ![p] = r]

LEMMA Moved ==
  ASSUME TypeOK, NEW p \in Processes, NEW r, Moves(p, r)
  PROVE  proc'[p] = r /\ \A q \in Processes \ {p} : proc'[q] = proc[q]
BY DEF Moves, TypeOK

LEMMA Went ==
  ASSUME TypeOK, NEW p \in Processes, NEW s, Go(p, s)
  PROVE  /\ Moves(p, [proc[p] EXCEPT !.step = s])
         /\ proc'[p].step = s /\ proc'[p].pos = proc[p].pos /\ proc'[p].last = proc[p].last
         /\ \A q \in Processes \ {p} : proc'[q] = proc[q]
<1>1. proc \in [Processes -> Process] BY DEF TypeOK, Process
<1> QED BY <1>1 DEF Go, Moves, Process

LEMMA Rested ==
  ASSUME TypeOK, NEW p \in Processes, Rest(p)
  PROVE  /\ proc'[p].step = "rest"
         /\ \A q \in Processes \ {p} : proc'[q] = proc[q]
BY DEF Rest, AtRest, TypeOK

LEMMA Finished ==
  ASSUME TypeOK, NEW p \in Processes, Finish(p)
  PROVE  /\ proc'[p].step \in {"rest", "apply"}
         /\ \A q \in Processes \ {p} : proc'[q] = proc[q]
<1>1. Moves(p, IF proc[p].job = NoJob THEN AtRest ELSE [AtRest EXCEPT !.step = "apply", !.job = proc[p].job])
  BY DEF Finish, Moves, TypeOK
<1>2. AtRest.step = "rest" /\ [AtRest EXCEPT !.step = "apply", !.job = proc[p].job].step = "apply"
  BY DEF AtRest
<1> QED BY <1>1, <1>2, Moved

\* One line further, a replay has read one line more.
LEMMA Replayed ==
  ASSUME TypeOK, NEW p \in Processes, Replay(p)
  PROVE  /\ proc'[p].step = "replay" /\ proc'[p].pos = proc[p].pos + 1
         /\ proc'[p].last = TotalAfter(proc[p].last, NextLine(p))
         /\ \A q \in Processes \ {p} : proc'[q] = proc[q]
         /\ ReadLines(p)' = ReadLines(p) \cup {NextLine(p)}
<1>0. proc[p] \in Process BY DEF TypeOK, Process
<1>1. Moves(p, AfterLine(proc[p], NextLine(p))) /\ proc[p].pos \in Nat BY ReplayReads DEF Moves
<1>2. proc'[p] = AfterLine(proc[p], NextLine(p)) /\ \A q \in Processes \ {p} : proc'[q] = proc[q]
  BY <1>1, Moved
<1>3. /\ proc'[p].step = "replay" /\ proc'[p].pos = proc[p].pos + 1
      /\ proc'[p].last = TotalAfter(proc[p].last, NextLine(p))
  <2> DEFINE l == TotalAfter(proc[p].last, NextLine(p))
  <2>1. AfterLine(proc[p], NextLine(p)) = [proc[p] EXCEPT !.pos = proc[p].pos + 1, !.last = l]
    BY <1>0 DEF AfterLine, Process
  <2>2. proc[p].step = "replay" BY DEF Replay
  <2> HIDE DEF l
  <2>3. proc'[p].step = "replay" /\ proc'[p].pos = proc[p].pos + 1 /\ proc'[p].last = l
    BY <1>0, <1>2, <2>1, <2>2 DEF Process
  <2> QED BY <2>3 DEF l
<1>4. ReadLines(p)' = ReadLines(p) \cup {NextLine(p)}
  <2>1. 1..(proc[p].pos + 1) = (1..proc[p].pos) \cup {proc[p].pos + 1} BY <1>1
  <2>2. journal' = journal BY DEF Replay, file
  <2> QED BY <1>3, <2>1, <2>2 DEF ReadLines, NextLine
<1> QED BY <1>2, <1>3, <1>4

\* Writers are not rebuilding, before or after.
LEMMA WritersApart ==
  ASSUME TypeOK, NEW p \in Processes, Write(p)
  PROVE  /\ proc[p].step \notin RebuildSteps /\ proc'[p].step \notin RebuildSteps
         /\ \A q \in Processes \ {p} : proc'[q] = proc[q]
<1>0. proc \in [Processes -> Process] BY DEF TypeOK, Process
<1>1. ASSUME NEW t, JournalTrial(p, t) \/ JournalRound(p, t) \/ Select(p, t)
      PROVE  /\ proc[p].step = "rest" /\ proc'[p].step \in {"open", "apply", "chosen"}
             /\ \A q \in Processes \ {p} : proc'[q] = proc[q]
  <2> DEFINE To(s, j) == [proc[p] EXCEPT !.step = s, !.job = j]
  <2>1. \A s, j : To(s, j).step = s BY <1>0 DEF Process
  <2>2. JournalTrial(p, t) => Moves(p, To("open", Trial(t))) BY <1>0 DEF JournalTrial, Moves
  <2>3. JournalRound(p, t) => Moves(p, To("apply", Trial(t))) BY <1>0 DEF JournalRound, Moves
  <2>4. Select(p, t) => Moves(p, To("chosen", Quarantine(t))) BY <1>0 DEF Select, Moves
  <2>5. proc[p].step = "rest" BY <1>1 DEF JournalTrial, JournalRound, Select
  <2> HIDE DEF To
  <2> QED BY <1>1, <2>1, <2>2, <2>3, <2>4, <2>5, Moved
<1>2. ASSUME JournalQuarantine(p) \/ Open(p)
      PROVE  /\ proc[p].step \in {"chosen", "open"} /\ proc'[p].step \in {"open", "apply"}
             /\ \A q \in Processes \ {p} : proc'[q] = proc[q]
  BY <1>2, Went DEF JournalQuarantine, Open
<1>3. ASSUME Record(p) \/ MarkContaminated(p) \/ GiveUp(p)
      PROVE  /\ proc[p].step = "apply" /\ proc'[p].step = "rest"
             /\ \A q \in Processes \ {p} : proc'[q] = proc[q]
  BY <1>3, Rested DEF Record, MarkContaminated, GiveUp
<1>4. JournalStart(p) => proc[p].step = "rest" /\ proc' = proc BY DEF JournalStart
<1> QED BY <1>1, <1>2, <1>3, <1>4 DEF Write, RebuildSteps

-----------------------------------------------------------------------------
(* What a replay adds up *)

Sums == [r \in Rounds |-> row[r].counts]

LEMMA RowFields ==
  ASSUME NEW r \in RowOf
  PROVE  r.counts \in Int /\ (~r.in => r.counts = 0)
<1>1. CASE r = Absent
  <2>1. r.counts = 0 BY <1>1 DEF Absent
  <2> QED BY <2>1
<1>2. CASE r \in [in : {TRUE}, clean : BOOLEAN, counts : Nat \ {0}]
  <2>1. r.counts \in Int BY <1>2
  <2>2. r.in BY <1>2
  <2> QED BY <2>1, <2>2
<1> QED BY <1>1, <1>2 DEF RowOf

LEMMA SumsTyped == TypeOK => Sums \in [Rounds -> Int] /\ IsFiniteSet(Rounds)
<1> SUFFICES ASSUME TypeOK PROVE Sums \in [Rounds -> Int] /\ IsFiniteSet(Rounds) OBVIOUS
<1>1. row \in [Ids -> RowOf] /\ Rounds \subseteq Ids BY DEF TypeOK, Ids
<1>2. \A r \in RowOf : r.counts \in Int BY RowFields
<1>3. IsFiniteSet(Rounds) BY TrialAssumption, FS_Interval DEF TrialAssumption, Rounds
<1> QED BY <1>1, <1>2, <1>3 DEF Sums

\* Steps that leave the rows and the replay's place alone leave its sum alone.
LEMMA SumsStay ==
  ASSUME TypeOK, ReplayInv, Grows, row' = row, replayed' => replayed,
         \A q \in Rebuilding' : /\ q \in Rebuilding /\ proc'[q].step # "meta"
                                /\ proc'[q].pos = proc[q].pos /\ proc'[q].last = proc[q].last
  PROVE  ReplayInv'
<1> SUFFICES ASSUME replayed', NEW q \in Rebuilding'
    PROVE /\ Rebuilding' = {q} /\ proc'[q].step # "meta"
          /\ Counted' = proc'[q].last
          /\ \A r \in Rounds : row'[r].in => r \in ReadRounds(q)'
  BY DEF ReplayInv
<1>1. q \in Processes /\ q \in Rebuilding BY DEF Rebuilding
<1>2. Rebuilding = {q} /\ Counted = proc[q].last /\ \A r \in Rounds : row[r].in => r \in ReadRounds(q)
  BY <1>1 DEF ReplayInv
<1>3. Counted' = Counted BY DEF Counted
<1>4. ReadRounds(q)' = ReadRounds(q)
  <2>1. ReadLines(q)' = ReadLines(q) BY <1>1, ReadStays
  <2> QED BY <2>1 DEF ReadRounds, ReadTrials
<1>5. Rebuilding' = {q} BY <1>2
<1> QED BY <1>2, <1>3, <1>4, <1>5

\* A replayed line adds to the sum what it adds to the running total.
LEMMA LineAdds ==
  ASSUME TypeOK, JournalInv, TotalsInv, ReplayInv, replayed, NEW p \in Processes, Replay(p)
  PROVE  /\ Counted' = proc'[p].last
         /\ \A r \in Rounds : row'[r].in => r \in ReadRounds(p)'
<1>0. row \in [Ids -> RowOf] /\ Rounds \subseteq Ids /\ proc[p].last \in Nat BY DEF TypeOK, Ids
<1>1. p \in Rebuilding BY DEF Rebuilding, Replay, RebuildSteps
<1>2. Counted = proc[p].last /\ \A r \in Rounds : row[r].in => r \in ReadRounds(p)
  BY <1>1 DEF ReplayInv
<1>3. /\ proc'[p].last = IF NextLine(p).kind = "trial" /\ NextLine(p).id \in Rounds
                         THEN Cumulative[NextLine(p).id] ELSE proc[p].last
      /\ ReadLines(p)' = ReadLines(p) \cup {NextLine(p)}
  BY Replayed, TotalOf
<1>4. \A r \in Rounds : r \in ReadRounds(p)' <=> r \in ReadRounds(p) \/ NextLine(p) = Trial(r)
  BY <1>0, <1>3 DEF ReadRounds, ReadTrials
<1>5. Counted = SumFunction(Sums) /\ Counted' = SumFunction(Sums') BY DEF Counted, Sums
<1>6. ASSUME NEW t \in Rounds, NextLine(p) = Trial(t), row' = [row EXCEPT ![t] = ReplayedRow(proc[p], t)]
      PROVE  Counted' = proc'[p].last /\ \A r \in Rounds : row'[r].in => r \in ReadRounds(p)'
  <2>1. t \in Ids /\ proc'[p].last = Cumulative[t] BY <1>0, <1>3, <1>6, LinesDiffer
  <2>2. row'[t] = ReplayedRow(proc[p], t) /\ \A r \in Ids \ {t} : row'[r] = row[r] BY <1>0, <1>6, <2>1
  <2>3. \A r \in ReadRounds(p) : r < t BY <1>6, RoundsInOrder
  <2>4. ~row[t].in
    <3>1. t \notin ReadRounds(p) BY <2>3 DEF Rounds
    <3> QED BY <1>2, <3>1
  <2>5. row[t].counts = 0 BY <1>0, <2>1, <2>4, RowFields
  <2>6. row'[t].counts = Cumulative[t] - proc[p].last BY <1>6, <2>1, <2>2, ReplayCountsEnough
  <2>7. Cumulative[t] \in Nat BY TotalsGrow
  <2> DEFINE S == Sums'
  <2>8. S \in [Rounds -> Int]
    <3>1. S = [r \in Rounds |-> row'[r].counts] BY DEF Sums
    <3>2. \A r \in RowOf : r.counts \in Int BY RowFields
    <3>3. \A r \in Rounds : row'[r].counts \in Int BY <1>0, <2>2, <2>6, <2>7, <3>2
    <3> QED BY <3>1, <3>3
  <2>9. Agree(Sums, S, Rounds \ {t}) BY <1>0, <2>2 DEF Agree, Sums
  <2>10. Sums[t] = 0 /\ S[t] = Cumulative[t] - proc[p].last BY <2>5, <2>6 DEF Sums
  <2> HIDE DEF S
  <2>11. SumFunction(S) = SumFunction(Sums) + S[t] - Sums[t] BY <2>8, <2>9, SumsTyped, SumChange
  <2>12. SumFunction(S) = Cumulative[t]
    <3>1. SumFunction(Sums) = proc[p].last /\ proc[p].last \in Nat BY <1>0, <1>2, <1>5
    <3> QED BY <3>1, <2>7, <2>10, <2>11
  <2>13. Counted' = proc'[p].last BY <1>5, <2>1, <2>12 DEF S
  <2>14. \A r \in Rounds : row'[r].in => r \in ReadRounds(p)' BY <1>0, <1>2, <1>4, <1>6, <2>2
  <2> QED BY <2>13, <2>14
<1>7. ASSUME \A r \in Rounds : (row'[r].in <=> row[r].in) /\ row'[r].counts = row[r].counts,
             \A r \in Rounds : NextLine(p) # Trial(r)
      PROVE  Counted' = proc'[p].last /\ \A r \in Rounds : row'[r].in => r \in ReadRounds(p)'
  <2>1. Counted' = Counted BY <1>7 DEF Counted
  <2>2. proc'[p].last = proc[p].last
    <3>1. NextLine(p) \in Line BY ReplayReads
    <3>2. NextLine(p).kind = "trial" => NextLine(p) = Trial(NextLine(p).id) BY <3>1 DEF Line, Trial
    <3> QED BY <1>3, <1>7, <3>2
  <2> QED BY <1>2, <1>4, <1>7, <2>1, <2>2
<1>8. ASSUME NEW t \in Ids \ Rounds, NextLine(p) = Trial(t), row' = [row EXCEPT ![t] = ReplayedRow(proc[p], t)]
      PROVE  Counted' = proc'[p].last /\ \A r \in Rounds : row'[r].in => r \in ReadRounds(p)'
  <2>1. \A r \in Rounds : row'[r] = row[r] BY <1>0, <1>8
  <2>2. \A r \in Rounds : NextLine(p) # Trial(r) BY <1>0, <1>8, LinesDiffer
  <2> QED BY <1>7, <2>1, <2>2
<1>9. ASSUME NEW t \in Ids, NextLine(p) = Quarantine(t), row' = Quarantined(t)
      PROVE  Counted' = proc'[p].last /\ \A r \in Rounds : row'[r].in => r \in ReadRounds(p)'
  <2>1. \A r \in Rounds : (row'[r].in <=> row[r].in) /\ row'[r].counts = row[r].counts
    BY <1>0, <1>9, QuarantinedTyped
  <2>2. \A r \in Rounds : NextLine(p) # Trial(r) BY <1>0, <1>9, LinesDiffer
  <2> QED BY <1>7, <2>1, <2>2
<1>10. ASSUME row' = row, \A t \in Ids : NextLine(p) # Trial(t)
       PROVE  Counted' = proc'[p].last /\ \A r \in Rounds : row'[r].in => r \in ReadRounds(p)'
  BY <1>0, <1>7, <1>10
<1> QED BY <1>6, <1>8, <1>9, <1>10, Ingests

LEMMA ReplayKept ==
  TypeOK /\ JobsInv /\ JournalInv /\ TotalsInv /\ ReplayInv /\ [Next]_vars => ReplayInv'
<1> SUFFICES ASSUME TypeOK, JobsInv, JournalInv, TotalsInv, ReplayInv, [Next]_vars PROVE ReplayInv' OBVIOUS
<1> USE DEF file, index, history
<1>0. Grows BY JournalGrows
<1>m. replayed => \A q \in Rebuilding : proc[q].step # "meta" BY DEF ReplayInv
<1>f. ~replayed' => ReplayInv' BY DEF ReplayInv
<1>s. ASSUME row' = row, replayed' => replayed,
             \A q \in Rebuilding' : /\ q \in Rebuilding
                                    /\ proc'[q].step = proc[q].step \/ proc'[q].step # "meta"
                                    /\ proc'[q].pos = proc[q].pos /\ proc'[q].last = proc[q].last
      PROVE  ReplayInv'
  <2>1. CASE ~replayed' BY <2>1, <1>f
  <2>2. CASE replayed'
    <3>1. \A q \in Rebuilding' : proc'[q].step # "meta" BY <1>m, <1>s, <2>2
    <3> QED BY <1>0, <1>s, <3>1, SumsStay
  <2> QED BY <2>1, <2>2
<1>1. ASSUME NEW p \in Processes, Write(p) PROVE ReplayInv'
  <2>1. \A q \in Rebuilding' : q \in Rebuilding /\ proc'[q] = proc[q]
    BY <1>1, WritersApart DEF Rebuilding
  <2>2. Record(p) \/ MarkContaminated(p) => ~replayed' BY DEF Record, MarkContaminated
  <2>3. Record(p) \/ MarkContaminated(p) \/ UNCHANGED <<row, replayed>>
    BY <1>1 DEF Write, JournalTrial, JournalStart, JournalRound, Select, JournalQuarantine, Open, GiveUp
  <2> QED BY <1>f, <1>s, <2>1, <2>2, <2>3
<1>2. ASSUME NEW p \in Processes, Rebuild(p) PROVE ReplayInv'
  <2>1. BeginRebuild(p) => ReplayInv' BY <1>f DEF BeginRebuild
  <2>2. ASSUME DropTrials(p) PROVE ReplayInv'
    <3>1. CASE ~replayed' BY <3>1, <1>f
    <3>2. CASE replayed'
      <4>1. Rebuilding = {p} BY <2>2, <3>2 DEF DropTrials
      <4>2. proc[p].pos = 0 /\ proc'[p].step = "dropped" /\ proc'[p].pos = 0 /\ proc'[p].last = proc[p].last
            /\ \A q \in Processes \ {p} : proc'[q] = proc[q]
        BY <2>2, Went DEF DropTrials, JobsInv
      <4>3. Rebuilding' = {p} BY <4>1, <4>2 DEF Rebuilding, RebuildSteps
      <4>4. ReadRounds(p) = {} BY <4>2 DEF ReadRounds, ReadTrials, ReadLines
      <4>5. proc[p].last = 0 BY <4>4, TrialAssumption DEF TotalsInv, TrialAssumption
      <4>6. row' = [t \in Ids |-> Absent] BY <2>2 DEF DropTrials
      <4>7. Counted' = 0
        <5> DEFINE z == [r \in Rounds |-> row'[r].counts]
        <5>1. z \in [Rounds -> Nat] /\ \A r \in Rounds : z[r] = 0 BY <4>6 DEF Absent, Ids
        <5>2. Counted' = SumFunction(z) BY DEF Counted
        <5> HIDE DEF z
        <5>3. IsFiniteSet(Rounds) BY TrialAssumption, FS_Interval DEF TrialAssumption, Rounds
        <5> QED BY <5>1, <5>2, <5>3, SumZero
      <4>8. \A r \in Rounds : ~row'[r].in BY <4>6 DEF Absent, Ids
      <4> QED BY <4>2, <4>3, <4>5, <4>7, <4>8 DEF ReplayInv
    <3> QED BY <3>1, <3>2
  <2>3. ASSUME CreateFlagged(p) \/ ReachEnd(p) PROVE ReplayInv'
    <3>1. \E s \in {"replay", "eof"} : Go(p, s) BY <2>3 DEF CreateFlagged, ReachEnd, Go
    <3>2. proc[p].step \in RebuildSteps BY <2>3 DEF CreateFlagged, ReachEnd, RebuildSteps
    <3>3. \A q \in Rebuilding' : /\ q \in Rebuilding
                                 /\ proc'[q].step = proc[q].step \/ proc'[q].step # "meta"
                                 /\ proc'[q].pos = proc[q].pos /\ proc'[q].last = proc[q].last
      BY <3>1, <3>2, Went DEF Rebuilding
    <3>4. UNCHANGED <<row, replayed>> BY <2>3 DEF CreateFlagged, ReachEnd
    <3> QED BY <1>s, <3>3, <3>4
  <2>4. ASSUME Replay(p) PROVE ReplayInv'
    <3>1. CASE ~replayed' BY <3>1, <1>f
    <3>2. CASE replayed'
      <4>1. replayed BY <2>4, <3>2 DEF Replay
      <4>2. Counted' = proc'[p].last /\ \A r \in Rounds : row'[r].in => r \in ReadRounds(p)'
        BY <2>4, <4>1, LineAdds
      <4>3. p \in Rebuilding BY <2>4 DEF Replay, Rebuilding, RebuildSteps
      <4>4. Rebuilding = {p} BY <4>1, <4>3 DEF ReplayInv
      <4>5. proc'[p].step = "replay" /\ \A q \in Processes \ {p} : proc'[q] = proc[q] BY <2>4, Replayed
      <4>6. Rebuilding' = {p} BY <4>4, <4>5 DEF Rebuilding, RebuildSteps
      <4> QED BY <4>2, <4>5, <4>6 DEF ReplayInv
    <3> QED BY <3>1, <3>2
  <2>5. ASSUME Finish(p) \/ Abort(p) PROVE ReplayInv'
    <3>1. proc'[p].step \in {"rest", "apply"} /\ \A q \in Processes \ {p} : proc'[q] = proc[q]
      BY <2>5, Finished, Rested DEF Abort
    <3>2. \A q \in Rebuilding' : q \in Rebuilding /\ proc'[q] = proc[q] BY <3>1 DEF Rebuilding, RebuildSteps
    <3>3. UNCHANGED <<row, replayed>> BY <2>5 DEF Finish, Abort
    <3> QED BY <1>s, <3>2, <3>3
  <2> QED BY <1>2, <2>1, <2>2, <2>3, <2>4, <2>5 DEF Rebuild
<1>3. ASSUME NEW p \in Processes, Kill(p) PROVE ReplayInv'
  <2>1. proc'[p].step = "rest" /\ \A q \in Processes \ {p} : proc'[q] = proc[q]
    BY <1>3, Rested DEF Kill
  <2>2. \A q \in Rebuilding' : q \in Rebuilding /\ proc'[q] = proc[q] BY <2>1 DEF Rebuilding, RebuildSteps
  <2>3. UNCHANGED <<row, replayed>> BY <1>3 DEF Kill
  <2> QED BY <1>s, <2>2, <2>3
<1>4. CASE Look \/ TearLine \/ LoseJournal \/ FindJournal \/ UNCHANGED vars
  <2>1. UNCHANGED <<proc, row, replayed>> BY <1>4 DEF Look, TearLine, LoseJournal, FindJournal, vars
  <2> QED BY <1>s, <2>1 DEF Rebuilding
<1> QED BY <1>1, <1>2, <1>3, <1>4 DEF Next

-----------------------------------------------------------------------------
(* Whether the index is whole *)

Same(q) == proc'[q].step = proc[q].step /\ proc'[q].pos = proc[q].pos

\* A replay that stays where it is still has ahead of it what it had.
LEMMA AheadStays ==
  ASSUME TypeOK, Grows, \A q \in Processes : proc[q].step = "replay" => Same(q),
         NEW u \in Ids, MarkAhead(u)
  PROVE  MarkAhead(u)'
<1>1. PICK q \in Processes, i \in DOMAIN journal :
        proc[q].step = "replay" /\ i > proc[q].pos /\ journal[i] = Quarantine(u)
  BY DEF MarkAhead
<1>2. i \in DOMAIN journal' /\ journal'[i] = journal[i]
  <2>1. ASSUME NEW l \in Line, journal' = Append(journal, l) PROVE i \in DOMAIN journal' /\ journal'[i] = journal[i]
    <3>1. /\ Len(journal) \in Nat /\ DOMAIN journal = 1..Len(journal) /\ DOMAIN journal' = 1..(Len(journal) + 1)
          /\ journal'[i] = journal[i]
      BY <2>1, Appended DEF TypeOK
    <3> QED BY <3>1
  <2> QED BY <2>1 DEF Grows
<1>3. Quarantine(u)' = Quarantine(u) BY DEF Quarantine
<1> QED BY <1>1, <1>2, <1>3 DEF MarkAhead, Same

LEMMA SafeStays ==
  ASSUME TypeOK, Grows, \A q \in Processes : proc[q].step = "replay" => Same(q),
         NEW u \in Ids, row'[u] = row[u], Safe(u)
  PROVE  Safe(u)'
BY AheadStays DEF Safe

\* Rows that stay, and quarantines that stay safe.
HeldStays == \A u \in Ids : row[u].in => row'[u].in
MarksStay == \A u \in Ids : Quarantine(u) \in Lines /\ Safe(u) => Safe(u)'

LEMMA CaughtStays ==
  ASSUME TypeOK, JournalInv, Grows, NEW q \in Processes, proc'[q].pos = proc[q].pos, Caught(q),
         HeldStays, MarksStay
  PROVE  Caught(q)'
<1>1. ReadLines(q)' = ReadLines(q) BY ReadStays
<1>2. ReadTrials(q)' = ReadTrials(q) BY <1>1 DEF ReadTrials
<1> SUFFICES ASSUME NEW t \in ReadTrials(q)
    PROVE row'[t].in /\ (Quarantine(t) \in ReadLines(q) => Safe(t)')
  BY <1>1, <1>2 DEF Caught
<1>3. t \in Ids /\ row[t].in /\ (Quarantine(t) \in ReadLines(q) => Safe(t)) BY DEF Caught, ReadTrials
<1>4. ReadLines(q) \subseteq Lines BY ReadableBegun
<1> QED BY <1>3, <1>4 DEF HeldStays, MarksStay

\* New debts and marks are of rows that are there and safe.
DebtsMet ==
  /\ \A u \in owed' \cap Readable' : u \in owed \cap Readable \/ row'[u].in
  /\ \A u \in marked' \cap Readable' : u \in marked \cap Readable \/ Safe(u)'

LEMMA WholeStays ==
  ASSUME RowsInv, Whole, HeldStays, MarksStay, DebtsMet, \A q \in Rebuilding' : Caught(q)'
  PROVE  Whole'
<1>1. Readable \subseteq Ids BY DEF Readable
<1>2. \A t \in owed' \cap Readable' : row'[t].in BY <1>1 DEF Whole, HeldStays, DebtsMet
<1>3. \A t \in marked' \cap Readable' : Safe(t)' BY <1>1 DEF Whole, MarksStay, DebtsMet, RowsInv
<1> QED BY <1>2, <1>3 DEF Whole

\* A barren rebuild owes nothing.
LEMMA BarrenEmpty ==
  ASSUME Whole, Barren
  PROVE  /\ owed \cap Readable = {} /\ marked \cap Readable = {}
         /\ \A u \in Ids : ~row[u].in
         /\ \A q \in Rebuilding : ReadLines(q) = {} /\ ReadTrials(q) = {}
<1>1. \A u \in Ids : ~row[u].in BY DEF Barren, Held
<1>2. owed \cap Readable = {} /\ marked \cap Readable = {} BY <1>1 DEF Whole, Safe, Readable
<1>3. \A q \in Rebuilding : ReadLines(q) = {} BY DEF Barren, ReadLines
<1> QED BY <1>1, <1>2, <1>3 DEF ReadTrials

LEMMA BarrenStays ==
  ASSUME Whole, Barren, journal' = journal,
         owed' \subseteq owed \cup UNION {ReadTrials(q) : q \in Rebuilding},
         marked' \subseteq marked \cup UNION {ReadTrials(q) : q \in Rebuilding},
         \A u \in Ids : ~row'[u].in, \A q \in Rebuilding' : proc'[q].pos = 0
  PROVE  Whole' /\ Barren'
<1>1. owed' \subseteq owed /\ marked' \subseteq marked BY BarrenEmpty
<1>2. Readable' = Readable BY DEF Readable, Lines
<1>3. owed' \cap Readable' = {} /\ marked' \cap Readable' = {} BY <1>1, <1>2, BarrenEmpty
<1>4. \A q \in Rebuilding' : ReadLines(q)' = {} BY DEF ReadLines
<1>5. \A q \in Rebuilding' : Caught(q)' BY <1>4 DEF Caught, ReadTrials
<1>6. Held' = {} BY DEF Held
<1> QED BY <1>3, <1>5, <1>6 DEF Whole, Barren

\* Steps that leave every rebuild where it is.
LEMMA Steady ==
  ASSUME TypeOK, JournalInv, RowsInv, IndexInv, Grows,
         \A q \in Processes : q \in Rebuilding \/ q \in Rebuilding' => Same(q),
         HeldStays, MarksStay, DebtsMet, doubtful => doubtful', sentinel => sentinel',
         mounted' \/ Rebuilding = {} \/ (~mounted /\ Held' = Held)
  PROVE  IndexInv'
<1>1. Rebuilding' = Rebuilding BY DEF Rebuilding, Same
<1>2. \A q \in Rebuilding : q \in Processes /\ Same(q) BY DEF Rebuilding
<1>3. \A q \in Rebuilding : Caught(q) => Caught(q)' BY <1>2, CaughtStays DEF Same
<1>4. CASE doubtful BY <1>4 DEF IndexInv
<1>5. CASE Whole /\ (mounted \/ Rebuilding = {} \/ Barren)
  <2>1. Whole' BY <1>1, <1>3, <1>5, WholeStays DEF Whole
  <2>2. ~mounted /\ Held' = Held /\ Barren => Barren' BY <1>1, <1>2 DEF Barren, Same
  <2> QED BY <1>1, <1>5, <2>1, <2>2 DEF IndexInv
<1>6. CASE sentinel /\ Rebuilding = {} BY <1>1, <1>6 DEF IndexInv
<1>7. CASE mounted /\ Dropping
  <2>1. PICK q \in Processes : proc[q].step \in {"meta", "dropped"} BY <1>7 DEF Dropping
  <2>2. q \in Rebuilding BY <2>1 DEF Rebuilding, RebuildSteps
  <2>3. Dropping' BY <1>2, <2>1, <2>2 DEF Dropping, Same
  <2> QED BY <1>7, <2>2, <2>3 DEF IndexInv
<1>8. CASE mounted /\ Replaying
  <2>1. PICK q \in Processes : proc[q].step = "replay" /\ Caught(q) BY <1>8 DEF Replaying
  <2>2. q \in Rebuilding BY <2>1 DEF Rebuilding, RebuildSteps
  <2>3. Replaying' BY <1>2, <1>3, <2>1, <2>2 DEF Replaying, Same
  <2> QED BY <1>8, <2>2, <2>3 DEF IndexInv
<1> QED BY <1>4, <1>5, <1>6, <1>7, <1>8 DEF IndexInv

\* The line of a trial that was begun is not written now.
LEMMA NoLateTrial ==
  ASSUME TypeOK, JobsInv, [Next]_vars, NEW u \in Ids, u \in begun, u \in Readable'
  PROVE  u \in Readable
<1> USE DEF file, index, history
<1>1. ASSUME journal' = journal PROVE u \in Readable BY <1>1 DEF Readable, Lines
<1>2. ASSUME NEW l \in Line, journal' = Append(journal, l), l # Trial(u) PROVE u \in Readable
  <2>1. /\ Len(journal) \in Nat /\ DOMAIN journal = 1..Len(journal)
        /\ DOMAIN journal' = 1..(Len(journal) + 1)
        /\ \A i \in DOMAIN journal : journal'[i] = journal[i]
        /\ journal'[Len(journal) + 1] = l
    BY <1>2, Appended DEF TypeOK
  <2>2. PICK i \in DOMAIN journal' : journal'[i] = Trial(u) BY DEF Readable, Lines, Trial
  <2>3. i \in DOMAIN journal /\ journal[i] = Trial(u) BY <1>2, <2>1, <2>2
  <2> QED BY <2>3 DEF Readable, Lines
<1>3. ASSUME NEW l \in Line, AppendLine(l), l # Trial(u) PROVE u \in Readable
  BY <1>1, <1>2, <1>3 DEF AppendLine
<1>4. ASSUME NEW p \in Processes, Write(p) PROVE u \in Readable
  <2>1. ASSUME NEW t \in Ids, JournalTrial(p, t) \/ JournalRound(p, t) PROVE u \in Readable
    <3>1. AppendLine(Trial(t)) /\ t # u BY <2>1 DEF JournalTrial, JournalRound
    <3> QED BY <1>3, <3>1, LinesTyped, LinesDiffer
  <2>2. ASSUME JournalQuarantine(p) PROVE u \in Readable
    <3>1. PICK t \in Ids : proc[p].job = Quarantine(t)
      BY <2>2, LinesDiffer DEF JournalQuarantine, JobsInv, Jobs
    <3> QED BY <1>3, <2>2, <3>1, LinesTyped, LinesDiffer DEF JournalQuarantine
  <2>3. (\E t \in Ids : Select(p, t)) \/ Open(p) \/ Record(p) \/ MarkContaminated(p) \/ GiveUp(p)
          => journal' = journal
    BY DEF Select, Open, Record, MarkContaminated, GiveUp
  <2>4. JournalStart(p) => u \in Readable BY <1>3, LinesTyped, LinesDiffer DEF JournalStart
  <2> QED BY <1>1, <1>4, <2>1, <2>2, <2>3, <2>4 DEF Write, Ids
<1>5. ASSUME NEW p \in Processes, Rebuild(p) PROVE journal' = journal
  BY <1>5 DEF Rebuild, BeginRebuild, DropTrials, CreateFlagged, Replay, ReachEnd, Finish, Abort
<1>6. TearLine => u \in Readable BY <1>2, LinesTyped, LinesDiffer DEF TearLine
<1>7. (\E p \in Processes : Kill(p)) \/ Look \/ LoseJournal \/ FindJournal \/ UNCHANGED vars
        => journal' = journal
  BY DEF Kill, Look, LoseJournal, FindJournal, vars
<1> QED BY <1>1, <1>4, <1>5, <1>6, <1>7 DEF Next

LEMMA MarkedBegun == TypeOK /\ JournalInv /\ RowsInv => marked \subseteq begun
BY LinesDiffer DEF TypeOK, JournalInv, RowsInv, Lines

\* Steps that do not touch the index at all.
LEMMA Quiet ==
  ASSUME TypeOK, JobsInv, JournalInv, Known, RowsInv, IndexInv, [Next]_vars,
         UNCHANGED <<row, owed, marked>>,
         \A q \in Processes : q \in Rebuilding \/ q \in Rebuilding' => Same(q),
         doubtful => doubtful', sentinel => sentinel',
         mounted' \/ ~mounted \/ Rebuilding = {}
  PROVE  IndexInv'
<1>1. Grows BY JournalGrows
<1>2. HeldStays BY DEF HeldStays
<1>3. \A q \in Processes : proc[q].step = "replay" => Same(q) BY DEF Rebuilding, RebuildSteps
<1>4. MarksStay BY <1>1, <1>3, SafeStays DEF MarksStay
<1>5. DebtsMet
  <2>1. owed \subseteq begun /\ marked \subseteq begun /\ begun \subseteq Ids BY MarkedBegun DEF Known, TypeOK
  <2> QED BY <2>1, NoLateTrial DEF DebtsMet
<1>6. Held' = Held BY DEF Held
<1> QED BY <1>1, <1>2, <1>4, <1>5, <1>6, Steady

LEMMA RecordKeepsIndex ==
  ASSUME TypeOK, JobsInv, JournalInv, Known, RowsInv, IndexInv, NEW p \in Processes, Record(p),
         [Next]_vars
  PROVE  IndexInv'
<1> DEFINE t == proc[p].job.id
<1>0. row \in [Ids -> RowOf] /\ t \in Ids
  BY DEF TypeOK, Record, JobsInv, Jobs, Trial, Quarantine
<1>1. /\ row' = [row EXCEPT ![t] = RowOfTrial(t)] /\ owed' = owed \cup {t} /\ marked' = marked
      /\ journal' = journal /\ mounted' = mounted /\ sentinel' = sentinel
  BY DEF Record, file
<1>2. doubtful' = \/ doubtful
                  \/ (row[t].in /\ row[t] # RowOfTrial(t))
                  \/ (~mounted /\ Rebuilding # {})
  BY DEF Record
<1>3. \A q \in Processes : q \in Rebuilding \/ q \in Rebuilding' => Same(q)
  <2>1. Write(p) BY DEF Write
  <2> QED BY <2>1, WritersApart DEF Rebuilding, Same
<1> HIDE DEF t
<1>4. CASE doubtful' BY <1>4 DEF IndexInv
<1>5. CASE ~doubtful'
  <2>1. ~doubtful /\ (row[t].in => row[t] = RowOfTrial(t)) /\ (mounted \/ Rebuilding = {}) BY <1>2, <1>5
  <2>2. RowOfTrial(t).in BY DEF RowOfTrial, Recorded
  <2>3. \A u \in Ids : row'[u] = IF u = t THEN RowOfTrial(t) ELSE row[u] BY <1>0, <1>1
  <2>4. \A u \in Ids : row[u].in => row'[u] = row[u] BY <2>1, <2>3
  <2>5. Grows BY <1>1 DEF Grows
  <2>6. HeldStays BY <2>4 DEF HeldStays
  <2>7. MarksStay
    <3> SUFFICES ASSUME NEW u \in Ids, Safe(u) PROVE Safe(u)' BY DEF MarksStay
    <3>1. row'[u] = row[u] BY <2>4 DEF Safe
    <3>2. \A q \in Processes : proc[q].step = "replay" => Same(q) BY <1>3 DEF Rebuilding, RebuildSteps
    <3> QED BY <2>5, <3>1, <3>2, SafeStays
  <2>8. DebtsMet
    <3>1. Readable' = Readable BY <1>1 DEF Readable, Lines
    <3>2. row'[t].in BY <1>0, <2>2, <2>3
    <3> QED BY <1>1, <3>1, <3>2 DEF DebtsMet
  <2> QED BY <1>1, <1>3, <2>1, <2>5, <2>6, <2>7, <2>8, Steady
<1> QED BY <1>4, <1>5

LEMMA MarkKeepsIndex ==
  ASSUME TypeOK, JobsInv, JournalInv, Known, RowsInv, IndexInv, NEW p \in Processes,
         MarkContaminated(p), [Next]_vars
  PROVE  IndexInv'
<1>t. PICK t \in Ids : t = proc[p].job.id
  BY DEF MarkContaminated, JobsInv, Jobs, Trial, Quarantine
<1>0. row \in [Ids -> RowOf] BY DEF TypeOK
<1>1. /\ row' = Quarantined(t) /\ owed' = owed
      /\ marked' = marked \cup (IF row[t].in /\ proc[p].job \in Lines THEN {t} ELSE {})
      /\ journal' = journal /\ mounted' = mounted /\ sentinel' = sentinel /\ doubtful' = doubtful
  BY <1>t DEF MarkContaminated, file
<1>2. \A q \in Processes : q \in Rebuilding \/ q \in Rebuilding' => Same(q)
  <2>1. Write(p) BY DEF Write
  <2> QED BY <2>1, WritersApart DEF Rebuilding, Same
<1>3. \A u \in Ids : (row'[u].in <=> row[u].in) /\ (~row[u].clean => ~row'[u].clean)
  BY <1>0, <1>1, QuarantinedTyped
<1>4. row[t].in => ~row'[t].clean BY <1>0, <1>1, QuarantinedTyped
<1>5. Grows BY <1>1 DEF Grows
<1>6. HeldStays BY <1>3 DEF HeldStays
<1>7. MarksStay
  <2> SUFFICES ASSUME NEW u \in Ids, Safe(u) PROVE Safe(u)' BY DEF MarksStay
  <2>1. \A q \in Processes : proc[q].step = "replay" => Same(q) BY <1>2 DEF Rebuilding, RebuildSteps
  <2>2. MarkAhead(u) => MarkAhead(u)' BY <1>5, <2>1, AheadStays
  <2> QED BY <1>3, <2>2 DEF Safe
<1>8. DebtsMet
  <2>1. Readable' = Readable BY <1>1 DEF Readable, Lines
  <2>2. row[t].in => Safe(t)' BY <1>0, <1>3, <1>4 DEF Safe
  <2> QED BY <1>1, <2>1, <2>2 DEF DebtsMet
<1>9. Held' = Held BY <1>3 DEF Held
<1> QED BY <1>1, <1>2, <1>5, <1>6, <1>7, <1>8, <1>9, Steady

LEMMA WriteKeepsIndex ==
  ASSUME TypeOK, JobsInv, JournalInv, Known, RowsInv, IndexInv, NEW p \in Processes, Write(p),
         [Next]_vars
  PROVE  IndexInv'
<1> USE DEF file, index, history
<1>1. ASSUME \/ \E t \in Ids : JournalTrial(p, t) \/ JournalRound(p, t) \/ Select(p, t)
             \/ JournalStart(p) \/ JournalQuarantine(p) \/ Open(p) \/ GiveUp(p)
      PROVE  IndexInv'
  <2>1. UNCHANGED <<row, owed, marked, doubtful, sentinel, mounted>>
    BY <1>1 DEF JournalTrial, JournalStart, JournalRound, Select, JournalQuarantine, Open, GiveUp, AppendLine
  <2>2. \A q \in Processes : q \in Rebuilding \/ q \in Rebuilding' => Same(q)
    BY WritersApart DEF Rebuilding, Same
  <2> QED BY <2>1, <2>2, Quiet
<1> QED BY <1>1, RecordKeepsIndex, MarkKeepsIndex DEF Write, Ids

LEMMA BeginKeepsIndex ==
  ASSUME TypeOK, JobsInv, JournalInv, RowsInv, IndexInv, NEW p \in Processes, BeginRebuild(p)
  PROVE  IndexInv'
<1>1. /\ proc'[p].step = "meta" /\ proc'[p].pos = 0 /\ proc[p].step \in {"rest", "open"}
      /\ \A q \in Processes \ {p} : proc'[q] = proc[q]
  BY Went DEF BeginRebuild, JobsInv
<1>2. /\ mounted' = mounted /\ journal' = journal /\ UNCHANGED <<row, owed, marked>>
      /\ doubtful' = (doubtful \/ (~mounted /\ sentinel)) /\ (~mounted => Held = {})
  BY DEF BeginRebuild, file, Refused
<1>3. CASE mounted
  <2>1. Dropping' BY <1>1 DEF Dropping
  <2> QED BY <1>2, <1>3, <2>1 DEF IndexInv
<1>4. CASE doubtful' BY <1>4 DEF IndexInv
<1>5. CASE ~mounted /\ ~doubtful'
  <2>1. Whole /\ (Rebuilding = {} \/ Barren) BY <1>2, <1>5 DEF IndexInv
  <2>2. Barren BY <1>2, <1>5, <2>1 DEF Barren
  <2>3. \A q \in Rebuilding' : proc'[q].pos = 0 BY <1>1, <2>2 DEF Barren, Rebuilding
  <2>4. \A u \in Ids : ~row'[u].in BY <1>2, <2>2 DEF Barren, Held
  <2>5. Whole' /\ Barren' BY <1>2, <2>1, <2>2, <2>3, <2>4, BarrenStays
  <2> QED BY <2>5 DEF IndexInv
<1> QED BY <1>3, <1>4, <1>5

\* Without its journal a rebuild is barren.
LEMMA UnmountedBarren ==
  ASSUME IndexInv, NEW p \in Rebuilding, ~mounted, ~doubtful
  PROVE  Whole /\ Barren
BY DEF IndexInv

LEMMA DropKeepsIndex ==
  ASSUME TypeOK, IndexInv, NEW p \in Processes, DropTrials(p)
  PROVE  IndexInv'
<1>1. /\ proc'[p].step = "dropped" /\ proc'[p].pos = proc[p].pos /\ proc[p].step = "meta"
      /\ \A q \in Processes \ {p} : proc'[q] = proc[q]
  BY Went DEF DropTrials
<1>2. /\ mounted' = mounted /\ journal' = journal /\ UNCHANGED <<owed, marked>>
      /\ row' = [t \in Ids |-> Absent]
      /\ doubtful' = (doubtful /\ (Rebuilding # {p} \/ ~mounted))
  BY DEF DropTrials, file
<1>3. CASE mounted
  <2>1. Dropping' BY <1>1 DEF Dropping
  <2> QED BY <1>2, <1>3, <2>1 DEF IndexInv
<1>4. CASE doubtful' BY <1>4 DEF IndexInv
<1>5. CASE ~mounted /\ ~doubtful'
  <2>1. p \in Rebuilding BY <1>1 DEF Rebuilding, RebuildSteps
  <2>2. Whole /\ Barren BY <1>2, <1>5, <2>1, UnmountedBarren
  <2>3. \A q \in Rebuilding' : proc'[q].pos = 0 BY <1>1, <2>1, <2>2 DEF Barren, Rebuilding
  <2>4. \A u \in Ids : ~row'[u].in BY <1>2 DEF Absent
  <2>5. Whole' /\ Barren' BY <1>2, <2>2, <2>3, <2>4, BarrenStays
  <2> QED BY <2>5 DEF IndexInv
<1> QED BY <1>3, <1>4, <1>5

LEMMA CreateKeepsIndex ==
  ASSUME TypeOK, JobsInv, IndexInv, NEW p \in Processes, CreateFlagged(p)
  PROVE  IndexInv'
<1>1. /\ proc'[p].step = "replay" /\ proc'[p].pos = 0 /\ proc[p].pos = 0 /\ proc[p].step = "dropped"
      /\ \A q \in Processes \ {p} : proc'[q] = proc[q]
  BY Went DEF CreateFlagged, Go, JobsInv
<1>2. mounted' = mounted /\ journal' = journal /\ UNCHANGED <<row, owed, marked, doubtful>>
  BY DEF CreateFlagged, file, history
<1>3. CASE mounted
  <2>1. Caught(p)' BY <1>1 DEF Caught, ReadTrials, ReadLines
  <2>2. Replaying' BY <1>1, <2>1 DEF Replaying
  <2> QED BY <1>2, <1>3, <2>2 DEF IndexInv
<1>4. CASE doubtful' BY <1>4 DEF IndexInv
<1>5. CASE ~mounted /\ ~doubtful'
  <2>1. p \in Rebuilding BY <1>1 DEF Rebuilding, RebuildSteps
  <2>2. Whole /\ Barren BY <1>2, <1>5, <2>1, UnmountedBarren
  <2>3. \A q \in Rebuilding' : proc'[q].pos = 0 BY <1>1, <2>1, <2>2 DEF Barren, Rebuilding
  <2>4. \A u \in Ids : ~row'[u].in BY <1>2, <2>2 DEF Barren, Held
  <2>5. Whole' /\ Barren' BY <1>2, <2>2, <2>3, <2>4, BarrenStays
  <2> QED BY <2>5 DEF IndexInv
<1> QED BY <1>3, <1>4, <1>5

\* A replayed trial's line is followed by the line that quarantines it, if any.
LEMMA MarksFollow ==
  ASSUME TypeOK, JournalInv, NEW p \in Processes, Replay(p), NEW u \in Ids,
         NextLine(p) = Trial(u), Quarantine(u) \in Lines
  PROVE  /\ \E i \in DOMAIN journal : i > proc[p].pos + 1 /\ journal[i] = Quarantine(u)
         /\ Quarantine(u) \notin ReadLines(p)
<1>1. /\ proc[p].pos \in Nat /\ proc[p].pos + 1 \in DOMAIN journal
      /\ Len(journal) \in Nat /\ DOMAIN journal = 1..Len(journal)
  BY ReplayReads, LenProperties DEF TypeOK
<1>2. journal[proc[p].pos + 1] = Trial(u) BY DEF NextLine
<1>3. \A i \in DOMAIN journal : i < proc[p].pos + 1 => journal[i] # Quarantine(u)
  BY <1>1, <1>2 DEF JournalInv
<1>4. journal[proc[p].pos + 1] # Quarantine(u) BY <1>2, LinesDiffer
<1>5. PICK i \in DOMAIN journal : journal[i] = Quarantine(u) BY DEF Lines
<1>6. i > proc[p].pos + 1 BY <1>1, <1>3, <1>4, <1>5
<1>7. Quarantine(u) \notin ReadLines(p) BY <1>1, <1>3 DEF ReadLines
<1> QED BY <1>5, <1>6, <1>7

LEMMA ReplayKeepsMarks ==
  ASSUME TypeOK, JournalInv, NEW p \in Processes, Replay(p)
  PROVE  HeldStays /\ MarksStay
<1>0. row \in [Ids -> RowOf] BY DEF TypeOK
<1>1. /\ proc'[p].step = "replay" /\ proc'[p].pos = proc[p].pos + 1
      /\ \A q \in Processes \ {p} : proc'[q] = proc[q]
  BY Replayed
<1>2. journal' = journal /\ proc[p].step = "replay" BY DEF Replay, file
<1>3. proc[p].pos \in Nat /\ proc[p].pos + 1 \in DOMAIN journal /\ DOMAIN journal \subseteq Nat
  BY ReplayReads, LenProperties DEF TypeOK
<1>h. HeldStays
  <2>1. ASSUME NEW t \in Ids, row' = [row EXCEPT ![t] = ReplayedRow(proc[p], t)] PROVE HeldStays
    <3>1. ReplayedRow(proc[p], t).in BY DEF ReplayedRow, Recorded
    <3> QED BY <1>0, <2>1, <3>1 DEF HeldStays
  <2>2. \A t \in Ids : row' = Quarantined(t) => HeldStays BY <1>0, QuarantinedTyped DEF HeldStays
  <2>3. row' = row => HeldStays BY DEF HeldStays
  <2> QED BY <2>1, <2>2, <2>3, Ingests
<1>m. MarksStay
  <2> SUFFICES ASSUME NEW u \in Ids, Quarantine(u) \in Lines, Safe(u) PROVE Safe(u)' BY DEF MarksStay
  <2>0. row[u].in /\ row'[u].in BY <1>h DEF Safe, HeldStays
  <2>q. Quarantine(u)' = Quarantine(u) BY DEF Quarantine
  <2>1. CASE NextLine(p) = Trial(u)
    <3>1. PICK i \in DOMAIN journal : i > proc[p].pos + 1 /\ journal[i] = Quarantine(u) BY <2>1, MarksFollow
    <3>2. MarkAhead(u)' BY <1>1, <1>2, <2>q, <3>1 DEF MarkAhead
    <3> QED BY <2>0, <3>2 DEF Safe
  <2>2. CASE NextLine(p) = Quarantine(u)
    <3>1. row' = Quarantined(u) BY <2>2, Ingests, LinesDiffer
    <3>2. ~row'[u].clean BY <2>0, <3>1, QuarantinedTyped
    <3> QED BY <2>0, <3>2 DEF Safe
  <2>3. CASE NextLine(p) # Trial(u) /\ NextLine(p) # Quarantine(u)
    <3>1. row'[u] = row[u]
      <4>1. ASSUME NEW t \in Ids, NextLine(p) = Trial(t), row' = [row EXCEPT ![t] = ReplayedRow(proc[p], t)]
            PROVE  row'[u] = row[u]
        BY <1>0, <2>3, <4>1
      <4>2. ASSUME NEW t \in Ids, NextLine(p) = Quarantine(t), row' = Quarantined(t) PROVE row'[u] = row[u]
        <5>1. u # t BY <2>3, <4>2
        <5> QED BY <4>2, <5>1, QuarantinedTyped
      <4> QED BY <4>1, <4>2, Ingests
    <3>2. ASSUME MarkAhead(u) PROVE MarkAhead(u)'
      <4>1. PICK q \in Processes, i \in DOMAIN journal :
              proc[q].step = "replay" /\ i > proc[q].pos /\ journal[i] = Quarantine(u)
        BY <3>2 DEF MarkAhead
      <4>2. q = p => i # proc[p].pos + 1 BY <2>3, <4>1 DEF NextLine
      <4>3. proc'[q].step = "replay" /\ i > proc'[q].pos BY <1>1, <1>3, <4>1, <4>2
      <4> QED BY <1>2, <2>q, <4>1, <4>3 DEF MarkAhead
    <3> QED BY <3>1, <3>2 DEF Safe
  <2> QED BY <2>1, <2>2, <2>3
<1> QED BY <1>h, <1>m

LEMMA ReplayKeepsCaught ==
  ASSUME TypeOK, JournalInv, NEW p \in Processes, Replay(p), NEW q \in Processes, Caught(q)
  PROVE  Caught(q)'
<1>0. row \in [Ids -> RowOf] BY DEF TypeOK
<1>1. /\ ReadLines(p)' = ReadLines(p) \cup {NextLine(p)}
      /\ \A o \in Processes \ {p} : proc'[o] = proc[o]
  BY Replayed
<1>2. HeldStays /\ MarksStay BY ReplayKeepsMarks
<1>3. journal' = journal /\ Grows BY DEF Replay, file, Grows
<1>4. CASE q # p BY <1>1, <1>2, <1>3, <1>4, CaughtStays
<1>5. CASE q = p
  <2> SUFFICES ASSUME NEW t \in Ids, Trial(t) \in ReadLines(p) \cup {NextLine(p)}
      PROVE row'[t].in /\ (Quarantine(t) \in ReadLines(p) \cup {NextLine(p)} => Safe(t)')
    <3>1. Ids' = Ids /\ \A t \in Ids : Trial(t)' = Trial(t) /\ Quarantine(t)' = Quarantine(t)
      BY DEF Ids, Rounds, Trial, Quarantine
    <3> QED BY <1>1, <1>5, <3>1 DEF Caught, ReadTrials
  <2>1. CASE Trial(t) \in ReadLines(p)
    <3>1. row[t].in /\ (Quarantine(t) \in ReadLines(p) => Safe(t)) BY <1>5, <2>1 DEF Caught, ReadTrials
    <3>2. row'[t].in BY <1>2, <3>1 DEF HeldStays
    <3>3. Quarantine(t) \in ReadLines(p) => Safe(t)'
      <4>1. ReadLines(p) \subseteq Lines BY ReadableBegun
      <4> QED BY <1>2, <3>1, <4>1 DEF MarksStay
    <3>4. ASSUME Quarantine(t) = NextLine(p) PROVE Safe(t)'
      <4>1. row' = Quarantined(t) BY <3>4, Ingests, LinesDiffer
      <4>2. ~row'[t].clean BY <3>1, <4>1, QuarantinedTyped
      <4> QED BY <3>2, <4>2 DEF Safe
    <3> QED BY <3>2, <3>3, <3>4
  <2>2. CASE Trial(t) = NextLine(p)
    <3>1. row' = [row EXCEPT ![t] = ReplayedRow(proc[p], t)] BY <2>2, Ingests, LinesDiffer
    <3>2. row'[t].in BY <1>0, <3>1 DEF ReplayedRow, Recorded
    <3>3. Quarantine(t) \notin ReadLines(p) \cup {NextLine(p)}
      <4>1. Quarantine(t) # NextLine(p) BY <2>2, LinesDiffer
      <4>2. ReadLines(p) \subseteq Lines BY ReadableBegun
      <4> QED BY <2>2, <4>1, <4>2, MarksFollow
    <3> QED BY <3>2, <3>3
  <2> QED BY <2>1, <2>2
<1> QED BY <1>4, <1>5

LEMMA ReplayKeepsIndex ==
  ASSUME TypeOK, JournalInv, RowsInv, IndexInv, NEW p \in Processes, Replay(p)
  PROVE  IndexInv'
<1>1. /\ proc'[p].step = "replay" /\ \A q \in Processes \ {p} : proc'[q] = proc[q]
  BY Replayed
<1>2. /\ mounted' = mounted /\ journal' = journal /\ UNCHANGED <<owed, marked, doubtful>>
      /\ proc[p].step = "replay" /\ (mounted \/ proc[p].pos > 0)
  BY DEF Replay, file, history
<1>3. Rebuilding' = Rebuilding /\ p \in Rebuilding BY <1>1, <1>2 DEF Rebuilding, RebuildSteps
<1>4. CASE doubtful BY <1>2, <1>4 DEF IndexInv
<1>5. CASE Whole /\ (mounted \/ Rebuilding = {} \/ Barren)
  <2>1. mounted
    <3>1. Barren => proc[p].pos = 0 BY <1>3 DEF Barren
    <3> QED BY <1>2, <1>3, <1>5, <3>1
  <2>2. DebtsMet BY <1>2 DEF DebtsMet, Readable, Lines
  <2>3. \A q \in Rebuilding' : Caught(q)' BY <1>3, <1>5, ReplayKeepsCaught DEF Whole, Rebuilding
  <2>4. Whole' BY <1>5, <2>2, <2>3, ReplayKeepsMarks, WholeStays
  <2> QED BY <1>2, <2>1, <2>4 DEF IndexInv
<1>6. CASE mounted /\ Dropping
  <2>1. Dropping' BY <1>1, <1>2, <1>6 DEF Dropping
  <2> QED BY <1>2, <1>6, <2>1 DEF IndexInv
<1>7. CASE mounted /\ Replaying
  <2>1. PICK q \in Processes : proc[q].step = "replay" /\ Caught(q) BY <1>7 DEF Replaying
  <2>2. proc'[q].step = "replay" /\ Caught(q)' BY <1>1, <2>1, ReplayKeepsCaught
  <2>3. Replaying' BY <2>2 DEF Replaying
  <2> QED BY <1>2, <1>7, <2>3 DEF IndexInv
<1> QED BY <1>3, <1>4, <1>5, <1>6, <1>7 DEF IndexInv

\* A replay at the end of the file has read every line.
LEMMA EndKeepsIndex ==
  ASSUME TypeOK, JournalInv, RowsInv, IndexInv, NEW p \in Processes, ReachEnd(p)
  PROVE  IndexInv'
<1>1. /\ proc'[p].step = "eof" /\ proc'[p].pos = proc[p].pos /\ proc[p].step = "replay"
      /\ \A q \in Processes \ {p} : proc'[q] = proc[q]
  BY Went DEF ReachEnd
<1>2. /\ mounted' = mounted /\ journal' = journal /\ UNCHANGED <<row, owed, marked, doubtful>>
      /\ proc[p].pos = Len(journal) \/ ~mounted
  BY DEF ReachEnd, file, index, history
<1>3. Rebuilding' = Rebuilding /\ p \in Rebuilding BY <1>1 DEF Rebuilding, RebuildSteps
<1>4. CASE doubtful' BY <1>4 DEF IndexInv
<1>5. CASE ~mounted /\ ~doubtful'
  <2>1. Whole /\ Barren BY <1>2, <1>3, <1>5, UnmountedBarren
  <2>2. \A q \in Rebuilding' : proc'[q].pos = 0 BY <1>1, <1>3, <2>1 DEF Barren, Rebuilding
  <2>3. \A u \in Ids : ~row'[u].in BY <1>2, <2>1 DEF Barren, Held
  <2>4. Whole' /\ Barren' BY <1>2, <2>1, <2>2, <2>3, BarrenStays
  <2> QED BY <2>4 DEF IndexInv
<1>6. CASE mounted /\ ~doubtful'
  <2>0. proc[p].pos = Len(journal) /\ DOMAIN journal = 1..Len(journal) BY <1>2, <1>6, LenProperties DEF TypeOK
  <2>1. Grows /\ HeldStays /\ DebtsMet BY <1>2 DEF Grows, HeldStays, DebtsMet, Readable, Lines
  <2>2. MarksStay
    <3> SUFFICES ASSUME NEW u \in Ids, Safe(u) PROVE Safe(u)' BY DEF MarksStay
    <3>1. ASSUME MarkAhead(u) PROVE MarkAhead(u)'
      <4>1. PICK q \in Processes, i \in DOMAIN journal :
              proc[q].step = "replay" /\ i > proc[q].pos /\ journal[i] = Quarantine(u)
        BY <3>1 DEF MarkAhead
      <4>2. q # p BY <2>0, <4>1
      <4>3. Quarantine(u)' = Quarantine(u) BY DEF Quarantine
      <4> QED BY <1>1, <1>2, <4>1, <4>2, <4>3 DEF MarkAhead
    <3> QED BY <1>2, <3>1 DEF Safe
  <2>3. ASSUME NEW q \in Processes, Caught(q) PROVE Caught(q)'
    BY <1>1, <2>1, <2>2, <2>3, CaughtStays
  <2>4. ASSUME Caught(p) PROVE Whole
    <3>1. ReadLines(p) = Lines BY <2>0 DEF ReadLines, Lines
    <3>2. ReadTrials(p) = Readable BY <3>1 DEF ReadTrials, Readable
    <3>3. \A t \in Readable : row[t].in /\ (Quarantine(t) \in Lines => Safe(t)) BY <2>4, <3>1, <3>2 DEF Caught
    <3>4. \A q \in Rebuilding : Caught(q)
      <4>1. \A q \in Processes : ReadTrials(q) \subseteq Readable /\ ReadLines(q) \subseteq Lines BY ReadableBegun
      <4> QED BY <3>3, <4>1 DEF Caught, Rebuilding
    <3> QED BY <3>3, <3>4 DEF Whole, RowsInv
  <2>5. ASSUME Whole PROVE IndexInv'
    <3>1. \A q \in Rebuilding' : Caught(q)' BY <1>3, <2>3, <2>5 DEF Whole, Rebuilding
    <3>2. Whole' BY <2>1, <2>2, <2>5, <3>1, WholeStays
    <3> QED BY <1>2, <1>6, <3>2 DEF IndexInv
  <2>6. ASSUME Dropping PROVE IndexInv'
    <3>1. Dropping' BY <1>1, <2>6 DEF Dropping
    <3> QED BY <1>2, <1>6, <3>1 DEF IndexInv
  <2>7. ASSUME Replaying PROVE IndexInv'
    <3>1. PICK q \in Processes : proc[q].step = "replay" /\ Caught(q) BY <2>7 DEF Replaying
    <3>2. CASE q = p BY <2>4, <2>5, <3>1, <3>2
    <3>3. CASE q # p
      <4>1. Replaying' BY <1>1, <2>3, <3>1, <3>3 DEF Replaying
      <4> QED BY <1>2, <1>6, <4>1 DEF IndexInv
    <3> QED BY <3>2, <3>3
  <2> QED BY <1>2, <1>3, <1>6, <2>5, <2>6, <2>7 DEF IndexInv
<1> QED BY <1>4, <1>5, <1>6

\* A process that leaves a rebuild it had stopped replaying for changes no row.
LEMMA LeaveKeepsIndex ==
  ASSUME TypeOK, JournalInv, RowsInv, IndexInv, NEW p \in Processes,
         proc[p].step = "eof", proc'[p].step \in {"rest", "apply"},
         \A q \in Processes \ {p} : proc'[q] = proc[q],
         UNCHANGED <<journal, mounted, row, doubtful>>,
         owed \subseteq owed', owed' \subseteq owed \cup ReadTrials(p),
         marked' \subseteq marked \cup {t \in ReadTrials(p) : Quarantine(t) \in ReadLines(p)}
  PROVE  IndexInv'
<1>1. p \in Rebuilding /\ Rebuilding' = Rebuilding \ {p} BY DEF Rebuilding, RebuildSteps
<1>2. Grows /\ HeldStays BY DEF Grows, HeldStays
<1>3. MarksStay
  <2>1. \A q \in Processes : proc[q].step = "replay" => Same(q) BY DEF Same
  <2> QED BY <1>2, <2>1, SafeStays DEF MarksStay
<1>4. ASSUME NEW q \in Processes \ {p}, Caught(q) PROVE Caught(q)'
  BY <1>2, <1>3, <1>4, CaughtStays
<1>5. CASE doubtful BY <1>5 DEF IndexInv
<1>6. CASE Whole /\ (mounted \/ Barren)
  <2>1. DebtsMet
    <3>1. Readable' = Readable BY DEF Readable, Lines
    <3>2. Caught(p) /\ ReadTrials(p) \subseteq Ids BY <1>1, <1>6 DEF Whole, ReadTrials
    <3>3. ReadLines(p) \subseteq Lines BY ReadableBegun
    <3>4. \A t \in ReadTrials(p) : row'[t].in /\ (Quarantine(t) \in ReadLines(p) => Safe(t)')
      BY <1>2, <1>3, <3>2, <3>3 DEF Caught, HeldStays, MarksStay
    <3> QED BY <3>1, <3>4 DEF DebtsMet
  <2>2. \A q \in Rebuilding' : Caught(q)' BY <1>1, <1>4, <1>6 DEF Whole, Rebuilding
  <2>3. Whole' BY <1>2, <1>3, <1>6, <2>1, <2>2, WholeStays
  <2>4. Barren => Barren' BY <1>1 DEF Barren, Held, Rebuilding
  <2> QED BY <1>6, <2>3, <2>4 DEF IndexInv
<1>7. CASE mounted /\ Dropping
  <2>1. Dropping' BY <1>7 DEF Dropping
  <2> QED BY <1>7, <2>1 DEF IndexInv
<1>8. CASE mounted /\ Replaying
  <2>1. PICK q \in Processes \ {p} : proc[q].step = "replay" /\ Caught(q) BY <1>8 DEF Replaying
  <2>2. Replaying' BY <1>4, <2>1 DEF Replaying
  <2> QED BY <1>8, <2>2 DEF IndexInv
<1> QED BY <1>1, <1>5, <1>6, <1>7, <1>8 DEF IndexInv

LEMMA FinishKeepsIndex ==
  ASSUME TypeOK, JournalInv, RowsInv, IndexInv, NEW p \in Processes, Finish(p)
  PROVE  IndexInv'
<1>1. /\ proc[p].step = "eof" /\ UNCHANGED <<journal, mounted, row, doubtful>>
      /\ owed' = owed \cup ReadTrials(p)
      /\ marked' = marked \cup {t \in ReadTrials(p) : Quarantine(t) \in ReadLines(p)}
  BY DEF Finish, file
<1> QED BY <1>1, Finished, LeaveKeepsIndex

LEMMA AbortKeepsIndex ==
  ASSUME TypeOK, JournalInv, RowsInv, IndexInv, TablesInv, NEW p \in Processes, Abort(p)
  PROVE  IndexInv'
<1>1. /\ UNCHANGED <<journal, mounted, row, owed, marked, doubtful>>
      /\ proc'[p].step = "rest" /\ \A q \in Processes \ {p} : proc'[q] = proc[q]
      /\ proc[p].step \in {"replay", "eof"}
  BY Rested DEF Abort, file, index, history
<1>2. CASE proc[p].step = "eof" BY <1>1, <1>2, LeaveKeepsIndex
<1>3. CASE doubtful' BY <1>3 DEF IndexInv
<1>4. CASE proc[p].step = "replay" /\ ~doubtful'
  <2>1. p \in Rebuilding /\ Rebuilding' = Rebuilding \ {p} BY <1>1, <1>4 DEF Rebuilding, RebuildSteps
  <2>2. CASE ~mounted
    <3>1. Whole /\ Barren BY <1>1, <1>4, <2>1, <2>2, UnmountedBarren
    <3>2. \A q \in Rebuilding' : proc'[q].pos = 0 BY <1>1, <2>1, <3>1 DEF Barren, Rebuilding
    <3>3. \A u \in Ids : ~row'[u].in BY <1>1, <3>1 DEF Barren, Held
    <3>4. Whole' /\ Barren' BY <1>1, <3>1, <3>2, <3>3, BarrenStays
    <3> QED BY <3>4 DEF IndexInv
  <2>3. CASE mounted
    <3>1. "trials" \notin tables BY <1>4, <2>3 DEF Abort
    <3>2. PICK q \in Processes : proc[q].step = "dropped" BY <1>1, <1>4, <2>1, <3>1 DEF TablesInv, Dropped
    <3>3. Dropping' BY <1>1, <1>4, <3>2 DEF Dropping
    <3> QED BY <1>1, <2>3, <3>3 DEF IndexInv
  <2> QED BY <2>2, <2>3
<1> QED BY <1>1, <1>2, <1>3, <1>4

LEMMA KillKeepsIndex ==
  ASSUME TypeOK, JobsInv, JournalInv, Known, RowsInv, IndexInv, NEW p \in Processes, Kill(p), [Next]_vars
  PROVE  IndexInv'
<1>1. /\ UNCHANGED <<mounted, row, sentinel, owed, marked>>
      /\ doubtful' = (doubtful \/ (p \in Rebuilding /\ (~sentinel \/ Rebuilding # {p})))
      /\ proc'[p].step = "rest" /\ \A q \in Processes \ {p} : proc'[q] = proc[q]
  BY Rested DEF Kill, file, index
<1>2. CASE doubtful' BY <1>2 DEF IndexInv
<1>3. CASE ~doubtful' /\ p \in Rebuilding
  <2>1. sentinel' /\ Rebuilding = {p} BY <1>1, <1>3
  <2>2. Rebuilding' = {} BY <1>1, <2>1 DEF Rebuilding, RebuildSteps
  <2> QED BY <2>1, <2>2 DEF IndexInv
<1>4. CASE ~doubtful' /\ p \notin Rebuilding
  <2>1. \A q \in Processes : q \in Rebuilding \/ q \in Rebuilding' => Same(q)
    BY <1>1, <1>4 DEF Rebuilding, RebuildSteps, Same
  <2> QED BY <1>1, <1>4, <2>1, Quiet
<1> QED BY <1>2, <1>3, <1>4

LEMMA IndexKept ==
  TypeOK /\ JobsInv /\ JournalInv /\ Known /\ RowsInv /\ IndexInv /\ TablesInv /\ [Next]_vars => IndexInv'
<1> SUFFICES ASSUME TypeOK, JobsInv, JournalInv, Known, RowsInv, IndexInv, TablesInv, [Next]_vars
    PROVE IndexInv'
  OBVIOUS
<1>1. \A p \in Processes : Write(p) => IndexInv' BY WriteKeepsIndex
<1>2. \A p \in Processes : Rebuild(p) => IndexInv'
  BY BeginKeepsIndex, DropKeepsIndex, CreateKeepsIndex, ReplayKeepsIndex, EndKeepsIndex,
     FinishKeepsIndex, AbortKeepsIndex
  DEF Rebuild
<1>3. \A p \in Processes : Kill(p) => IndexInv' BY KillKeepsIndex
<1>4. CASE Look \/ TearLine \/ LoseJournal \/ FindJournal \/ UNCHANGED vars
  <2>1. UNCHANGED <<proc, row, sentinel, owed, marked>>
    BY <1>4 DEF Look, TearLine, LoseJournal, FindJournal, vars, index, history
  <2>5. doubtful => doubtful'
    <3>1. LoseJournal => (doubtful => doubtful') BY DEF LoseJournal
    <3>2. Look \/ TearLine \/ FindJournal \/ UNCHANGED vars => doubtful' = doubtful
      BY DEF Look, TearLine, FindJournal, vars, history
    <3> QED BY <1>4, <3>1, <3>2
  <2>2. \A q \in Processes : Same(q) BY <2>1 DEF Same
  <2>3. doubtful' \/ mounted' \/ ~mounted \/ Rebuilding = {}
    BY <1>4 DEF Look, TearLine, LoseJournal, FindJournal, vars, file
  <2>4. doubtful' => IndexInv' BY DEF IndexInv
  <2> QED BY <2>1, <2>2, <2>3, <2>4, <2>5, Quiet
<1> QED BY <1>1, <1>2, <1>3, <1>4 DEF Next

LEMMA TablesKept ==
  TypeOK /\ JobsInv /\ TablesInv /\ [Next]_vars => TablesInv'
<1> SUFFICES ASSUME TypeOK, JobsInv, TablesInv, [Next]_vars PROVE TablesInv' OBVIOUS
<1> USE DEF file, index, history
<1>c. "trials" \in tables' => TablesInv' BY DEF TablesInv
<1>d. doubtful' => TablesInv' BY DEF TablesInv
<1>e. Rebuilding' = {} => TablesInv' BY DEF TablesInv
<1>s. ASSUME tables' = tables, doubtful => doubtful', Rebuilding' # {} => Rebuilding # {},
             \A q \in Processes : Dropped(q) => proc'[q].step = "dropped"
      PROVE  TablesInv'
  BY <1>s DEF TablesInv, Dropped
<1>1. ASSUME NEW p \in Processes, Write(p) PROVE TablesInv'
  <2>1. Open(p) => TablesInv' BY <1>c DEF Open
  <2>2. tables' = tables \/ Open(p)
    BY <1>1 DEF Write, JournalTrial, JournalStart, JournalRound, Select, JournalQuarantine, Record, MarkContaminated, GiveUp
  <2>3. doubtful => doubtful'
    <3>1. Record(p) => (doubtful => doubtful') BY DEF Record
    <3>2. Record(p) \/ doubtful' = doubtful
      BY <1>1 DEF Write, JournalTrial, JournalStart, JournalRound, Select, JournalQuarantine, Open, MarkContaminated, GiveUp
    <3> QED BY <3>1, <3>2
  <2>4. Rebuilding' \subseteq Rebuilding /\ \A q \in Processes : Dropped(q) => proc'[q].step = "dropped"
    BY <1>1, WritersApart DEF Rebuilding, Dropped, RebuildSteps
  <2> QED BY <1>s, <2>1, <2>2, <2>3, <2>4
<1>2. ASSUME NEW p \in Processes, Rebuild(p) PROVE TablesInv'
  <2>1. BeginRebuild(p) \/ CreateFlagged(p) => TablesInv' BY <1>c DEF BeginRebuild, CreateFlagged
  <2>2. ASSUME DropTrials(p) PROVE TablesInv'
    <3>1. proc'[p].step = "dropped" BY <2>2, Went DEF DropTrials
    <3> QED BY <3>1 DEF TablesInv, Dropped
  <2>3. ASSUME Replay(p) \/ ReachEnd(p) PROVE TablesInv'
    <3>1. UNCHANGED <<tables, doubtful>> /\ proc[p].step = "replay" BY <2>3 DEF Replay, ReachEnd
    <3>2. \A q \in Processes \ {p} : proc'[q] = proc[q] BY <2>3, Replayed, Went DEF ReachEnd
    <3>3. Rebuilding # {} BY <3>1 DEF Rebuilding, RebuildSteps
    <3> QED BY <1>s, <3>1, <3>2, <3>3 DEF Dropped
  <2>4. ASSUME Finish(p) \/ Abort(p) PROVE TablesInv'
    <3>1. UNCHANGED <<tables, doubtful>> /\ proc[p].step \in {"replay", "eof"} BY <2>4 DEF Finish, Abort
    <3>2. \A q \in Processes \ {p} : proc'[q] = proc[q] BY <2>4, Finished, Rested DEF Abort
    <3>3. Rebuilding # {} BY <3>1 DEF Rebuilding, RebuildSteps
    <3> QED BY <1>s, <3>1, <3>2, <3>3 DEF Dropped
  <2> QED BY <1>2, <2>1, <2>2, <2>3, <2>4 DEF Rebuild
<1>3. ASSUME NEW p \in Processes, Kill(p) PROVE TablesInv'
  <2>1. tables' = tables /\ proc'[p].step = "rest" /\ \A q \in Processes \ {p} : proc'[q] = proc[q]
    BY <1>3, Rested DEF Kill
  <2>2. doubtful' = (doubtful \/ (p \in Rebuilding /\ (~sentinel \/ Rebuilding # {p}))) BY <1>3 DEF Kill
  <2>3. CASE p \in Rebuilding /\ Rebuilding # {p} BY <1>d, <2>2, <2>3
  <2>4. CASE Rebuilding = {p}
    <3>1. Rebuilding' = {} BY <2>1, <2>4 DEF Rebuilding, RebuildSteps
    <3> QED BY <1>e, <3>1
  <2>5. CASE p \notin Rebuilding
    <3>1. Rebuilding' \subseteq Rebuilding /\ ~Dropped(p)
      BY <2>1, <2>5 DEF Rebuilding, Dropped, RebuildSteps
    <3>2. \A q \in Processes : Dropped(q) => proc'[q].step = "dropped" BY <2>1, <3>1 DEF Dropped
    <3>3. doubtful => doubtful' BY <2>2
    <3> QED BY <1>s, <2>1, <3>1, <3>2, <3>3
  <2> QED BY <2>3, <2>4, <2>5
<1>4. Look => TablesInv' BY <1>c DEF Look
<1>5. CASE TearLine \/ LoseJournal \/ FindJournal \/ UNCHANGED vars
  <2>1. tables' = tables /\ proc' = proc BY <1>5 DEF TearLine, LoseJournal, FindJournal, vars
  <2>2. doubtful => doubtful'
    <3>1. LoseJournal => (doubtful => doubtful') BY DEF LoseJournal
    <3>2. TearLine \/ FindJournal \/ UNCHANGED vars => doubtful' = doubtful
      BY DEF TearLine, FindJournal, vars
    <3> QED BY <1>5, <3>1, <3>2
  <2> QED BY <1>s, <2>1, <2>2 DEF Rebuilding, Dropped
<1> QED BY <1>1, <1>2, <1>3, <1>4, <1>5 DEF Next

-----------------------------------------------------------------------------
(* The theorems *)

LEMMA InitIInv == Init => IInv
<1> SUFFICES ASSUME Init PROVE IInv OBVIOUS
<1>0. TypeOK BY InitTypeOK
<1>1. PICK old \in {{}} \cup {{t} : t \in Singles} :
        /\ journal \in {<<Trial(t)>> : t \in old} \cup (IF old = {} THEN {<<>>} ELSE {})
        /\ row = [t \in Ids |-> IF t \in old THEN Recorded(1) ELSE Absent]
        /\ begun = old /\ owed = old
  BY DEF Init
<1>16. nameless = {} BY DEF Init
<1>2. /\ proc = [p \in Processes |-> AtRest] /\ marked = {} /\ doubtful = FALSE /\ replayed = FALSE
      /\ tables = {"meta", "trials"}
  BY DEF Init
<1>3. \A p \in Processes : /\ proc[p].job = NoJob /\ proc[p].step = "rest"
                           /\ proc[p].pos = 0 /\ proc[p].last = 0
  BY <1>2 DEF AtRest
<1>4. Rebuilding = {} BY <1>3 DEF Rebuilding, RebuildSteps
<1>5. old \subseteq Singles /\ old \cap Rounds = {} /\ old \subseteq Ids
  BY <1>1, TrialAssumption DEF TrialAssumption, Ids
<1>6. JobsInv BY <1>3 DEF JobsInv
<1>7. /\ DOMAIN journal \subseteq {1}
      /\ \A i \in DOMAIN journal : \E t \in old : journal[i] = Trial(t)
      /\ \A t \in old : Trial(t) \in Lines
  <2>1. CASE old = {}
    <3>1. journal = <<>> BY <1>1, <2>1
    <3> QED BY <2>1, <3>1
  <2>2. CASE old # {}
    <3>1. PICK t \in old : journal = <<Trial(t)>> /\ old = {t} BY <1>1, <2>2
    <3>2. DOMAIN journal = {1} /\ journal[1] = Trial(t) BY <3>1
    <3> QED BY <3>1, <3>2 DEF Lines
  <2> QED BY <2>1, <2>2
<1>8. JournalInv
  <2>1. \A i \in DOMAIN journal : journal[i].kind \in {"trial", "mark"} => journal[i].id \in begun
    BY <1>1, <1>5, <1>7, LinesDiffer
  <2>4. Start \notin Lines BY <1>5, <1>7, LinesDiffer DEF Lines
  <2>2. \A i, j \in DOMAIN journal : ~(i < j) BY <1>7
  <2>3. Rounds \cap begun = {} BY <1>1, <1>5
  <2> QED BY <2>1, <2>2, <2>3, <2>4 DEF JournalInv
<1>17. NamesInv BY <1>16 DEF NamesInv
<1>9. Held = old BY <1>1, <1>5 DEF Held, Recorded, Absent
<1>10. Known BY <1>1, <1>3, <1>9 DEF Known
<1>11. TotalsInv
  <2>1. Cumulative[0] = 0 BY TrialAssumption DEF TrialAssumption
  <2>2. \A p \in Processes : ReadRounds(p) = {} BY <1>3 DEF ReadRounds, ReadTrials, ReadLines
  <2> QED BY <1>3, <2>1, <2>2 DEF TotalsInv
<1>12. RowsInv
  <2>1. ASSUME NEW t \in old PROVE row[t].counts = 1 /\ RowOfTrial(t).counts = 1
    BY <1>1, <1>5, <2>1 DEF Recorded, RowOfTrial
  <2> QED BY <1>2, <1>9, <2>1 DEF RowsInv, Held
<1>13. Whole
  <2>1. \A t \in owed \cap Readable : row[t].in BY <1>1, <1>9 DEF Held
  <2> QED BY <1>2, <1>4, <2>1 DEF Whole
<1>14. IndexInv BY <1>4, <1>13 DEF IndexInv
<1>15. TablesInv /\ ReplayInv BY <1>2 DEF TablesInv, ReplayInv
<1> QED BY <1>0, <1>6, <1>8, <1>10, <1>11, <1>12, <1>14, <1>15, <1>17 DEF IInv

LEMMA IInvInductive == IInv /\ [Next]_vars => IInv'
BY TypeKept, JobsKept, JournalKept, KnownKept, TotalsKept, RowsKept, NamesKept, IndexKept, TablesKept, ReplayKept
DEF IInv

THEOREM Invariance == Spec => []IInv
BY InitIInv, IInvInductive, PTL DEF Spec

\* Whatever is torn, lost or killed, the journal, the index and the processes keep
\* to their types.
THEOREM TypeCorrect == Spec => []TypeOK
<1>1. IInv => TypeOK BY DEF IInv
<1> QED BY <1>1, Invariance, PTL

LEMMA InOrderWhole == IInv /\ InOrder => Whole
BY DEF IInv, InOrder, IndexInv, Dropping, Replaying, Rebuilding, RebuildSteps

\* Unless a race nothing in the code orders has been run, a trial that can be read
\* and was once known is a row of the index, counts all it evaluated, and counts in
\* its family, unless it is a round of a session whose start cannot be read.
THEOREM NothingUncounted == Spec => []NoUndercount
<1>1. ASSUME IInv PROVE NoUndercount
  <2> SUFFICES ASSUME InOrder, NEW t \in owed \cap Readable
      PROVE /\ row[t].in /\ row[t].counts >= RowOfTrial(t).counts
            /\ t \in nameless => t \in Rounds /\ Start \notin Lines
    BY DEF NoUndercount
  <2>1. row[t].in BY <1>1, InOrderWhole DEF Whole
  <2> QED BY <1>1, <2>1 DEF IInv, RowsInv, NamesInv, Readable
<1> QED BY <1>1, Invariance, PTL

\* Under the same proviso a quarantine that reached a row outlives every rebuild.
THEOREM QuarantineLasts == Spec => []QuarantineSticks
<1>1. ASSUME IInv PROVE QuarantineSticks
  <2> SUFFICES ASSUME InOrder, NEW t \in marked \cap Readable PROVE row[t].in /\ ~row[t].clean
    BY DEF QuarantineSticks
  <2>1. Safe(t) BY <1>1, InOrderWhole DEF Whole
  <2>2. ~MarkAhead(t) BY DEF MarkAhead, InOrder, Rebuilding, RebuildSteps
  <2> QED BY <2>1, <2>2 DEF Safe
<1> QED BY <1>1, Invariance, PTL

\* However the journal was torn, the rounds an undisturbed replay has read count
\* as much as the last running total it read.
THEOREM ReplaysCountAll == Spec => []ReplayCarriesCounts
<1>1. ASSUME IInv PROVE ReplayCarriesCounts
  <2> SUFFICES ASSUME NEW p \in Processes, proc[p].step = "eof", replayed
      PROVE Counted = Cumulative[Max({0} \cup ReadRounds(p))]
    BY DEF ReplayCarriesCounts, Counted, ReadRounds
  <2>1. p \in Rebuilding BY DEF Rebuilding, RebuildSteps
  <2>2. Counted = proc[p].last BY <1>1, <2>1 DEF IInv, ReplayInv
  <2>3. PICK m \in {0} \cup ReadRounds(p) : proc[p].last = Cumulative[m] /\ \A r \in ReadRounds(p) : r <= m
    BY <1>1 DEF IInv, TotalsInv
  <2>4. Max({0} \cup ReadRounds(p)) = m
    <3> DEFINE S == {0} \cup ReadRounds(p)
    <3>1. S \subseteq Nat /\ m \in S /\ \A r \in S : m >= r BY <2>3 DEF ReadRounds, Rounds
    <3> HIDE DEF S
    <3>2. ASSUME NEW x \in S, \A y \in S : x >= y PROVE x = m
      <4>1. x \in Nat /\ m \in Nat BY <3>1
      <4>2. x >= m BY <3>1, <3>2
      <4>3. m >= x BY <3>1
      <4> QED BY <4>1, <4>2, <4>3
    <3> QED BY <3>1, <3>2 DEF Max, S
  <2> QED BY <2>2, <2>3, <2>4
<1> QED BY <1>1, Invariance, PTL
=============================================================================
