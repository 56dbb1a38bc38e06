----------------------------- MODULE TrialStore -----------------------------
(***************************************************************************)
(* store/trials.py over the research journal of services/audit.py: one     *)
(* append-only file, and an SQLite index that any process may find stale   *)
(* or half rebuilt when it opens it, drops and replays.  Every writer      *)
(* appends first and indexes afterwards; a quarantine is an appended fact, *)
(* applied to the rows afterwards.  A process may die between any two      *)
(* statements; each statement that commits is one step.                    *)
(***************************************************************************)
EXTENDS Naturals, Sequences, FiniteSets, FiniteSetsExt, Functions

CONSTANTS
  Processes,   \* commands and sessions that write, quarantine or open
  Singles,     \* trials of commands, each one evaluated configuration
  MaxRounds,   \* rounds of the one research session
  Cumulative,  \* configurations the session has evaluated after each round
  MaxFaults,   \* appends cut off in mid-line, journals lost, processes killed
  MaxQuarantines

Rounds == 1..MaxRounds
Ids    == Singles \cup Rounds

ASSUME TrialAssumption ==
  /\ IsFiniteSet(Processes) /\ IsFiniteSet(Singles) /\ Singles \cap Rounds = {}
  /\ MaxRounds \in Nat /\ MaxFaults \in Nat /\ MaxQuarantines \in Nat
  /\ Cumulative \in [0..MaxRounds -> Nat] /\ Cumulative[0] = 0
  /\ \A r \in Rounds : Cumulative[r] > Cumulative[r - 1]

VARIABLES
  journal,   \* the lines of the file
  torn,      \* does the file end in the middle of a line?
  mounted,   \* can the journal be opened?
  row,       \* the trials table: each id's row
  nameless,  \* rows without a strategy: in no family's count
  tables,    \* which of "meta" and "trials" exist
  sentinel,  \* meta: a rebuild is under way, or was cut off
  stale,     \* meta: stamped by an older schema
  proc,      \* each process: its step, its trial, its place in the journal
  started,   \* has the session written how it starts?
  begun,     \* appends of trials the writers have started
  owed,      \* trials the index has held, or has read from the journal
  marked,    \* trials it has held, or has replayed, as quarantined
  doubtful,  \* has the index been through a race nothing in the code orders?
  replayed,  \* is every row of the running replay's own making?
  faults     \* how often something has failed

file    == <<journal, torn, mounted>>
index   == <<row, nameless, tables, sentinel, stale>>
history == <<started, begun, owed, marked, doubtful, replayed, faults>>
vars    == <<file, index, proc, history>>

NoId   == 0
Line   == [kind : {"start", "trial", "mark", "torn"}, id : Ids \cup {NoId}]
NoJob  == [kind |-> "none", id |-> NoId]
Torn   == [kind |-> "torn", id |-> NoId]
Start  == [kind |-> "start", id |-> NoId]
Trial(t)      == [kind |-> "trial", id |-> t]
Quarantine(t) == [kind |-> "mark", id |-> t]

Absent == [in |-> FALSE, clean |-> TRUE, counts |-> 0]
AtRest == [step |-> "rest", job |-> NoJob, pos |-> 0, last |-> 0]

Recorded(counts) == [in |-> TRUE, clean |-> TRUE, counts |-> counts]

RowOf == {Absent} \cup [in : {TRUE}, clean : BOOLEAN, counts : Nat \ {0}]
RebuildSteps == {"meta", "dropped", "replay", "eof"}
Steps == {"rest", "chosen", "open", "apply"} \cup RebuildSteps

TypeOK ==
  /\ journal \in Seq(Line) /\ torn \in BOOLEAN /\ mounted \in BOOLEAN
  /\ row \in [Ids -> RowOf] /\ nameless \subseteq Ids /\ started \in BOOLEAN
  /\ tables \subseteq {"meta", "trials"} /\ sentinel \in BOOLEAN /\ stale \in BOOLEAN
  /\ proc \in [Processes -> [step : Steps, job : Line \cup {NoJob}, pos : 0..Len(journal), last : Nat]]
  /\ begun \subseteq Ids /\ owed \subseteq Ids /\ marked \subseteq Ids
  /\ doubtful \in BOOLEAN /\ replayed \in BOOLEAN /\ faults \in 0..MaxFaults

Lines    == {journal[i] : i \in DOMAIN journal}
Readable == {t \in Ids : Trial(t) \in Lines}
Held     == {t \in Ids : row[t].in}

Rebuilding == {p \in Processes : proc[p].step \in RebuildSteps}

\* An empty state directory, or one an older version has left a trial in.
Init ==
  /\ \E old \in {{}} \cup {{t} : t \in Singles} :
       /\ journal \in {<<Trial(t)>> : t \in old} \cup (IF old = {} THEN {<<>>} ELSE {})
       /\ row = [t \in Ids |-> IF t \in old THEN Recorded(1) ELSE Absent]
       /\ stale = (old # {})
       /\ begun = old /\ owed = old
  /\ torn = FALSE /\ mounted = TRUE /\ nameless = {} /\ started = FALSE
  /\ tables = {"meta", "trials"} /\ sentinel = FALSE
  /\ proc = [p \in Processes |-> AtRest]
  /\ marked = {} /\ doubtful = FALSE /\ replayed = FALSE /\ faults = 0

Go(p, step) == proc' = [proc EXCEPT ![p].step = step]
Fault       == faults < MaxFaults /\ faults' = faults + 1
Rest(p)     == proc' = [proc EXCEPT ![p] = AtRest]

-----------------------------------------------------------------------------
(* The journal *)

\* A record appended after a torn line is part of that line.
AppendLine(line) ==
  /\ mounted
  /\ journal' = IF torn THEN journal ELSE Append(journal, line)
  /\ torn' = FALSE
  /\ UNCHANGED mounted

\* journal_trial: append, and only then open the index.
JournalTrial(p, t) ==
  /\ proc[p].step = "rest" /\ t \notin begun
  /\ AppendLine(Trial(t))
  /\ begun' = begun \cup {t}
  /\ proc' = [proc EXCEPT ![p].step = "open", ![p].job = Trial(t)]
  /\ UNCHANGED <<index, started, owed, marked, doubtful, replayed, faults>>

\* The session writes its strategy and universe down once; its rounds do not.
JournalStart(p) ==
  /\ proc[p].step = "rest" /\ ~started
  /\ AppendLine(Start)
  /\ started' = TRUE
  /\ UNCHANGED <<index, proc, begun, owed, marked, doubtful, replayed, faults>>

\* The session's rounds, in order; its store has been open since it began.
JournalRound(p, r) ==
  /\ proc[p].step = "rest" /\ started /\ r \notin begun
  /\ r > 1 => r - 1 \in begun /\ \A q \in Processes : proc[q].job # Trial(r - 1)
  /\ AppendLine(Trial(r))
  /\ begun' = begun \cup {r}
  /\ proc' = [proc EXCEPT ![p].step = "apply", ![p].job = Trial(r)]
  /\ UNCHANGED <<index, started, owed, marked, doubtful, replayed, faults>>

\* maintenance.mark_contaminated: select rows not yet quarantined ...
Select(p, t) ==
  /\ proc[p].step = "rest" /\ "trials" \in tables
  /\ row[t].in /\ row[t].clean
  /\ Cardinality({i \in DOMAIN journal : journal[i].kind = "mark"}) < MaxQuarantines
  /\ proc' = [proc EXCEPT ![p].step = "chosen", ![p].job = Quarantine(t)]
  /\ UNCHANGED <<file, index, history>>

\* ... and append the event that names them.
JournalQuarantine(p) ==
  /\ proc[p].step = "chosen"
  /\ AppendLine(proc[p].job)
  /\ Go(p, "open")
  /\ UNCHANGED <<index, history>>

\* A process dies in the middle of an append.
TearLine ==
  /\ mounted /\ ~torn
  /\ Fault
  /\ journal' = Append(journal, Torn) /\ torn' = TRUE
  /\ UNCHANGED <<mounted, index, proc, started, begun, owed, marked, doubtful, replayed>>

\* The journal cannot be opened for a while.
LoseJournal ==
  /\ mounted /\ mounted' = FALSE
  /\ Fault
  /\ doubtful' = (doubtful \/ Rebuilding # {})
  /\ UNCHANGED <<journal, torn, index, proc, started, begun, owed, marked, replayed>>

FindJournal ==
  /\ ~mounted /\ mounted' = TRUE
  /\ UNCHANGED <<journal, torn, index, proc, history>>

-----------------------------------------------------------------------------
(* Opening the index, and writing to it *)

NeedsRebuild == sentinel \/ stale

\* Mutant of Refused: rows are no reason to keep an index.
NeverRefused == FALSE

\* A populated index is not dropped when its journal cannot be read.
Refused == ~mounted /\ Held # {}

\* _ensure_schema creates what is absent and stamps it, unless there is reason
\* to rebuild.
Open(p) ==
  /\ proc[p].step = "open"
  /\ NeedsRebuild => Refused
  /\ tables' = {"meta", "trials"}
  /\ Go(p, "apply")
  /\ UNCHANGED <<file, row, nameless, sentinel, stale, history>>

\* `trials status`, `trials query`: any command that opens the store.
Look ==
  /\ tables # {"meta", "trials"}
  /\ NeedsRebuild => Refused
  /\ tables' = {"meta", "trials"}
  /\ UNCHANGED <<file, row, nameless, sentinel, stale, proc, history>>

RowOfTrial(t) == Recorded(IF t \in Rounds THEN Cumulative[t] - Cumulative[t - 1] ELSE 1)

\* TrialStore.record: insert or replace.  Replacing what a replay has written
\* is harmless only if both wrote the same; a row that comes between a
\* rebuild's refusal check and its drop may be the only copy.
Record(p) ==
  LET t == proc[p].job.id IN
  /\ proc[p].step = "apply" /\ proc[p].job = Trial(t)
  /\ "trials" \in tables
  /\ row' = [row EXCEPT ![t] = RowOfTrial(t)] /\ nameless' = nameless \ {t}
  /\ owed' = owed \cup {t}
  /\ doubtful' = \/ doubtful
                  \/ (row[t].in /\ row[t] # RowOfTrial(t))
                  \/ (~mounted /\ Rebuilding # {})
  /\ replayed' = FALSE
  /\ Rest(p)
  /\ UNCHANGED <<file, tables, sentinel, stale, started, begun, marked, faults>>

\* Mutant of Quarantined: rows that are not there are marked too.
QuarantinedAnyhow(t) == [row EXCEPT ![t].clean = FALSE]

\* TrialStore.mark_contaminated: UPDATE reaches the rows there are.
Quarantined(t) == IF row[t].in THEN [row EXCEPT ![t].clean = FALSE] ELSE row

MarkContaminated(p) ==
  LET t == proc[p].job.id IN
  /\ proc[p].step = "apply" /\ proc[p].job = Quarantine(t)
  /\ "trials" \in tables
  /\ row' = Quarantined(t)
  /\ marked' = marked \cup (IF row[t].in /\ proc[p].job \in Lines THEN {t} ELSE {})
  /\ replayed' = FALSE
  /\ Rest(p)
  /\ UNCHANGED <<file, nameless, tables, sentinel, stale, started, begun, owed, doubtful, faults>>

\* No table to write to: the failure is logged.
GiveUp(p) ==
  /\ proc[p].step = "apply" /\ "trials" \notin tables
  /\ Rest(p)
  /\ UNCHANGED <<file, index, history>>

-----------------------------------------------------------------------------
(* TrialStore.rebuild: every DROP commits by itself, in the tables' order *)

\* From an open that found reason to, a command's or a writer's, or by `trials
\* rebuild`.  An index that a rebuild left empty is not refused: without its
\* journal it passes for whole.
BeginRebuild(p) ==
  /\ proc[p].step = "rest" \/ (proc[p].step = "open" /\ NeedsRebuild)
  /\ ~Refused
  /\ tables' = {"trials"} /\ sentinel' = FALSE /\ stale' = FALSE
  /\ Go(p, "meta")
  /\ replayed' = FALSE
  /\ doubtful' = (doubtful \/ (~mounted /\ sentinel))
  /\ UNCHANGED <<file, row, nameless, started, begun, owed, marked, faults>>

\* What a rebuild running alone makes of a journal it can read is in no doubt.
DropTrials(p) ==
  /\ proc[p].step = "meta"
  /\ row' = [t \in Ids |-> Absent] /\ nameless' = {} /\ tables' = tables \ {"trials"}
  /\ Go(p, "dropped")
  /\ doubtful' = (doubtful /\ (Rebuilding # {p} \/ ~mounted))
  /\ replayed' = (Rebuilding = {p})
  /\ UNCHANGED <<file, sentinel, stale, started, begun, owed, marked, faults>>

\* The tables again, and the sentinel that says the replay is not over.
CreateFlagged(p) ==
  /\ proc[p].step = "dropped"
  /\ tables' = {"meta", "trials"} /\ sentinel' = TRUE
  /\ proc' = [proc EXCEPT ![p].step = "replay"]
  /\ UNCHANGED <<file, row, nameless, stale, history>>

\* Mutant of RoundCounts: the round's own count, whatever was read before it.
OwnCount(last, r) == Cumulative[r] - Cumulative[r - 1]

\* A round's line carries a running total: what it adds is the difference to
\* the last one read.
RoundCounts(last, r) == Max({Cumulative[r] - last, 1})

ReplayedRow(at, t) ==
  Recorded(IF t \in Rounds THEN RoundCounts(at.last, t) ELSE 1)

\* Mutant of Ingested: replays no quarantine.
IngestedTrials(at, line) ==
  IF line.kind # "trial" THEN row ELSE [row EXCEPT ![line.id] = ReplayedRow(at, line.id)]

\* _ingest_journal_record.
Ingested(at, line) ==
  CASE line.kind = "trial" -> [row EXCEPT ![line.id] = ReplayedRow(at, line.id)]
    [] line.kind = "mark"  -> Quarantined(line.id)
    [] OTHER               -> row

\* The session's running total, as far as the journal has been read.
TotalAfter(last, line) ==
  IF line.kind = "trial" /\ line.id \in Rounds THEN Cumulative[line.id]
  ELSE IF line = Start THEN 0 ELSE last

AfterLine(at, line) == [at EXCEPT !.pos = @ + 1, !.last = TotalAfter(@, line)]

ReadLines(p) == {journal[i] : i \in 1..proc[p].pos}

\* Mutant of Unnamed: the line a session starts with is not looked at.
UnnamedAnyhow(p, line) ==
  IF line.kind = "trial" /\ line.id \in Rounds THEN nameless \cup {line.id} ELSE nameless

\* A round has its strategy from the line its session started with, if that line
\* has been read; a round without it is recorded, and belongs to no family.
Unnamed(p, line) ==
  IF line.kind # "trial" THEN nameless
  ELSE IF line.id \in Rounds /\ Start \notin ReadLines(p) THEN nameless \cup {line.id}
  ELSE nameless \ {line.id}

Replay(p) ==
  LET at == proc[p] IN
  /\ at.step = "replay" /\ at.pos < Len(journal)
  /\ mounted \/ at.pos > 0
  /\ LET line == journal[at.pos + 1] IN
     /\ line.kind \in {"trial", "mark"} => "trials" \in tables
     /\ row' = Ingested(at, line) /\ nameless' = Unnamed(p, line)
     /\ proc' = [proc EXCEPT ![p] = AfterLine(at, line)]
  /\ UNCHANGED <<file, tables, sentinel, stale, history>>

\* The end of the file, or no file.
ReachEnd(p) ==
  /\ proc[p].step = "replay"
  /\ proc[p].pos = Len(journal) \/ (proc[p].pos = 0 /\ ~mounted)
  /\ Go(p, "eof")
  /\ UNCHANGED <<file, index, history>>

ReadTrials(p) == {t \in Ids : Trial(t) \in ReadLines(p)}

Finish(p) ==
  /\ proc[p].step = "eof" /\ "meta" \in tables
  /\ sentinel' = FALSE /\ stale' = FALSE
  /\ proc' = [proc EXCEPT ![p] = IF @.job = NoJob THEN AtRest
                                 ELSE [AtRest EXCEPT !.step = "apply", !.job = proc[p].job]]
  /\ owed' = owed \cup ReadTrials(p)
  /\ marked' = marked \cup {t \in ReadTrials(p) : Quarantine(t) \in ReadLines(p)}
  /\ UNCHANGED <<file, row, nameless, tables, started, begun, doubtful, replayed, faults>>

\* Another rebuild has dropped the table under this one, or the journal cannot
\* be read after all: the exception leaves things as they are.
Abort(p) ==
  /\ \/ proc[p].step = "replay" /\ "trials" \notin tables
     \/ proc[p].step = "replay" /\ proc[p].pos = 0 /\ ~mounted
     \/ proc[p].step = "eof" /\ "meta" \notin tables
  /\ Rest(p)
  /\ UNCHANGED <<file, index, history>>

\* Killed, or its index write failed.  A rebuild that dies before its sentinel
\* is in place, or beside another that will clear it, leaves a short index
\* nothing tells from a whole one.
Kill(p) ==
  /\ proc[p].step # "rest"
  /\ Fault
  /\ Rest(p)
  /\ doubtful' = (doubtful \/ (p \in Rebuilding /\ (~sentinel \/ Rebuilding # {p})))
  /\ UNCHANGED <<file, index, started, begun, owed, marked, replayed>>

-----------------------------------------------------------------------------
Write(p) ==
  \/ \E t \in Singles : JournalTrial(p, t)
  \/ JournalStart(p) \/ \E r \in Rounds : JournalRound(p, r)
  \/ \E t \in Ids : Select(p, t)
  \/ JournalQuarantine(p) \/ Open(p)
  \/ Record(p) \/ MarkContaminated(p) \/ GiveUp(p)

Rebuild(p) ==
  \/ BeginRebuild(p) \/ DropTrials(p) \/ CreateFlagged(p)
  \/ Replay(p) \/ ReachEnd(p) \/ Finish(p) \/ Abort(p)

Next ==
  \/ \E p \in Processes : Write(p) \/ Rebuild(p) \/ Kill(p)
  \/ Look \/ TearLine \/ LoseJournal \/ FindJournal

Spec == Init /\ [][Next]_vars

-----------------------------------------------------------------------------
(* Properties *)

\* No rebuild is at work or was cut off, and no race has gone unordered.
InOrder == Rebuilding = {} /\ ~sentinel /\ ~doubtful

\* The undercount the store "must never allow unnoticed": a trial whose line can
\* be read and which the index has held, or a finished replay has read, is a row,
\* counts what it evaluated at the least, and is in its family's total - through
\* writers beside a rebuild, rebuilds beside each other, refused ones and an
\* upgrade.  A session's round is outside its family, and shown by `trials status`
\* as orphaned, only if the line its session started with cannot be read.
NoUndercount ==
  InOrder => \A t \in owed \cap Readable :
    /\ row[t].in /\ row[t].counts >= RowOfTrial(t).counts
    /\ t \in nameless => t \in Rounds /\ Start \notin Lines

\* A quarantine that reached a row, and whose event can be read, survives every
\* rebuild: the trial is never served or ranked again, and still counts.
QuarantineSticks ==
  InOrder => \A t \in marked \cap Readable : row[t].in /\ ~row[t].clean

\* A line that cannot be read takes a round's row with it but not its count: the
\* next round read carries it, so the rows of an undisturbed replay add up to the
\* last running total read.
ReplayCarriesCounts ==
  \A p \in Processes :
    proc[p].step = "eof" /\ replayed =>
      SumFunction([r \in Rounds |-> row[r].counts])
        = Cumulative[Max({0} \cup (ReadTrials(p) \cap Rounds))]
=============================================================================
