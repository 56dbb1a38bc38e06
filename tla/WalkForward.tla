---------------------------- MODULE WalkForward ----------------------------
(***************************************************************************)
(* optimization/walk_forward.py over optimizer.py and parallel.py: one     *)
(* search per fold, whose candidates run one after another or in a pool of *)
(* worker processes, then one search over everything but the holdout.  An  *)
(* operator may interrupt, a worker process may die.                       *)
(***************************************************************************)
EXTENDS FoldWindows, Sequences, FiniteSets, SequencesExt

CONSTANTS
  Windows,   \* what a caller may ask for
  Params,    \* candidates, numbered in the order of their searched values
  Score,     \* the objective each candidate reaches
  Draws,     \* what a grid, or a sampler that may repeat itself, proposes
  Unsound,   \* which candidates may be impossible to run
  Stored,    \* which candidates an earlier run may have left in the store
  Pool,      \* worker processes, when the search is parallel
  MaxFaults  \* interrupts, and workers that die

ASSUME WalkForwardAssumption ==
  /\ Windows \subseteq Window
  /\ Params \subseteq Nat /\ IsFiniteSet(Params) /\ Score \in [Params -> Int]
  /\ Draws \subseteq Seq(Params) \ {<<>>}
  /\ Unsound \subseteq SUBSET Params /\ Stored \subseteq SUBSET Params
  /\ Pool \in Nat \ {0, 1} /\ MaxFaults \in Nat

VARIABLES
  w,         \* the window asked for
  workers,   \* how many processes evaluate: one is the sequential path
  unsound,   \* candidates whose backtest raises
  stored,    \* candidates the trial store answers for
  phase,     \* "fold", "search", "done", "refused", "raised"
  fold,      \* the fold at hand; after the last one, the holdout's search
  draw,      \* the candidates of the search, in the order proposed
  pool,      \* where each request of the search is
  cut,       \* was the search interrupted?
  runs,      \* how often the search has run each candidate
  results,   \* the folds that had a winner
  faults

asked == <<w, workers, unsound, stored>>
vars  == <<asked, phase, fold, draw, pool, cut, runs, results, faults>>

Idle   == [waiting |-> {}, running |-> {}, finished |-> {}, collected |-> {}]
Result == [fold : Nat, best : Params, trials : Nat \ {0}]
FoldCount == Cardinality(FoldsOf(w))

TypeOK ==
  /\ w \in Windows /\ workers \in {1, Pool}
  /\ unsound \in Unsound /\ stored \in Stored
  /\ phase \in {"fold", "search", "done", "refused", "raised"}
  /\ fold \in 0..(FoldCount + 1) /\ draw \in Draws \cup {<<>>}
  /\ pool \in [{"waiting", "running", "finished", "collected"} -> SUBSET Params]
  /\ cut \in BOOLEAN /\ runs \in [Params -> Nat]
  /\ results \in Seq(Result)
  /\ faults \in 0..MaxFaults

Init ==
  /\ w \in Windows /\ workers \in {1, Pool}
  /\ unsound \in Unsound /\ stored \in Stored
  /\ phase = IF TooShort(w) \/ FoldsOf(w) = {} THEN "refused" ELSE "fold"
  /\ fold = 0 /\ draw = <<>> /\ pool = Idle /\ cut = FALSE
  /\ runs = [p \in Params |-> 0]
  /\ results = <<>> /\ faults = 0

-----------------------------------------------------------------------------
(* One search *)

Parallel == workers > 1
Answered(p) == p \in stored
Succeeds(p) == Answered(p) \/ p \notin unsound

\* Candidates the store does not answer for, each once: what goes to the pool.
Requests(d) == {p \in ToSet(d) : ~Answered(p)}

\* The items of a sequence at some positions, in order.
ItemsAt(s, positions) ==
  LET items[i \in 0..Len(s)] ==
        IF i = 0 THEN <<>>
        ELSE IF i \in positions THEN Append(items[i - 1], s[i]) ELSE items[i - 1]
  IN  items[Len(s)]

\* Every candidate in turn, repeats included, but for those that raise.
SequentialRows == ItemsAt(draw, {i \in DOMAIN draw : Succeeds(draw[i])})

\* What the store answered, then what the pool returned, each candidate once,
\* in the order submitted and not in that of completion.
PooledRows ==
  LET first == {i \in DOMAIN draw : \A j \in 1..(i - 1) : draw[j] # draw[i]}
  IN  ItemsAt(draw, {i \in DOMAIN draw : Answered(draw[i])})
        \o ItemsAt(draw, {i \in first : draw[i] \in pool["collected"] \ unsound})

Rows == IF Parallel THEN PooledRows ELSE SequentialRows

\* Mutant of Winner: ties fall to whichever row comes first.
FirstBest(rows) ==
  LET best == {i \in DOMAIN rows : \A j \in DOMAIN rows : Score[rows[i]] >= Score[rows[j]]}
  IN  rows[CHOOSE i \in best : \A j \in best : i <= j]

\* _build_result: the best score, and among equals the smallest parameters.
Winner(rows) ==
  CHOOSE p \in ToSet(rows) : \A q \in ToSet(rows) :
    Score[p] > Score[q] \/ (Score[p] = Score[q] /\ p <= q)

\* Every fold, and then the holdout's search if there is one and a fold won.
Searches == phase = "fold" /\ (fold < FoldCount \/ (fold = FoldCount /\ w.holdout > 0 /\ results # <<>>))

StartSearch ==
  /\ Searches
  /\ draw' \in Draws
  /\ phase' = "search"
  /\ cut' = FALSE /\ runs' = [p \in Params |-> 0]
  /\ pool' = [Idle EXCEPT !["waiting"] = IF Parallel THEN Requests(draw') ELSE {}]
  /\ UNCHANGED <<asked, fold, results, faults>>

Move(p, from, to) ==
  /\ phase = "search" /\ p \in pool[from]
  /\ pool' = [pool EXCEPT ![from] = @ \ {p}, ![to] = @ \cup {p}]
  /\ UNCHANGED <<asked, phase, fold, draw, cut, results>>

\* A free process takes a request; it returns its numbers or its error; the
\* parent takes results as they complete.
Take(p) ==
  /\ Cardinality(pool["running"]) < workers
  /\ Move(p, "waiting", "running")
  /\ runs' = [runs EXCEPT ![p] = @ + 1]
  /\ UNCHANGED faults
Return(p)  == Move(p, "running", "finished") /\ UNCHANGED <<runs, faults>>
Collect(p) == ~cut /\ Move(p, "finished", "collected") /\ UNCHANGED <<runs, faults>>

Fault == faults < MaxFaults /\ faults' = faults + 1

\* Ctrl-C: the pool drops what it has not handed out, one request of which may
\* be queued for the next free process, and waits for the rest, whose results
\* nobody takes.  The sequential search has nothing to keep.
Interrupt ==
  /\ phase = "search" /\ ~cut /\ Fault
  /\ IF Parallel
     THEN /\ cut' = TRUE
          /\ \E queued \in SUBSET pool["waiting"] :
               /\ Cardinality(queued) <= 1
               /\ pool' = [pool EXCEPT !["waiting"] = queued]
          /\ UNCHANGED phase
     ELSE phase' = "raised" /\ UNCHANGED <<cut, pool>>
  /\ UNCHANGED <<asked, fold, draw, runs, results>>

\* A worker process dies, its whole pool with it.
WorkerDies ==
  /\ phase = "search" /\ ~cut /\ pool["running"] # {} /\ Fault
  /\ phase' = "raised"
  /\ UNCHANGED <<asked, fold, draw, pool, cut, runs, results>>

\* Mutant of Over: an interrupted search waits for what it has dropped, too.
OverWhenCollected == ~Parallel \/ pool["collected"] = Requests(draw)

Over == ~Parallel \/ (IF cut THEN pool["waiting"] \cup pool["running"] = {} ELSE pool["collected"] = Requests(draw))

\* Mutant of Scored: a fold without a winner is scored as well.
ScoredAnyhow(rows) ==
  Append(results, [fold |-> fold, best |-> IF rows = <<>> THEN -1 ELSE Winner(rows),
                   trials |-> Len(rows)])

\* The winner is scored out of sample; a fold that has none is skipped, and the
\* candidates it tried are not counted.
Scored(rows) ==
  IF rows = <<>> THEN results
  ELSE Append(results, [fold |-> fold, best |-> Winner(rows), trials |-> Len(rows)])

EndSearch ==
  /\ phase = "search" /\ Over
  /\ results' = Scored(Rows)
  /\ fold' = fold + 1 /\ phase' = "fold"
  /\ draw' = <<>> /\ pool' = Idle /\ cut' = FALSE /\ runs' = [p \in Params |-> 0]
  /\ UNCHANGED <<asked, faults>>

Finish ==
  /\ phase = "fold" /\ ~Searches
  /\ phase' = "done"
  /\ UNCHANGED <<asked, fold, draw, pool, cut, runs, results, faults>>

-----------------------------------------------------------------------------
Next ==
  \/ StartSearch \/ EndSearch \/ Finish \/ Interrupt \/ WorkerDies
  \/ \E p \in Params : Take(p) \/ Return(p) \/ Collect(p)

\* Backtests end, and processes and the parent keep running.
Fairness ==
  /\ WF_vars(StartSearch) /\ WF_vars(EndSearch) /\ WF_vars(Finish)
  /\ \A p \in Params : WF_vars(Take(p)) /\ WF_vars(Return(p)) /\ WF_vars(Collect(p))

Spec == Init /\ [][Next]_vars /\ Fairness

-----------------------------------------------------------------------------
(* Properties *)

\* No window lets a fold, or the holdout, be scored on what was trained on, but
\* for the boundary day of a fold without an embargo and of the holdout; and the
\* folds are the ones asked for.
LeaksOnlyBoundaries == phase # "refused" => OnlyBoundariesAreShared(w) /\ FoldsAsAsked(w)

\* However the pool interleaves, a search that is not interrupted tries the
\* candidates the sequential one would, picks the same winner, counts each
\* candidate that ran once and runs none twice, nor one the store answers for.
SearchIsScheduleFree ==
  phase = "search" /\ Over /\ ~cut =>
    /\ ToSet(Rows) = ToSet(SequentialRows)
    /\ Rows # <<>> => Winner(Rows) = Winner(SequentialRows)
    /\ Len(Rows) >= Cardinality(ToSet(SequentialRows)) /\ Len(Rows) <= Len(SequentialRows)
    /\ Parallel => runs = [p \in Params |-> IF p \in ToSet(draw) /\ ~Answered(p) THEN 1 ELSE 0]

\* A walk-forward ends, in a result or an exception, whatever is interrupted.
ValidationEnds == <>(phase \in {"done", "refused", "raised"})
=============================================================================
