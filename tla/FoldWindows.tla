---------------------------- MODULE FoldWindows ----------------------------
(***************************************************************************)
(* WalkForwardValidator.build_folds: a holdout and train and test spans    *)
(* carved out of a window of days.                                         *)
(***************************************************************************)
EXTENDS Integers

\* Spans of 0 are spans the caller leaves open.
Window == [start : Nat, end : Nat, holdout : Nat, embargo : Nat,
           folds : Nat \ {0}, train : Nat, test : Nat, anchored : BOOLEAN]

\* Mutant of RegionEnd: the holdout is left in.
WholeWindow(w) == w.end

\* The holdout comes off the end first; folds never reach into it.
RegionEnd(w) == w.end - w.holdout

TooShort(w) == RegionEnd(w) - w.start <= w.embargo

\* Unless a caller gives both, train and test spans have one length, as many of
\* them as the folds and one more.
Fitted(w) == w.train = 0 \/ w.test = 0

FittedDays(w) ==
  LET days == (RegionEnd(w) - w.start - w.embargo) \div (w.folds + 1)
  IN  IF days >= 1 THEN days ELSE 1

TrainDays(w) == IF Fitted(w) THEN FittedDays(w) ELSE w.train
TestDays(w)  == IF Fitted(w) THEN FittedDays(w) ELSE w.test

IsEnd(w, i) == w.start + TrainDays(w) + i * TestDays(w)

FoldOf(w, i) ==
  [isStart |-> IF w.anchored THEN w.start ELSE IsEnd(w, i) - TrainDays(w),
   isEnd |-> IsEnd(w, i), oosStart |-> IsEnd(w, i) + w.embargo,
   oosEnd |-> IsEnd(w, i) + w.embargo + TestDays(w)]

\* The loop stops at the first fold that does not fit.
FoldsOf(w) == {i \in 0..(RegionEnd(w) - w.start) : FoldOf(w, i).oosEnd <= RegionEnd(w)}

\* What a search reads and what a score reads; a slice keeps both its ends.
TrainedOn(w, i) == FoldOf(w, i).isStart .. FoldOf(w, i).isEnd
TestedOn(w, i)  == FoldOf(w, i).oosStart .. FoldOf(w, i).oosEnd
LastSearch(w)   == w.start .. RegionEnd(w)
HeldOut(w)      == IF w.holdout = 0 THEN {} ELSE (w.end - w.holdout) .. w.end

-----------------------------------------------------------------------------
\* No fold is scored on a day that it or an earlier one trained on, but for the
\* day its own training ends when the embargo is 0: that day is both.  Two folds
\* are scored on one day only where the one ends and the other begins.  No fold
\* trains on the holdout, and the last search, which does read up to it, shares
\* with it the day it begins and no other.
OnlyBoundariesAreShared(w) ==
  ~TooShort(w) =>
    /\ \A i, j \in FoldsOf(w) : j <= i =>
         TrainedOn(w, j) \cap TestedOn(w, i)
           = IF w.embargo = 0 /\ i = j THEN {FoldOf(w, i).isEnd} ELSE {}
    /\ \A i, j \in FoldsOf(w) : j < i =>
         TestedOn(w, j) \cap TestedOn(w, i) \subseteq {FoldOf(w, j).oosEnd}
    /\ \A i \in FoldsOf(w) :
         /\ TrainedOn(w, i) \cap HeldOut(w) = {}
         /\ TestedOn(w, i) \cap HeldOut(w) \subseteq {w.end - w.holdout}
    /\ LastSearch(w) \cap HeldOut(w) = IF w.holdout = 0 THEN {} ELSE {w.end - w.holdout}

\* Unless the caller gives the spans, the folds asked for are there once the
\* region leaves each a day, and no more of them once it leaves each as many days
\* as there are folds.
FoldsAsAsked(w) ==
  LET days == RegionEnd(w) - w.start - w.embargo IN
  /\ Fitted(w) /\ days >= w.folds + 1 => 0..(w.folds - 1) \subseteq FoldsOf(w)
  /\ Fitted(w) /\ days >= (w.folds + 1) * (w.folds + 1) => FoldsOf(w) = 0..(w.folds - 1)
=============================================================================
