---------------------------- MODULE MCTrialStore ----------------------------
(* Two processes, a command's trial and a session of two rounds.  With the line
   the session starts with, a quarantine and a torn line there are six lines to
   write: of a journal that has them all only the last append is looked at. *)
EXTENDS TrialStore, TLC
CONSTANTS p1, p2, single, MaxLines
TwoProcesses == {p1, p2}
OneSingle == {single}
RunningTotals == (0 :> 0) @@ (1 :> 2) @@ (2 :> 3)
Interchangeable == Permutations(TwoProcesses)
ShortJournal == Len(journal) <= MaxLines
=============================================================================
