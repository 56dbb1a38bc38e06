----------------------------- MODULE MCHaltFile -----------------------------
(* Two commands that may overlap, the global scope and the trader's own. *)
EXTENDS HaltFile, TLC
CONSTANTS p1, p2, i1, i2, i3, i4
TwoCommands == {p1, p2}
FourInodes == {i1, i2, i3, i4}
TheScopes == {"all", "mine"}
\* What a file nothing names and nobody holds contains makes no difference, nor
\* which way edited stands: only that a step turns it over.
Referenced == <<name, [i \in InUse \ {None} |-> file[i]], command, contended, promised, trader>>
Interchangeable == Permutations(TwoCommands) \cup Permutations(FourInodes)
=============================================================================
