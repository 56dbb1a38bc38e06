--------------------------- MODULE MCWalkForward ---------------------------
(* Windows of up to three weeks, with spans fitted or given; three           *)
(* candidates, two of them equally good.                                     *)
EXTENDS WalkForward, TLC
FittedWindows ==
  {win \in [start : {0}, end : {4, 13, 20}, holdout : {0, 3}, embargo : {0, 2},
            folds : {1, 2}, train : {0}, test : {0}, anchored : BOOLEAN] :
     win.anchored => win.folds > 1}
GivenWindows ==
  [start : {0}, end : {13}, holdout : {3}, embargo : {0, 2},
   folds : {1}, train : {5}, test : {4}, anchored : BOOLEAN]
SomeWindows == FittedWindows \cup GivenWindows
ThreeParams == 1..3
TiedScores == (1 :> 1) @@ (2 :> 2) @@ (3 :> 2)
TwoDraws == {<<1, 3, 2>>, <<3, 2, 3>>}
SometimesUnsound == {{1}, {1, 2, 3}}
SometimesStored == {{}, {2}}
=============================================================================
