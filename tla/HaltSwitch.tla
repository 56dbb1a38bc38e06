----------------------------- MODULE HaltSwitch -----------------------------
(***************************************************************************)
(* What the kill switch promises: a set of halted scopes that changes by   *)
(* whole decisions.  A command that runs alone does exactly what it was    *)
(* asked, when it ends, or nothing if it is killed.  Commands that overlap *)
(* void the promise until the last of them is gone; an editor that spoils  *)
(* the file may lose every halt, and is seen to have done it.              *)
(***************************************************************************)
CONSTANTS Scopes, Processes
VARIABLES
  inForce,   \* the scopes halted
  asked,     \* what each running command was asked to do
  contended, \* have commands overlapped since the last was gone?
  edited     \* turned over by each edit by hand, and by nothing else
switch == <<inForce, asked, contended, edited>>

Nothing == [op |-> "none", scope |-> "none"]
Asking == {p \in Processes : asked[p] # Nothing}

Init == /\ inForce = {} /\ contended = FALSE /\ edited \in BOOLEAN
        /\ asked = [p \in Processes |-> Nothing]

\* A command starts; only a halt in force is lifted.
Ask(p) == /\ asked[p] = Nothing
          /\ \E op \in {"set", "clear"}, s \in Scopes :
               /\ op = "clear" => s \in inForce
               /\ asked' = [asked EXCEPT ![p] = [op |-> op, scope |-> s]]
          /\ contended' = (contended \/ Asking # {})
          /\ UNCHANGED <<inForce, edited>>

Outcome(request) == IF request.op = "set" THEN inForce \cup {request.scope}
                                          ELSE inForce \ {request.scope}

Leave(p) == /\ asked[p] # Nothing
            /\ asked' = [asked EXCEPT ![p] = Nothing]
            /\ contended' = (contended /\ Asking # {p})
            /\ UNCHANGED edited

\* A command does what it was asked to do, and returns.
Obey(p) == /\ Leave(p)
           /\ inForce' \in IF contended THEN SUBSET Scopes ELSE {Outcome(asked[p])}

\* A command is killed and has done nothing.
Drop(p) == Leave(p) /\ UNCHANGED inForce

\* Commands that overlap run into each other.
Muddle == contended /\ inForce' \in SUBSET Scopes /\ UNCHANGED <<asked, contended, edited>>

\* The file is edited by hand into something that cannot be read.
Damage == /\ inForce' = {} /\ edited' = ~edited
          /\ contended' = (contended \/ Asking # {})
          /\ UNCHANGED asked

Next == (\E p \in Processes : Ask(p) \/ Obey(p) \/ Drop(p)) \/ Muddle \/ Damage

Spec == Init /\ [][Next]_switch
=============================================================================
