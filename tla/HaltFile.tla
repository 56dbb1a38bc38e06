------------------------------ MODULE HaltFile ------------------------------
(***************************************************************************)
(* execution/halt.py: halt, resume and flatten, each in a process of its   *)
(* own, rewrite one JSON file through one temporary beside it; a trader    *)
(* reads it before each entry.  A process may be killed between any two    *)
(* system calls.  Files are inodes: a rename moves the name, an open file  *)
(* stays the one that was opened.                                          *)
(***************************************************************************)
EXTENDS FiniteSets

CONSTANTS
  Processes,   \* operator commands that may run at once
  Scopes,      \* "all" and the strategies' names
  All,         \* halt.ALL
  Strategy,    \* the scope of the trader that reads
  Inodes       \* files the directory and the processes may hold at once

None == "none"

ASSUME HaltAssumption ==
  /\ All \in Scopes /\ Strategy \in Scopes
  /\ IsFiniteSet(Inodes) /\ IsFiniteSet(Processes) /\ None \notin Inodes

VARIABLES
  name,      \* the inode "main" (halts.json) and "tmp" (halts.json.tmp) name
  file,      \* what each inode holds: a whole payload or a torn one
  command,   \* each process: its step, its decision, what it read, what it opened
  contended, \* have commands overlapped since all were last at rest?
  promised,  \* scopes whose last uncontended command set them, and returned
  trader,    \* the reader: its step, its inode, was it halted throughout?
  edited     \* turned over by each edit by hand, so that such a step shows

vars == <<name, file, command, contended, promised, trader, edited>>

File == [whole : BOOLEAN, halts : SUBSET Scopes]
Torn == [whole |-> FALSE, halts |-> {}]
Whole(halts) == [whole |-> TRUE, halts |-> halts]

AtRest == [step |-> "rest", op |-> "set", scope |-> All, halts |-> {}, inode |-> None]
Looking == [step |-> "idle", inode |-> None, owed |-> FALSE, halted |-> FALSE]

TypeOK ==
  /\ name \in [{"main", "tmp"} -> Inodes \cup {None}]
  /\ name["main"] = name["tmp"] => name["main"] = None
  /\ file \in [Inodes -> File]
  /\ command \in [Processes ->
       [step : {"rest", "read", "opened", "written"}, op : {"set", "clear"},
        scope : Scopes, halts : SUBSET Scopes, inode : Inodes \cup {None}]]
  /\ contended \in BOOLEAN /\ edited \in BOOLEAN /\ promised \in SUBSET Scopes
  /\ trader \in [step : {"idle", "opened", "decided"}, inode : Inodes \cup {None},
                 owed : BOOLEAN, halted : BOOLEAN]

Init ==
  /\ name = [n \in {"main", "tmp"} |-> None]
  /\ file = [i \in Inodes |-> Torn]
  /\ command = [p \in Processes |-> AtRest]
  /\ contended = FALSE /\ promised = {}
  /\ trader = Looking /\ edited = FALSE

\* _read: a missing, torn or malformed file says that nothing is halted.
Readable(inode) == IF inode = None THEN {} ELSE file[inode].halts

InForce == Readable(name["main"])

\* active: a global halt covers every scope.
Halted(halts) == All \in halts \/ Strategy \in halts

Busy == {p \in Processes : command[p].step # "rest"}

\* Promises change with what the command did, if it ran alone; a trader that
\* is reading is owed a halt only if it stands throughout.
Promise(scopes) ==
  /\ promised' = scopes
  /\ trader' = [trader EXCEPT !.owed = @ /\ (trader.step = "decided" \/ Halted(scopes))]

-----------------------------------------------------------------------------
(* HaltState.set and HaltState.clear *)

\* Mutant of Decided: the new halt replaces whatever stood.
DecidedAnew(op, scope) == IF op = "set" THEN {scope} ELSE InForce \ {scope}

\* The file is read and the new payload made of what it said.
Decided(op, scope) == IF op = "set" THEN InForce \cup {scope} ELSE InForce \ {scope}

\* Beside another command all promises are off.
Begin(p, op, scope) ==
  /\ command[p].step = "rest"
  /\ op = "clear" => scope \in InForce
  /\ command' = [command EXCEPT ![p] = [step |-> "read", op |-> op, scope |-> scope,
                                        halts |-> Decided(op, scope), inode |-> None]]
  /\ IF Busy = {} THEN UNCHANGED <<contended, promised, trader>>
                  ELSE contended' = TRUE /\ Promise({})
  /\ UNCHANGED <<name, file, edited>>

InUse == {name["main"], name["tmp"], trader.inode} \cup {command[p].inode : p \in Processes}

\* Mutant of Temporary: the file is written in place.
InPlace == "main"

\* Where _write puts the payload first: one name for every process.
Temporary == "tmp"

\* open(..., "w") truncates the file of that name, or creates one.
Open(p) ==
  /\ command[p].step = "read"
  /\ \E i \in Inodes :
       /\ IF name[Temporary] = None THEN i \notin InUse ELSE i = name[Temporary]
       /\ name' = [name EXCEPT ![Temporary] = i]
       /\ file' = [file EXCEPT ![i] = Torn]
       /\ command' = [command EXCEPT ![p].step = "opened", ![p].inode = i]
  /\ UNCHANGED <<contended, promised, trader, edited>>

\* Over another process's payload the two may run into each other.
Write(p) ==
  /\ command[p].step = "opened"
  /\ LET i == command[p].inode IN
     \E f \in {Whole(command[p].halts)} \cup (IF file[i].whole THEN {Torn} ELSE {}) :
       file' = [file EXCEPT ![i] = f]
  /\ command' = [command EXCEPT ![p].step = "written"]
  /\ UNCHANGED <<name, contended, promised, trader, edited>>

\* p is done or dead; the last of several ends their contention.
Rest(p) ==
  /\ command' = [command EXCEPT ![p] = AtRest]
  /\ contended' = (contended /\ Busy # {p})

\* Mutant of Rename: the file is left as it was.
RenameNothing == [name EXCEPT !["tmp"] = None]

\* Mutant of Rename: a second name instead of a new one.
LinkBoth == [name EXCEPT !["main"] = name["tmp"]]

\* os.replace, of whatever bears the temporary's name by now.
Rename == [name EXCEPT !["main"] = name["tmp"], !["tmp"] = None]

Replace(p) ==
  /\ command[p].step = "written" /\ name["tmp"] # None
  /\ name' = Rename
  /\ Rest(p)
  /\ Promise(IF contended THEN {}
             ELSE IF command[p].op = "set" THEN promised \cup {command[p].scope}
             ELSE promised \ {command[p].scope})
  /\ UNCHANGED <<file, edited>>

\* Killed, or os.replace found no temporary.
Kill(p) ==
  /\ command[p].step # "rest"
  /\ Rest(p)
  /\ UNCHANGED <<name, file, promised, trader, edited>>

\* The file is edited by hand into something that is not the object expected;
\* a command that runs meanwhile overlaps the editor.
Damage ==
  /\ name["main"] # None
  /\ file' = [file EXCEPT ![name["main"]] = Torn]
  /\ edited' = ~edited /\ contended' = (contended \/ Busy # {})
  /\ Promise({})
  /\ UNCHANGED <<name, command>>

-----------------------------------------------------------------------------
(* A trader about to enter: active(strategy) *)

OpenToRead ==
  /\ trader.step = "idle"
  /\ trader' = [step |-> "opened", inode |-> name["main"], owed |-> Halted(promised), halted |-> FALSE]
  /\ UNCHANGED <<name, file, command, contended, promised, edited>>

ReadHalts ==
  /\ trader.step = "opened"
  /\ trader' = [trader EXCEPT !.step = "decided", !.inode = None,
                              !.halted = Halted(Readable(trader.inode))]
  /\ UNCHANGED <<name, file, command, contended, promised, edited>>

NextEntry ==
  /\ trader.step = "decided"
  /\ trader' = Looking
  /\ UNCHANGED <<name, file, command, contended, promised, edited>>

-----------------------------------------------------------------------------
Command(p) == \/ \E op \in {"set", "clear"}, s \in Scopes : Begin(p, op, s)
              \/ Open(p) \/ Write(p) \/ Replace(p) \/ Kill(p)

Next == (\E p \in Processes : Command(p)) \/ Damage \/ OpenToRead \/ ReadHalts \/ NextEntry

Spec == Init /\ [][Next]_vars

-----------------------------------------------------------------------------
\* What each running command was asked to do.
Requests == [p \in Processes |-> IF command[p].step = "rest"
                                 THEN [op |-> "none", scope |-> "none"]
                                 ELSE [op |-> command[p].op, scope |-> command[p].scope]]

(* Of a command that runs alone the file says, at each of its system calls and
   whoever kills it, what it said before it, until the rename puts in force the
   one change the command was asked for: it is never read as torn, and no other
   scope is touched.  Two things alone are excepted: commands that overlap,
   until the last of them is gone, and an edit by hand, which empties the switch. *)
Switch == INSTANCE HaltSwitch WITH inForce <- InForce, asked <- Requests
ChangesWhole == Switch!Spec

(* A halt that was set by a command that ran alone, and returned, stands until
   a command lifts it or runs into another one. *)
ReturnedHaltStands == promised \subseteq InForce

(* A trader never reads its way past a halt that stood while it read, whatever
   was renamed between its open and its read. *)
NoEntryPastStandingHalt == trader.step = "decided" /\ trader.owed => trader.halted

(* What the code says of its write and does not hold once two commands overlap;
   see the README.  "A process killed mid-write leaves the previous state
   intact rather than a truncated file": *)
NeverTruncated == name["main"] # None => file[name["main"]].whole
=============================================================================
