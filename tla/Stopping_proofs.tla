--------------------------- MODULE Stopping_proofs ---------------------------
(***************************************************************************)
(* What holds of the two ways trading is stopped: the halt file, for any   *)
(* commands, scopes and inodes, which implements the switch; and the end   *)
(* of a session, for any streams, any number of signals and any timeouts   *)
(* in the order the code gives them.                                       *)
(***************************************************************************)
EXTENDS HaltFile, Shutdown, TLAPS

-----------------------------------------------------------------------------
(* The halt file *)

\* While no commands overlap there is at most one; what it will put in the file
\* is its decision on what the file still says, and it writes where nothing looks.
Sole(p) ==
  /\ \A q \in Processes : command[q].step # "rest" => q = p
  /\ command[p].halts = Decided(command[p].op, command[p].scope)
  /\ command[p].step \in {"opened", "written"} =>
       command[p].inode = name["tmp"] /\ name["tmp"] # None
  /\ command[p].step = "opened" => ~file[name["tmp"]].whole
  /\ command[p].step = "written" => file[name["tmp"]] = Whole(command[p].halts)

AloneInv == ~contended => \A p \in Processes : command[p].step # "rest" => Sole(p)

\* What is promised is in the file; a reader that is owed a halt holds a file
\* that says so, which nobody writes to any more.
PromiseInv ==
  /\ promised \subseteq InForce
  /\ contended => promised = {}
  /\ trader.step = "opened" /\ trader.owed =>
       /\ ~contended /\ Halted(Readable(trader.inode))
       /\ trader.inode # name["tmp"] \/ name["tmp"] = None
  /\ trader.step = "decided" /\ trader.owed => trader.halted

IInv == TypeOK /\ AloneInv /\ PromiseInv

LEMMA InitIInv == Init => IInv
<1> SUFFICES ASSUME Init PROVE IInv OBVIOUS
<1>1. TypeOK
  <2>1. Torn \in File BY DEF Torn, File
  <2> QED BY <2>1, HaltAssumption DEF Init, TypeOK, AtRest, Looking
<1>2. AloneInv BY DEF Init, AloneInv, AtRest
<1>3. PromiseInv BY DEF Init, PromiseInv, Looking
<1> QED BY <1>1, <1>2, <1>3 DEF IInv

-----------------------------------------------------------------------------
(* Types *)

Commands == [step : {"rest", "read", "opened", "written"}, op : {"set", "clear"},
             scope : Scopes, halts : SUBSET Scopes, inode : Inodes \cup {None}]

LEMMA TypeStep == ASSUME TypeOK, [Next]_vars PROVE TypeOK'
<1>h. /\ None \notin Inodes /\ All \in Scopes BY HaltAssumption
<1>r. \A i \in Inodes \cup {None} : Readable(i) \in SUBSET Scopes BY DEF TypeOK, File, Readable
<1>n. name["main"] \in Inodes \cup {None} /\ name["tmp"] \in Inodes \cup {None} BY DEF TypeOK
<1>f. InForce \in SUBSET Scopes BY <1>r, <1>n DEF InForce
<1>a. AtRest \in Commands BY <1>h DEF AtRest, Commands
<1>1. ASSUME NEW p \in Processes, NEW op \in {"set", "clear"}, NEW s \in Scopes, Begin(p, op, s)
      PROVE  TypeOK'
  <2>1. Decided(op, s) \in SUBSET Scopes BY <1>f DEF Decided
  <2>2. /\ contended' \in BOOLEAN /\ promised' \in SUBSET Scopes
        /\ trader' \in [step : {"idle", "opened", "decided"}, inode : Inodes \cup {None},
                        owed : BOOLEAN, halted : BOOLEAN]
    BY <1>1 DEF Begin, Promise, TypeOK
  <2> QED BY <1>1, <2>1, <2>2 DEF Begin, TypeOK
<1>2. ASSUME NEW p \in Processes, Open(p) PROVE TypeOK'
  <2>1. PICK i \in Inodes :
          /\ IF name["tmp"] = None THEN i \notin InUse ELSE i = name["tmp"]
          /\ name' = [name EXCEPT !["tmp"] = i]
          /\ file' = [file EXCEPT ![i] = Torn]
          /\ command' = [command EXCEPT ![p].step = "opened", ![p].inode = i]
    BY <1>2 DEF Open, Temporary
  <2>2. i # name["main"] BY <2>1, <1>h DEF TypeOK, InUse
  <2>3. Torn \in File BY DEF Torn, File
  <2>4. name' \in [{"main", "tmp"} -> Inodes \cup {None}] /\ name'["main"] # name'["tmp"]
    BY <2>1, <2>2 DEF TypeOK
  <2>5. file' \in [Inodes -> File] BY <2>1, <2>3 DEF TypeOK
  <2>6. [command[p] EXCEPT !.step = "opened", !.inode = i] \in Commands BY DEF TypeOK, Commands
  <2>7. command' \in [Processes -> Commands] BY <2>1, <2>6 DEF TypeOK, Commands
  <2> QED BY <1>2, <2>4, <2>5, <2>7 DEF Open, TypeOK, Commands
<1>3. ASSUME NEW p \in Processes, Write(p) PROVE TypeOK'
  <2>1. Torn \in File /\ Whole(command[p].halts) \in File BY DEF Torn, Whole, File, TypeOK
  <2>2. file' \in [Inodes -> File] BY <1>3, <2>1 DEF Write, TypeOK
  <2> QED BY <1>3, <2>2 DEF Write, TypeOK
<1>4. ASSUME NEW p \in Processes, Replace(p) PROVE TypeOK'
  <2>1. name' \in [{"main", "tmp"} -> Inodes \cup {None}] /\ name'["tmp"] = None
        /\ name'["main"] = name["tmp"]
    BY <1>4 DEF Replace, Rename, TypeOK
  <2>2. promised' \in SUBSET Scopes BY <1>4 DEF Replace, Promise, TypeOK
  <2>3. trader' \in [step : {"idle", "opened", "decided"}, inode : Inodes \cup {None},
                     owed : BOOLEAN, halted : BOOLEAN]
    <3> DEFINE kept == trader.step = "decided" \/ Halted(promised')
    <3>1. trader' = [trader EXCEPT !.owed = @ /\ kept] BY <1>4 DEF Replace, Promise
    <3>2. (trader.owed /\ kept) \in BOOLEAN OBVIOUS
    <3> HIDE DEF kept
    <3> QED BY <3>1, <3>2 DEF TypeOK
  <2> QED BY <1>4, <2>1, <2>2, <2>3, <1>a DEF Replace, Rest, TypeOK, Commands
<1>5. ASSUME NEW p \in Processes, Kill(p) PROVE TypeOK'
  BY <1>5, <1>a DEF Kill, Rest, TypeOK, Commands
<1>6. CASE Damage
  BY <1>6 DEF Damage, Promise, TypeOK, Torn, File
<1>7. CASE OpenToRead \/ ReadHalts \/ NextEntry
  <2>1. \A S : Halted(S) \in BOOLEAN BY DEF Halted
  <2>2. Looking \in [step : {"idle", "opened", "decided"}, inode : Inodes \cup {None},
                    owed : BOOLEAN, halted : BOOLEAN]
    BY DEF Looking
  <2>3. CASE OpenToRead BY <2>1, <2>3, <1>n DEF OpenToRead, TypeOK
  <2>4. CASE ReadHalts BY <2>1, <2>4 DEF ReadHalts, TypeOK
  <2>5. CASE NextEntry BY <2>2, <2>5 DEF NextEntry, TypeOK
  <2> QED BY <1>7, <2>3, <2>4, <2>5
<1>8. CASE UNCHANGED vars BY <1>8 DEF vars, TypeOK, InUse
<1> QED BY <1>1, <1>2, <1>3, <1>4, <1>5, <1>6, <1>7, <1>8 DEF Next, Command
-----------------------------------------------------------------------------
(* The invariant *)

\* A step that leaves the name and its file alone leaves the halts in force.
LEMMA ForceKept ==
  ASSUME TypeOK, name'["main"] = name["main"],
         name["main"] # None => file'[name["main"]] = file[name["main"]]
  PROVE  InForce' = InForce
BY DEF InForce, Readable

LEMMA NothingHalted == ~Halted({})
BY DEF Halted

LEMMA OpenStep ==
  ASSUME IInv, NEW p \in Processes, Open(p)
  PROVE  /\ InForce' = InForce
         /\ name'["tmp"] # None /\ command'[p].inode = name'["tmp"]
         /\ file'[name'["tmp"]] = Torn /\ command'[p].step = "opened"
         /\ command'[p].halts = command[p].halts
         /\ command'[p].op = command[p].op /\ command'[p].scope = command[p].scope
         /\ \A q \in Processes \ {p} : command'[q] = command[q]
         /\ \A i \in Inodes : i = name'["tmp"] \/ file'[i] = file[i]
         /\ IF name["tmp"] = None THEN name'["tmp"] # trader.inode ELSE name'["tmp"] = name["tmp"]
<1>1. PICK i \in Inodes :
        /\ IF name["tmp"] = None THEN i \notin InUse ELSE i = name["tmp"]
        /\ name' = [name EXCEPT !["tmp"] = i]
        /\ file' = [file EXCEPT ![i] = Torn]
        /\ command' = [command EXCEPT ![p].step = "opened", ![p].inode = i]
  BY DEF Open, Temporary
<1>2. i # name["main"] /\ i # None BY <1>1, HaltAssumption DEF IInv, TypeOK, InUse
<1>3. name'["tmp"] = i /\ name'["main"] = name["main"] BY <1>1 DEF IInv, TypeOK
<1>4. InForce' = InForce
  <2>1. name["main"] # None => file'[name["main"]] = file[name["main"]]
    BY <1>1, <1>2 DEF IInv, TypeOK
  <2> QED BY <2>1, <1>3, ForceKept DEF IInv
<1>5. file'[i] = Torn /\ \A j \in Inodes : j = i \/ file'[j] = file[j] BY <1>1 DEF IInv, TypeOK
<1>6. /\ command'[p] = [command[p] EXCEPT !.step = "opened", !.inode = i]
      /\ \A q \in Processes \ {p} : command'[q] = command[q]
  BY <1>1 DEF IInv, TypeOK
<1>7. command[p] \in Commands BY DEF IInv, TypeOK, Commands
<1>8. /\ command'[p].inode = i /\ command'[p].step = "opened"
      /\ command'[p].halts = command[p].halts
      /\ command'[p].op = command[p].op /\ command'[p].scope = command[p].scope
  BY <1>6, <1>7 DEF Commands
<1>9. IF name["tmp"] = None THEN i # trader.inode ELSE i = name["tmp"] BY <1>1 DEF InUse
<1> QED BY <1>2, <1>3, <1>4, <1>5, <1>6, <1>8, <1>9

\* A command alone writes beside the file and beside what the reader holds.
LEMMA WriteStep ==
  ASSUME IInv, NEW p \in Processes, Write(p), ~contended
  PROVE  /\ InForce' = InForce
         /\ command[p].inode = name["tmp"] /\ name["tmp"] \in Inodes
         /\ file' = [file EXCEPT ![name["tmp"]] = Whole(command[p].halts)]
<1>1. command[p].step = "opened" BY DEF Write
<1>2. /\ command[p].inode = name["tmp"] /\ name["tmp"] # None
      /\ ~file[name["tmp"]].whole
  BY <1>1 DEF IInv, AloneInv, Sole
<1>3. name["tmp"] \in Inodes /\ name["tmp"] # name["main"] BY <1>2 DEF IInv, TypeOK
<1>4. file' = [file EXCEPT ![name["tmp"]] = Whole(command[p].halts)] BY <1>2 DEF Write
<1>5. InForce' = InForce
  <2>1. name["main"] # None => file'[name["main"]] = file[name["main"]]
    BY <1>3, <1>4 DEF IInv, TypeOK
  <2> QED BY <2>1, ForceKept DEF Write, IInv
<1> QED BY <1>2, <1>3, <1>4, <1>5

\* A command alone puts its decision in force.
LEMMA ReplaceStep ==
  ASSUME IInv, NEW p \in Processes, Replace(p), ~contended
  PROVE  InForce' = Decided(command[p].op, command[p].scope) /\ ~contended'
<1>1. /\ command[p].halts = Decided(command[p].op, command[p].scope)
      /\ name["tmp"] # None /\ file[name["tmp"]] = Whole(command[p].halts)
  BY DEF IInv, AloneInv, Sole, Replace
<1>2. name'["main"] = name["tmp"] /\ file' = file BY DEF Replace, Rename, IInv, TypeOK
<1>3. InForce' = command[p].halts BY <1>1, <1>2 DEF InForce, Readable, Whole
<1> QED BY <1>1, <1>3 DEF Replace, Rest

\* Whoever leaves contention last leaves nobody behind.
LEMMA RestStep ==
  ASSUME TypeOK, NEW p \in Processes, Rest(p)
  PROVE  /\ command'[p].step = "rest" /\ \A q \in Processes \ {p} : command'[q] = command[q]
         /\ contended /\ ~contended' => \A q \in Processes : command'[q].step = "rest"
<1>1. command'[p].step = "rest" /\ \A q \in Processes \ {p} : command'[q] = command[q]
  BY DEF Rest, TypeOK, AtRest
<1> QED BY <1>1 DEF Rest, Busy

LEMMA AloneStep == ASSUME IInv, [Next]_vars PROVE AloneInv'
<1> SUFFICES ASSUME ~contended', NEW p \in Processes, command'[p].step # "rest" PROVE Sole(p)'
  BY DEF AloneInv
<1>t. TypeOK BY DEF IInv
<1>0. ASSUME UNCHANGED <<name, file, command, contended>> PROVE Sole(p)'
  <2>1. InForce' = InForce BY <1>0, <1>t, ForceKept
  <2>2. Sole(p) BY <1>0 DEF IInv, AloneInv
  <2> QED BY <1>0, <2>1, <2>2 DEF Sole, Decided, Whole
<1>1. ASSUME NEW r \in Processes, NEW op \in {"set", "clear"}, NEW s \in Scopes, Begin(r, op, s)
      PROVE  Sole(p)'
  <2>1. Busy = {} /\ InForce' = InForce BY <1>1, <1>t, ForceKept DEF Begin
  <2>2. \A q \in Processes : command'[q].step # "rest" => q = r
    BY <1>1, <2>1 DEF Begin, Busy, IInv, TypeOK
  <2>3. p = r /\ command'[p] = [step |-> "read", op |-> op, scope |-> s,
                              halts |-> Decided(op, s), inode |-> None]
    BY <1>1, <2>2 DEF Begin, IInv, TypeOK
  <2> QED BY <2>1, <2>2, <2>3 DEF Sole, Decided
<1>2. ASSUME NEW r \in Processes, Open(r) PROVE Sole(p)'
  <2>1. Sole(r) BY <1>2 DEF Open, IInv, AloneInv
  <2>2. \A q \in Processes : command'[q].step # "rest" => q = r BY <1>2, <2>1, OpenStep DEF Sole
  <2>3. p = r BY <2>2
  <2>4. /\ InForce' = InForce /\ name'["tmp"] # None /\ command'[r].inode = name'["tmp"]
        /\ ~file'[name'["tmp"]].whole /\ command'[r].step = "opened"
        /\ command'[r].halts = command[r].halts
        /\ command'[r].op = command[r].op /\ command'[r].scope = command[r].scope
    <3>1. ~Torn.whole BY DEF Torn
    <3> QED BY <1>2, <3>1, OpenStep
  <2>5. command'[r].halts = Decided(command[r].op, command[r].scope)' BY <2>1, <2>4 DEF Sole, Decided
  <2> QED BY <2>2, <2>3, <2>4, <2>5 DEF Sole
<1>3. ASSUME NEW r \in Processes, Write(r) PROVE Sole(p)'
  <2>1. ~contended /\ Sole(r) BY <1>3 DEF Write, IInv, AloneInv
  <2>2. /\ InForce' = InForce /\ command[r].inode = name["tmp"] /\ name["tmp"] \in Inodes
        /\ file' = [file EXCEPT ![name["tmp"]] = Whole(command[r].halts)]
    BY <1>3, <2>1, WriteStep
  <2>3. command'[r] = [command[r] EXCEPT !.step = "written"]
        /\ \A q \in Processes \ {r} : command'[q] = command[q]
    BY <1>3, <1>t DEF Write, TypeOK
  <2>4. command[r] \in Commands BY <1>t DEF TypeOK, Commands
  <2>5. /\ command'[r].step = "written" /\ command'[r].halts = command[r].halts
        /\ command'[r].op = command[r].op /\ command'[r].scope = command[r].scope
        /\ command'[r].inode = command[r].inode
    BY <2>3, <2>4 DEF Commands
  <2>6. \A q \in Processes : command'[q].step # "rest" => q = r BY <2>1, <2>3 DEF Sole
  <2>7. p = r BY <2>6
  <2>8. file'[name["tmp"]] = Whole(command[r].halts) /\ name' = name /\ name["tmp"] # None
    BY <2>2, <1>3, <1>t, HaltAssumption DEF TypeOK, Write
  <2> QED BY <2>1, <2>2, <2>5, <2>6, <2>7, <2>8 DEF Sole, Decided
<1>4. ASSUME NEW r \in Processes, Rest(r), command[r].step # "rest" PROVE FALSE
  <2>1. CASE contended BY <2>1, <1>4, <1>t, RestStep
  <2>2. CASE ~contended
    <3>1. command'[r].step = "rest" /\ \A q \in Processes \ {r} : command'[q] = command[q]
      BY <1>4, <1>t, RestStep
    <3>2. command[p].step # "rest" /\ p # r BY <3>1
    <3> QED BY <3>2, <2>2, <1>4 DEF IInv, AloneInv, Sole
  <2> QED BY <2>1, <2>2
<1>6. CASE Damage BY <1>6 DEF Damage, Busy, IInv, TypeOK
<1>7. CASE OpenToRead \/ ReadHalts \/ NextEntry \/ UNCHANGED vars
  BY <1>7, <1>0 DEF OpenToRead, ReadHalts, NextEntry, vars
<1> QED BY <1>1, <1>2, <1>3, <1>4, <1>6, <1>7 DEF Next, Command, Replace, Kill

LEMMA PromiseStep == ASSUME IInv, [Next]_vars, TypeOK' PROVE PromiseInv'
<1>t. TypeOK /\ PromiseInv BY DEF IInv
<1>r. trader \in [step : {"idle", "opened", "decided"}, inode : Inodes \cup {None},
                  owed : BOOLEAN, halted : BOOLEAN]
  BY <1>t DEF TypeOK
<1>0. ASSUME UNCHANGED <<name, file, promised, trader>>, contended' => contended
      PROVE  PromiseInv'
  <2>1. InForce' = InForce BY <1>0, <1>t, ForceKept
  <2>2. Readable(trader.inode)' = Readable(trader.inode) BY <1>0 DEF Readable
  <2> QED BY <1>0, <2>1, <2>2, <1>t DEF PromiseInv, Halted
\* When the promises are off, nobody is owed anything.
<1>n. ASSUME Promise({}) PROVE PromiseInv'
  <2>1. promised' = {} /\ trader' = [trader EXCEPT !.owed = @ /\ trader.step = "decided"]
    BY <1>n, NothingHalted DEF Promise
  <2>2. trader'.step = trader.step /\ trader'.halted = trader.halted
        /\ (trader'.owed <=> trader.owed /\ trader.step = "decided")
    BY <2>1, <1>r
  <2>3. trader'.step = "decided" /\ trader'.owed => trader'.halted
    BY <2>2, <1>t DEF PromiseInv
  <2> QED BY <2>1, <2>2, <2>3 DEF PromiseInv
<1>1. ASSUME NEW p \in Processes, NEW op \in {"set", "clear"}, NEW s \in Scopes, Begin(p, op, s)
      PROVE  PromiseInv'
  <2>1. CASE Busy = {} BY <1>1, <1>0, <2>1 DEF Begin
  <2>2. CASE Busy # {} BY <1>1, <1>n, <2>2 DEF Begin
  <2> QED BY <2>1, <2>2
<1>2. ASSUME NEW p \in Processes, Open(p) PROVE PromiseInv'
  <2>1. InForce' = InForce /\ UNCHANGED <<contended, promised, trader>> BY <1>2, OpenStep DEF Open, IInv
  <2>2. CASE trader.step = "opened" /\ trader.owed
    <3>1. trader.inode # name'["tmp"]
      BY <1>2, <2>2, <1>t, OpenStep, HaltAssumption DEF PromiseInv
    <3>2. Readable(trader.inode)' = Readable(trader.inode)
      BY <1>2, <3>1, <2>1, OpenStep, <1>r DEF Readable
    <3> QED BY <2>1, <2>2, <3>1, <3>2, <1>t DEF PromiseInv, Halted
  <2>3. CASE ~(trader.step = "opened" /\ trader.owed) BY <2>1, <2>3, <1>t DEF PromiseInv
  <2> QED BY <2>2, <2>3
<1>3. ASSUME NEW p \in Processes, Write(p) PROVE PromiseInv'
  <2>1. UNCHANGED <<name, contended, promised, trader>> BY <1>3 DEF Write
  <2>2. CASE contended BY <2>1, <2>2, <1>t DEF PromiseInv
  <2>3. CASE ~contended
    <3>1. /\ InForce' = InForce /\ name["tmp"] \in Inodes
          /\ file' = [file EXCEPT ![name["tmp"]] = Whole(command[p].halts)]
      BY <1>3, <2>3, WriteStep
    <3>2. trader.step = "opened" /\ trader.owed =>
            Readable(trader.inode)' = Readable(trader.inode)
      BY <3>1, <2>1, <1>t, <1>r, HaltAssumption DEF PromiseInv, Readable, TypeOK
    <3> QED BY <2>1, <2>3, <3>1, <3>2, <1>t DEF PromiseInv, Halted
  <2> QED BY <2>2, <2>3
<1>4. ASSUME NEW p \in Processes, Replace(p) PROVE PromiseInv'
  <2>1. CASE contended BY <1>4, <1>n, <2>1 DEF Replace
  <2>2. CASE ~contended
    <3> DEFINE held == IF command[p].op = "set" THEN promised \cup {command[p].scope}
                       ELSE promised \ {command[p].scope}
    <3>1. InForce' = Decided(command[p].op, command[p].scope) /\ ~contended'
      BY <1>4, <2>2, ReplaceStep
    <3>2. promised' = held /\ trader' = [trader EXCEPT !.owed = @ /\ (trader.step = "decided" \/ Halted(held))]
      BY <1>4, <2>2 DEF Replace, Promise
    <3>3. promised' \subseteq InForce' BY <3>1, <3>2, <1>t DEF PromiseInv, Decided
    <3>4. /\ trader'.step = trader.step /\ trader'.inode = trader.inode
          /\ trader'.halted = trader.halted /\ (trader'.owed => trader.owed)
      BY <3>2, <1>r
    <3>5. name'["tmp"] = None /\ file' = file BY <1>4, <1>t DEF Replace, Rename, TypeOK
    <3>6. Readable(trader.inode)' = Readable(trader.inode) BY <3>4, <3>5 DEF Readable
    <3>7. trader'.step = "opened" /\ trader'.owed => Halted(Readable(trader.inode)')
      BY <3>4, <3>6, <1>t DEF PromiseInv, Halted
    <3>8. trader'.step = "decided" /\ trader'.owed => trader'.halted BY <3>4, <1>t DEF PromiseInv
    <3> HIDE DEF held
    <3> QED BY <3>1, <3>3, <3>5, <3>7, <3>8 DEF PromiseInv, Halted
  <2> QED BY <2>1, <2>2
<1>5. ASSUME NEW p \in Processes, Kill(p) PROVE PromiseInv'
  BY <1>5, <1>0 DEF Kill, Rest
<1>6. CASE Damage BY <1>6, <1>n DEF Damage
<1>7. CASE OpenToRead
  <2>1. /\ UNCHANGED <<name, file, contended, promised>> /\ trader'.step = "opened"
        /\ trader'.inode = name["main"] /\ trader'.owed = Halted(promised)
    BY <1>7 DEF OpenToRead
  <2>2. InForce' = InForce BY <2>1, <1>t, ForceKept
  <2>3. Halted(promised) => /\ ~contended /\ Halted(InForce)
                            /\ name["main"] # None
    BY <1>t DEF PromiseInv, Halted, InForce, Readable
  <2>4. Readable(trader.inode)' = InForce BY <2>1 DEF Readable, InForce
  <2> QED BY <2>1, <2>2, <2>3, <2>4, <1>t DEF PromiseInv, TypeOK, Halted
<1>8. CASE ReadHalts
  <2>1. /\ UNCHANGED <<name, file, contended, promised>> /\ trader'.step = "decided"
        /\ trader'.owed = trader.owed /\ trader'.halted = Halted(Readable(trader.inode))
    BY <1>8, <1>r DEF ReadHalts
  <2>2. InForce' = InForce BY <2>1, <1>t, ForceKept
  <2> QED BY <1>8, <2>1, <2>2, <1>t DEF PromiseInv, ReadHalts
<1>9. CASE NextEntry
  <2>1. InForce' = InForce BY <1>9, <1>t, ForceKept DEF NextEntry
  <2> QED BY <1>9, <2>1, <1>t DEF NextEntry, PromiseInv, Looking
<1>10. CASE UNCHANGED vars BY <1>10, <1>0 DEF vars
<1> QED BY <1>1, <1>2, <1>3, <1>4, <1>5, <1>6, <1>7, <1>8, <1>9, <1>10 DEF Next, Command

LEMMA Invariance == Spec => []IInv
<1>1. IInv /\ [Next]_vars => IInv'
  BY TypeStep, AloneStep, PromiseStep DEF IInv
<1> QED BY InitIInv, <1>1, PTL DEF Spec

-----------------------------------------------------------------------------
\* A name always means one of the files, and a rename never leaves two names.
THEOREM TypeCorrect == Spec => []TypeOK
BY Invariance, PTL DEF IInv

\* A halt whose command ran alone, and returned, stands in the file until another
\* command lifts it or runs into one, whatever is killed meanwhile.
THEOREM ReturnedStands == Spec => []ReturnedHaltStands
<1>1. IInv => ReturnedHaltStands BY DEF IInv, PromiseInv, ReturnedHaltStands
<1> QED BY <1>1, Invariance, PTL

\* A trader never reads past a halt that stood all the time it read.
THEOREM StandingHaltObeyed == Spec => []NoEntryPastStandingHalt
<1>1. IInv => NoEntryPastStandingHalt BY DEF IInv, PromiseInv, NoEntryPastStandingHalt
<1> QED BY <1>1, Invariance, PTL

-----------------------------------------------------------------------------
(* The file implements the switch *)

\* What a command asks for is seen while it runs, and only then.
LEMMA Requested ==
  ASSUME TypeOK, NEW p \in Processes
  PROVE  /\ Switch!Nothing = [op |-> "none", scope |-> "none"]
         /\ Requests[p] = Switch!Nothing <=> command[p].step = "rest"
         /\ command[p].step # "rest" =>
              Requests[p] = [op |-> command[p].op, scope |-> command[p].scope]
         /\ Requests = [Requests EXCEPT ![p] = Requests[p]]
<1>1. command[p].op \in {"set", "clear"} BY DEF TypeOK
<1>2. [op |-> command[p].op, scope |-> command[p].scope] # [op |-> "none", scope |-> "none"]
  BY <1>1
<1> QED BY <1>2 DEF Requests, Switch!Nothing

LEMMA AskingIsBusy == TypeOK => Switch!Asking = Busy
BY Requested DEF Switch!Asking, Busy

\* What a step does to the requests is what it does to the commands at rest.
LEMMA RequestsKept ==
  ASSUME \A q \in Processes : /\ command'[q].step = "rest" <=> command[q].step = "rest"
                              /\ command'[q].op = command[q].op
                              /\ command'[q].scope = command[q].scope
  PROVE  Requests' = Requests
BY DEF Requests

LEMMA RequestBegins ==
  ASSUME TypeOK, NEW p \in Processes, NEW op \in {"set", "clear"}, NEW s \in Scopes, Begin(p, op, s)
  PROVE  /\ Requests[p] = Switch!Nothing
         /\ Requests' = [Requests EXCEPT ![p] = [op |-> op, scope |-> s]]
<1>1. Requests[p] = Switch!Nothing BY Requested DEF Begin
<1>2. /\ command'[p].step = "read" /\ command'[p].op = op /\ command'[p].scope = s
      /\ \A q \in Processes \ {p} : command'[q] = command[q]
  BY DEF Begin, TypeOK
<1>3. Requests' = [Requests EXCEPT ![p] = [op |-> op, scope |-> s]] BY <1>2 DEF Requests
<1> QED BY <1>1, <1>3

LEMMA RequestEnds ==
  ASSUME TypeOK, NEW p \in Processes, Rest(p), command[p].step # "rest"
  PROVE  /\ Requests[p] # Switch!Nothing
         /\ Requests' = [Requests EXCEPT ![p] = Switch!Nothing]
         /\ contended' = (contended /\ Switch!Asking # {p})
<1>1. command'[p].step = "rest" /\ \A q \in Processes \ {p} : command'[q] = command[q]
  BY RestStep
<1>2. Requests' = [Requests EXCEPT ![p] = Switch!Nothing]
  BY <1>1 DEF Requests, Switch!Nothing
<1> QED BY <1>2, Requested, AskingIsBusy DEF Rest

LEMMA SwitchStep == ASSUME IInv, [Next]_vars PROVE [Switch!Next]_(Switch!switch)
<1>t. TypeOK BY DEF IInv
<1>g. InForce' \in SUBSET Scopes
  <2>1. TypeOK' BY <1>t, TypeStep
  <2> QED BY <2>1 DEF TypeOK, File, InForce, Readable
<1> USE DEF Switch!Next, Switch!switch
<1>s. ASSUME InForce' = InForce, Requests' = Requests, contended' = contended, edited' = edited
      PROVE  [Switch!Next]_(Switch!switch)
  BY <1>s
<1>m. ASSUME contended, Requests' = Requests, contended' = contended, edited' = edited
      PROVE  [Switch!Next]_(Switch!switch)
  BY <1>m, <1>g DEF Switch!Muddle
<1>1. ASSUME NEW p \in Processes, NEW op \in {"set", "clear"}, NEW s \in Scopes, Begin(p, op, s)
      PROVE  [Switch!Next]_(Switch!switch)
  <2>1. InForce' = InForce /\ edited' = edited BY <1>1, <1>t, ForceKept DEF Begin
  <2>2. contended' = (contended \/ Switch!Asking # {})
    BY <1>1, <1>t, AskingIsBusy DEF Begin, TypeOK
  <2>3. op = "clear" => s \in InForce BY <1>1 DEF Begin
  <2>4. Switch!Ask(p) BY <1>1, <1>t, RequestBegins, <2>1, <2>2, <2>3 DEF Switch!Ask
  <2> QED BY <2>4
<1>2. ASSUME NEW p \in Processes, Open(p) PROVE [Switch!Next]_(Switch!switch)
  <2>1. InForce' = InForce BY <1>2, OpenStep
  <2>2. Requests' = Requests
    <3>1. command[p].step # "rest" BY <1>2 DEF Open
    <3>2. \A q \in Processes : /\ command'[q].step = "rest" <=> command[q].step = "rest"
                               /\ command'[q].op = command[q].op
                               /\ command'[q].scope = command[q].scope
      BY <1>2, <3>1, OpenStep
    <3> QED BY <3>2, RequestsKept
  <2> QED BY <1>2, <2>1, <2>2, <1>s DEF Open
<1>3. ASSUME NEW p \in Processes, Write(p) PROVE [Switch!Next]_(Switch!switch)
  <2>1. Requests' = Requests
    <3>1. command[p] \in Commands BY <1>t DEF TypeOK, Commands
    <3>2. command'[p] = [command[p] EXCEPT !.step = "written"]
          /\ \A q \in Processes \ {p} : command'[q] = command[q]
      BY <1>3, <1>t DEF Write, TypeOK
    <3>3. \A q \in Processes : /\ command'[q].step = "rest" <=> command[q].step = "rest"
                               /\ command'[q].op = command[q].op
                               /\ command'[q].scope = command[q].scope
      BY <1>3, <3>1, <3>2 DEF Write, Commands
    <3> QED BY <3>3, RequestsKept
  <2>2. contended' = contended /\ edited' = edited BY <1>3 DEF Write
  <2>3. CASE ~contended BY <1>3, <2>1, <2>2, <2>3, WriteStep, <1>s
  <2>4. CASE contended BY <2>1, <2>2, <2>4, <1>m
  <2> QED BY <2>3, <2>4
<1>4. ASSUME NEW p \in Processes, Replace(p) PROVE [Switch!Next]_(Switch!switch)
  <2>1. Rest(p) /\ command[p].step # "rest" /\ edited' = edited BY <1>4 DEF Replace
  <2>2. Switch!Leave(p) BY <2>1, <1>t, RequestEnds DEF Switch!Leave
  <2>3. CASE ~contended
    <3>1. InForce' = Decided(command[p].op, command[p].scope) BY <1>4, <2>3, ReplaceStep
    <3>2. Requests[p] = [op |-> command[p].op, scope |-> command[p].scope]
      BY <2>1, <1>t, Requested
    <3>3. Requests[p].op = command[p].op /\ Requests[p].scope = command[p].scope BY <3>2
    <3>4. InForce' = Switch!Outcome(Requests[p]) BY <3>1, <3>3 DEF Decided, Switch!Outcome
    <3> QED BY <3>4, <2>2, <2>3 DEF Switch!Obey
  <2>4. CASE contended BY <1>g, <2>2, <2>4 DEF Switch!Obey
  <2> QED BY <2>3, <2>4
<1>5. ASSUME NEW p \in Processes, Kill(p) PROVE [Switch!Next]_(Switch!switch)
  <2>1. Rest(p) /\ command[p].step # "rest" /\ edited' = edited BY <1>5 DEF Kill
  <2>2. Switch!Leave(p) BY <2>1, <1>t, RequestEnds DEF Switch!Leave
  <2>3. InForce' = InForce BY <1>5, <1>t, ForceKept DEF Kill
  <2> QED BY <2>2, <2>3 DEF Switch!Drop
<1>6. CASE Damage
  <2>1. InForce' = {} BY <1>6, <1>t DEF Damage, InForce, Readable, Torn, TypeOK
  <2>2. Requests' = Requests BY <1>6 DEF Damage, Requests
  <2>3. contended' = (contended \/ Switch!Asking # {}) /\ edited' = ~edited
    BY <1>6, <1>t, AskingIsBusy DEF Damage
  <2> QED BY <2>1, <2>2, <2>3 DEF Switch!Damage
<1>7. CASE OpenToRead \/ ReadHalts \/ NextEntry \/ UNCHANGED vars
  <2>1. InForce' = InForce /\ contended' = contended /\ edited' = edited
    BY <1>7, <1>t, ForceKept DEF OpenToRead, ReadHalts, NextEntry, vars
  <2>2. Requests' = Requests
    BY <1>7 DEF OpenToRead, ReadHalts, NextEntry, vars, Requests
  <2> QED BY <2>1, <2>2, <1>s
<1> QED BY <1>1, <1>2, <1>3, <1>4, <1>5, <1>6, <1>7 DEF Next, Command

\* Of a command that runs alone the file holds, wherever it is killed, what it
\* held before, until the rename puts in force the one change that was asked for;
\* commands that overlap, and an edit by hand, are the only exceptions.
THEOREM FileIsSwitch == Spec => ChangesWhole
<1>1. ASSUME Init PROVE Switch!Init
  <2>1. \A p \in Processes : command[p].step = "rest" BY <1>1 DEF Init, AtRest
  <2>2. Requests = [p \in Processes |-> Switch!Nothing]
    BY <2>1 DEF Requests, Switch!Nothing
  <2>3. InForce = {} BY <1>1 DEF Init, InForce, Readable
  <2> QED BY <1>1, <2>2, <2>3 DEF Init, Switch!Init
<1>2. IInv /\ [Next]_vars => [Switch!Next]_(Switch!switch) BY SwitchStep
<1> QED BY <1>1, <1>2, Invariance, PTL DEF Spec, ChangesWhole, Switch!Spec

-----------------------------------------------------------------------------
(* The end of a session: the types, the one order a stop may still let       *)
(* through, and by how many blocked seconds the outer bounds are missed      *)
(* before they cut an inner one short.                                       *)

\* Signals the loop has not looked at are among those sent.
CountsInv == CountsOK /\ pending <= signals

TypeInv == StatesOK /\ FlagsOK /\ CountsInv

\* An order sent late was the worker's last: its stream takes no bar while the
\* cancellation is under way, and none once it has arrived.
OrderInv ==
  /\ phase \in {"unwind", "drain", "close"} => stream[Market] # "up"
  /\ \/ late = 0
     \/ late = 1 /\ call = "done" /\ phase \notin {"warmup", "session"}

\* Seconds in which the loop was not blocked are bounded by the timer the phase
\* waits for: the engine's, and then the drain's on top of it.
Unblocked(bound) == clock <= stalled + bound

TimeInv ==
  /\ phase \in {"warmup", "session", "cancel", "unwind"} => Unblocked(ShutdownTimeout)
  /\ phase \in {"drain", "close"} =>
       /\ Unblocked(ShutdownTimeout + TeardownTimeout)
       /\ drainBy <= stalled + ShutdownTimeout + TeardownTimeout
  /\ phase = "join" => ~watchdog
  /\ EngineUnwindsFirst /\ WatchdogSparesLiveLoop

ShutdownInv == TypeInv /\ OrderInv /\ TimeInv

LEMMA InitShutdown == ShutdownInit => ShutdownInv
<1> SUFFICES ASSUME ShutdownInit PROVE ShutdownInv OBVIOUS
<1>1. StatesOK BY DEF ShutdownInit, StatesOK, StreamStates
<1>2. FlagsOK BY DEF ShutdownInit, FlagsOK
<1>3. CountsInv
  BY ShutdownAssumption DEF ShutdownAssumption, ShutdownInit, CountsInv, CountsOK, WatchdogAt
<1>4. OrderInv BY DEF ShutdownInit, OrderInv
<1>5. TimeInv
  BY ShutdownAssumption
  DEF ShutdownAssumption, ShutdownInit, TimeInv, Unblocked, EngineUnwindsFirst, WatchdogSparesLiveLoop
<1> QED BY <1>1, <1>2, <1>3, <1>4, <1>5 DEF ShutdownInv, TypeInv

-----------------------------------------------------------------------------
(* Types *)

\* What cancelling makes of a stream is a state of a stream.
LEMMA CancelledTyped == StatesOK => Cancelled \in [Streams -> StreamStates]
BY DEF StatesOK, StreamStates, Cancelled

LEMMA StatesKept == StatesOK /\ [ShutdownNext]_shutdownVars => StatesOK'
<1> SUFFICES ASSUME StatesOK, [ShutdownNext]_shutdownVars PROVE StatesOK' OBVIOUS
<1> USE CancelledTyped DEF StatesOK, shutdownVars, threads, timers, outcome
<1>1. CASE ThirdParty
  BY <1>1 DEF ThirdParty, WarmedUp, Block, ConnectionFails, Reconnect, StreamEnds,
              StreamCloses, StreamStates
<1>2. CASE Worker BY <1>2 DEF Worker, CallBroker, SendOrder, CallReturns, Resume
<1>3. CASE Signal BY <1>3 DEF Signal, Gone
<1>4. CASE LoopStep
  BY <1>4 DEF LoopStep, SessionEnds, StartReturns, Abandon, BeginDrain, Request,
              RequestTwice, CancelStreams, Drained, CloseLoop, Gone
<1>5. CASE Join \/ Fires BY <1>5 DEF Join, Fires, Gone
<1>6. CASE Tick BY <1>6 DEF Tick
<1>7. CASE UNCHANGED shutdownVars BY <1>7
<1> QED BY <1>1, <1>2, <1>3, <1>4, <1>5, <1>6, <1>7 DEF ShutdownNext

LEMMA FlagsKept == FlagsOK /\ [ShutdownNext]_shutdownVars => FlagsOK'
<1> SUFFICES ASSUME FlagsOK, [ShutdownNext]_shutdownVars PROVE FlagsOK' OBVIOUS
<1> USE DEF FlagsOK, shutdownVars, threads, timers, outcome
<1>1. CASE ThirdParty
  BY <1>1 DEF ThirdParty, WarmedUp, Block, ConnectionFails, Reconnect, StreamEnds, StreamCloses
<1>2. CASE Worker BY <1>2 DEF Worker, CallBroker, SendOrder, CallReturns, Resume
<1>3. CASE Signal BY <1>3 DEF Signal
<1>4. CASE LoopStep
  BY <1>4 DEF LoopStep, SessionEnds, StartReturns, Abandon, Request,
              RequestTwice, CancelStreams, Drained, CloseLoop
<1>5. CASE Join \/ Fires \/ Tick BY <1>5 DEF Join, Fires, Tick
<1>6. CASE UNCHANGED shutdownVars BY <1>6
<1> QED BY <1>1, <1>2, <1>3, <1>4, <1>5, <1>6 DEF ShutdownNext

\* What a drain under way has set the counters to.
LEMMA DrainCounts ==
  ASSUME CountsInv, BeginDrain, UNCHANGED <<late, signals, clock, stalled>>
  PROVE  CountsInv'
BY ShutdownAssumption
DEF ShutdownAssumption, CountsInv, CountsOK, BeginDrain, DrainUntil, WatchdogAt

LEMMA CountsKept == CountsInv /\ [ShutdownNext]_shutdownVars => CountsInv'
<1> SUFFICES ASSUME CountsInv, [ShutdownNext]_shutdownVars PROVE CountsInv' OBVIOUS
<1> USE DEF shutdownVars, threads, timers, outcome
<1>1. ASSUME UNCHANGED <<late, pending, signals, clock, stalled, drainBy>> PROVE CountsInv'
  BY <1>1 DEF CountsInv, CountsOK
<1>2. CASE ThirdParty
  BY <1>1, <1>2 DEF ThirdParty, WarmedUp, Block, ConnectionFails, Reconnect, StreamEnds, StreamCloses
<1>3. CASE Worker
  <2>1. late' \in {late, late + 1} /\ (late' # late => late # 2)
    BY <1>3 DEF Worker, CallBroker, SendOrder, CallReturns, Resume
  <2>2. UNCHANGED <<pending, signals, clock, stalled, drainBy>>
    BY <1>3 DEF Worker, CallBroker, SendOrder, CallReturns, Resume
  <2> QED BY <2>1, <2>2 DEF CountsInv, CountsOK
<1>4. CASE Signal
  <2>1. UNCHANGED <<late, clock, stalled, drainBy>> BY <1>4 DEF Signal
  <2>2. pending' \in {pending, pending + 1} /\ signals < MaxSignals /\ signals' = signals + 1
    BY <1>4 DEF Signal
  <2> QED BY <2>1, <2>2, ShutdownAssumption DEF ShutdownAssumption, CountsInv, CountsOK
<1>5. CASE LoopStep
  <2>1. CASE SessionEnds \/ StartReturns \/ Abandon
    <3>1. BeginDrain /\ UNCHANGED <<late, signals, clock, stalled>>
      BY <2>1 DEF SessionEnds, StartReturns, Abandon
    <3> QED BY <3>1, DrainCounts
  <2>2. CASE Request
    <3>1. UNCHANGED <<late, signals, clock, stalled, drainBy>> /\ pending' = 0 BY <2>2 DEF Request
    <3> QED BY <3>1, ShutdownAssumption DEF ShutdownAssumption, CountsInv, CountsOK
  <2>3. CASE RequestTwice \/ CancelStreams \/ Drained \/ CloseLoop
    BY <1>1, <2>3 DEF RequestTwice, CancelStreams, Drained, CloseLoop
  <2> QED BY <1>5, <2>1, <2>2, <2>3 DEF LoopStep
<1>6. CASE Join \/ Fires BY <1>1, <1>6 DEF Join, Fires
<1>7. CASE Tick
  <2>1. UNCHANGED <<late, pending, signals, drainBy>> /\ clock < WatchdogAt /\ clock' = clock + 1
    BY <1>7 DEF Tick
  <2>2. stalled' \in {stalled, stalled + 1} BY <1>7 DEF Tick
  <2> QED
    BY <2>1, <2>2, ShutdownAssumption DEF ShutdownAssumption, CountsInv, CountsOK, WatchdogAt
<1>8. CASE UNCHANGED shutdownVars BY <1>1, <1>8
<1> QED BY <1>2, <1>3, <1>4, <1>5, <1>6, <1>7, <1>8 DEF ShutdownNext

LEMMA TypesKept == TypeInv /\ [ShutdownNext]_shutdownVars => TypeInv'
BY StatesKept, FlagsKept, CountsKept DEF TypeInv

\* The session's state is always of its types, however many signals are sent.
THEOREM ShutdownTypeCorrect == ShutdownSpec => []ShutdownTypeOK
<1>1. ShutdownInit => TypeInv BY InitShutdown DEF ShutdownInv
<1>2. TypeInv => ShutdownTypeOK BY DEF TypeInv, ShutdownTypeOK, CountsInv
<1> QED BY <1>1, <1>2, TypesKept, PTL DEF ShutdownSpec

-----------------------------------------------------------------------------
(* Orders after the stop *)

LEMMA OrderKept == StatesOK /\ OrderInv /\ [ShutdownNext]_shutdownVars => OrderInv'
<1> SUFFICES ASSUME StatesOK, OrderInv, [ShutdownNext]_shutdownVars PROVE OrderInv' OBVIOUS
<1> USE DEF shutdownVars, threads, timers, outcome
<1>c. Cancelled[Market] # "up"
  BY ShutdownAssumption DEF ShutdownAssumption, Cancelled, StatesOK, StreamStates
<1>1. CASE ThirdParty
  <2>1. CASE WarmedUp BY <2>1 DEF WarmedUp, OrderInv
  <2>2. CASE Block BY <2>2 DEF Block, OrderInv
  <2>3. ASSUME NEW s \in Streams, ConnectionFails(s) \/ Reconnect(s) \/ StreamEnds(s) \/ StreamCloses(s)
        PROVE  OrderInv'
    BY <2>3, ShutdownAssumption
    DEF ShutdownAssumption, ConnectionFails, Reconnect, StreamEnds, StreamCloses, OrderInv, StatesOK
  <2> QED BY <1>1, <2>1, <2>2, <2>3 DEF ThirdParty
<1>2. CASE Worker
  <2>1. CASE CallBroker BY <2>1 DEF CallBroker, OrderInv
  <2>2. CASE SendOrder BY <2>2 DEF SendOrder, OrderInv
  <2>3. CASE CallReturns BY <2>3 DEF CallReturns, OrderInv
  <2>4. CASE Resume
    <3>1. phase = "session" BY <2>4 DEF Resume, LoopRuns, LoopAlive, OrderInv
    <3> QED BY <2>4, <3>1 DEF Resume, OrderInv
  <2> QED BY <1>2, <2>1, <2>2, <2>3, <2>4 DEF Worker
<1>3. CASE Signal BY <1>3 DEF Signal, Gone, OrderInv
<1>4. CASE LoopStep
  <2>1. CASE SessionEnds \/ StartReturns \/ Abandon
    BY <2>1, <1>c DEF SessionEnds, StartReturns, Abandon, BeginDrain, OrderInv
  <2>2. CASE CancelStreams BY <2>2, <1>c DEF CancelStreams, OrderInv
  <2>3. CASE Request \/ RequestTwice BY <2>3 DEF Request, RequestTwice, Gone, OrderInv
  <2>4. CASE Drained \/ CloseLoop BY <2>4 DEF Drained, CloseLoop, OrderInv
  <2> QED BY <1>4, <2>1, <2>2, <2>3, <2>4 DEF LoopStep
<1>5. CASE Join \/ Fires BY <1>5 DEF Join, Fires, Gone, OrderInv
<1>6. CASE Tick BY <1>6 DEF Tick, OrderInv
<1>7. CASE UNCHANGED shutdownVars BY <1>7 DEF OrderInv
<1> QED BY <1>1, <1>2, <1>3, <1>4, <1>5, <1>6, <1>7 DEF ShutdownNext

\* Whatever the streams go on delivering and whichever stage of the stop the
\* worker's call outlasts, at most one order follows the request to stop.
THEOREM AtMostOneLateOrder == ShutdownSpec => []OneOrderAfterStop
<1>1. ShutdownInit => TypeInv /\ OrderInv BY InitShutdown DEF ShutdownInv
<1>2. TypeInv /\ OrderInv /\ [ShutdownNext]_shutdownVars => (TypeInv /\ OrderInv)'
  BY TypesKept, OrderKept DEF TypeInv
<1>3. OrderInv => OneOrderAfterStop BY DEF OrderInv, OneOrderAfterStop
<1> QED BY <1>1, <1>2, <1>3, PTL DEF ShutdownSpec

-----------------------------------------------------------------------------
(* The bounds, in order *)

\* A step that moves neither the clock nor the phase's bound keeps every bound,
\* unless it is one that abandons the session or kills the process.
LEMMA BoundsUntouched ==
  ASSUME TimeInv, UNCHANGED <<clock, stalled, drainBy>>,
         phase' = "gone" \/ phase' = phase \/ (phase' = "session" /\ phase = "warmup")
           \/ (phase' = "cancel" /\ phase = "session") \/ (phase' = "unwind" /\ phase = "cancel")
           \/ (phase' = "close" /\ phase = "drain"),
         phase # "session" => watchdog' = watchdog,
         abandoned' = abandoned, exit' = exit \/ exit' # "watchdog"
  PROVE  TimeInv'
BY DEF TimeInv, Unblocked, EngineUnwindsFirst, WatchdogSparesLiveLoop

\* A drain begun within the engine's bound ends within the engine's and its own.
LEMMA DrainBounds ==
  ASSUME CountsInv, TimeInv, BeginDrain, phase \in {"warmup", "session", "unwind"},
         UNCHANGED <<clock, stalled, exit>>, EngineUnwindsFirst'
  PROVE  TimeInv'
<1>1. Unblocked(ShutdownTimeout) BY DEF TimeInv
<1>2. /\ clock' <= stalled' + (ShutdownTimeout + TeardownTimeout)
      /\ drainBy' <= stalled' + ShutdownTimeout + TeardownTimeout
  BY <1>1, ShutdownAssumption
  DEF ShutdownAssumption, Unblocked, BeginDrain, DrainUntil, CountsInv, CountsOK, WatchdogAt
<1> QED BY <1>2 DEF BeginDrain, TimeInv, Unblocked, WatchdogSparesLiveLoop

LEMMA TimeKept == TypeInv /\ TimeInv /\ [ShutdownNext]_shutdownVars => TimeInv'
<1> SUFFICES ASSUME TypeInv, TimeInv, [ShutdownNext]_shutdownVars PROVE TimeInv' OBVIOUS
<1> USE DEF shutdownVars, threads, timers, outcome
<1>c. /\ clock \in Nat /\ stalled \in Nat /\ drainBy \in Nat
      /\ ShutdownTimeout \in Nat /\ TeardownTimeout \in Nat /\ HardExitGrace \in Nat
  BY ShutdownAssumption DEF ShutdownAssumption, TypeInv, CountsInv, CountsOK, WatchdogAt
<1>1. CASE ThirdParty
  BY <1>1, BoundsUntouched
  DEF ThirdParty, WarmedUp, Block, ConnectionFails, Reconnect, StreamEnds, StreamCloses
<1>2. CASE Worker BY <1>2, BoundsUntouched DEF Worker, CallBroker, SendOrder, CallReturns, Resume
<1>3. CASE Signal BY <1>3, BoundsUntouched DEF Signal, Gone
<1>4. CASE LoopStep
  <2>1. CASE SessionEnds \/ StartReturns
    <3>1. EngineUnwindsFirst'
      BY <2>1 DEF SessionEnds, StartReturns, TimeInv, EngineUnwindsFirst
    <3>2. BeginDrain /\ phase \in {"warmup", "session", "unwind"} /\ UNCHANGED <<clock, stalled, exit>>
      BY <2>1 DEF SessionEnds, StartReturns
    <3> QED BY <3>1, <3>2, DrainBounds DEF TypeInv
  <2>2. CASE Abandon
    <3>1. clock <= stalled + ShutdownTimeout /\ clock >= TeardownTimeout /\ stalled' = stalled
      BY <2>2 DEF Abandon, TimeInv, Unblocked
    <3>2. stalled' >= TeardownTimeout - ShutdownTimeout BY <3>1, <1>c
    <3>3. BeginDrain /\ phase \in {"warmup", "session", "unwind"} /\ UNCHANGED <<clock, stalled, exit>>
      BY <2>2 DEF Abandon
    <3> QED BY <3>2, <3>3, DrainBounds DEF TypeInv, EngineUnwindsFirst
  <2>3. CASE Request BY <2>3, BoundsUntouched DEF Request
  <2>4. CASE RequestTwice BY <2>4, BoundsUntouched DEF RequestTwice, Gone
  <2>5. CASE CancelStreams \/ Drained BY <2>5, BoundsUntouched DEF CancelStreams, Drained
  <2>6. CASE CloseLoop
    BY <2>6 DEF CloseLoop, TimeInv, EngineUnwindsFirst, WatchdogSparesLiveLoop
  <2> QED BY <1>4, <2>1, <2>2, <2>3, <2>4, <2>5, <2>6 DEF LoopStep
<1>5. CASE Join BY <1>5, BoundsUntouched DEF Join, Gone
<1>6. CASE Fires
  <2>1. phase \in {"warmup", "session", "cancel", "unwind", "drain", "close"}
    BY <1>6 DEF Fires, TimeInv, TypeInv, StatesOK
  <2>2. clock <= stalled + ShutdownTimeout \/ clock <= stalled + (ShutdownTimeout + TeardownTimeout)
    BY <2>1 DEF TimeInv, Unblocked
  <2>3. clock >= TeardownTimeout + HardExitGrace /\ UNCHANGED <<clock, stalled, abandoned>> /\ phase' = "gone"
    BY <1>6 DEF Fires, WatchdogAt, Gone
  <2>4. stalled' >= HardExitGrace - ShutdownTimeout BY <1>c, <2>2, <2>3
  <2> QED BY <2>3, <2>4 DEF TimeInv, EngineUnwindsFirst, WatchdogSparesLiveLoop
<1>7. CASE Tick
  <2>1. /\ clock' = clock + 1 /\ stalled' \in {stalled, stalled + 1}
        /\ UNCHANGED <<phase, drainBy, abandoned, exit>>
        /\ phase \in {"cancel", "unwind", "drain", "close"}
    BY <1>7 DEF Tick
  <2>2. /\ EngineUnwindsFirst' /\ WatchdogSparesLiveLoop'
        /\ phase' # "join" /\ phase' # "warmup" /\ phase' # "session"
    BY <1>c, <2>1 DEF TimeInv, EngineUnwindsFirst, WatchdogSparesLiveLoop
  <2>3. CASE stalled' = stalled + 1
    BY <1>c, <2>1, <2>2, <2>3 DEF TimeInv, Unblocked
  <2>4. CASE stalled' = stalled
    <3>1. NothingDue BY <1>c, <1>7, <2>4 DEF Tick
    <3> QED BY <1>c, <2>1, <2>2, <2>4, <3>1 DEF NothingDue, EngineBound, TimeInv, Unblocked
  <2> QED BY <2>1, <2>3, <2>4
<1>8. CASE UNCHANGED shutdownVars BY <1>8, BoundsUntouched
<1> QED BY <1>1, <1>2, <1>3, <1>4, <1>5, <1>6, <1>7, <1>8 DEF ShutdownNext

\* For any timeouts in the order the code gives them, the session is abandoned
\* only if the loop was blocked for the difference of the teardown's and the
\* engine's.
THEOREM AbandonedOnlyWhenBlocked == ShutdownSpec => []EngineUnwindsFirst
<1>1. ShutdownInit => TypeInv /\ TimeInv BY InitShutdown DEF ShutdownInv
<1>2. TypeInv /\ TimeInv /\ [ShutdownNext]_shutdownVars => (TypeInv /\ TimeInv)' BY TypesKept, TimeKept
<1>3. TimeInv => EngineUnwindsFirst BY DEF TimeInv
<1> QED BY <1>1, <1>2, <1>3, PTL DEF ShutdownSpec

\* And the watchdog kills only a process whose loop was blocked for the grace it
\* is given, less what the engine may take.
THEOREM KilledOnlyWhenBlocked == ShutdownSpec => []WatchdogSparesLiveLoop
<1>1. ShutdownInit => TypeInv /\ TimeInv BY InitShutdown DEF ShutdownInv
<1>2. TypeInv /\ TimeInv /\ [ShutdownNext]_shutdownVars => (TypeInv /\ TimeInv)' BY TypesKept, TimeKept
<1>3. TimeInv => WatchdogSparesLiveLoop BY DEF TimeInv
<1> QED BY <1>1, <1>2, <1>3, PTL DEF ShutdownSpec
=============================================================================
