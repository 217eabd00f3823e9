--------------------------- MODULE ProcessProofs ---------------------------
(***************************************************************************)
(* Proofs about the modules with processes of their own: UucpLock, for any *)
(* number of processes; RunCmd, for any calls that fail, any number of     *)
(* commands and any number of signals; FfwdSrv, for any finite sets of     *)
(* clients and any number of connections and messages.                     *)
(***************************************************************************)
EXTENDS UucpLock, RunCmd, FfwdSrv, LeastElement, SequenceTheorems, FiniteSetTheorems

(* UucpLock.                                                               *)
Place == {"off", "read", "stale", "create", "write", "using", "refused", "leaving", "gone"}

LockTypeOK == /\ file \in FileType
              /\ pc \in [Proc -> Place]
              /\ named \in [Proc -> BOOLEAN]
              /\ overlap \in BOOLEAN /\ torn \in BOOLEAN

(* The process that made the file is beyond making it.                     *)
MakerPassed == file.there /\ file.by \in Proc =>
                 pc[file.by] \notin {"off", "read", "stale", "create"}

(* An empty file is still to be written, or never will be.                 *)
EmptyIsTorn == file.there /\ ~file.full =>
                 file.by \in Proc /\ (pc[file.by] = "write" \/ torn)

(* Who has the lock made the file that is there.                           *)
HolderMadeIt == ~overlap => \A p \in Proc : Holds(p) => file.there /\ file.by = p

(* What a process that found a stale file will remove is nobody's.         *)
StaleIsStale == ~overlap => \A p \in Proc : pc[p] = "stale" => ~file.there \/ ~Live(file.by)

(* A process has no name before it starts, nor when it got no lock.        *)
Unnamed == \A p \in Proc : pc[p] \in {"off", "refused"} => ~named[p]

LockInv == LockTypeOK /\ Unnamed /\ MakerPassed /\ EmptyIsTorn /\ HolderMadeIt /\ StaleIsStale

-----------------------------------------------------------------------------
LEMMA LockStarts == Init => LockInv
<1> SUFFICES ASSUME Init PROVE LockInv
  OBVIOUS
<1> USE LockAssumption DEF Init, NoFile
<1>1. LockTypeOK
  <2>1. file \in FileType
    <3>1. Old \in Proc \cup {Old} /\ TRUE \in BOOLEAN /\ FALSE \in BOOLEAN
      OBVIOUS
    <3>2. CASE file = [by |-> Old, full |-> FALSE, there |-> FALSE]
      BY <3>1, <3>2, Zenon DEF FileType
    <3>3. CASE file = [by |-> Old, full |-> TRUE, there |-> TRUE]
      BY <3>1, <3>3, Zenon DEF FileType
    <3> QED
      BY <3>2, <3>3
  <2>2. pc \in [Proc -> Place]
    BY DEF Place
  <2>3. named \in [Proc -> BOOLEAN] /\ overlap \in BOOLEAN /\ torn \in BOOLEAN
    OBVIOUS
  <2> QED
    BY <2>1, <2>2, <2>3 DEF LockTypeOK
<1>2. Unnamed /\ MakerPassed /\ EmptyIsTorn
  BY DEF Unnamed, MakerPassed, EmptyIsTorn
<1>3. HolderMadeIt /\ StaleIsStale
  BY DEF HolderMadeIt, StaleIsStale, Holds
<1> QED
  BY <1>1, <1>2, <1>3 DEF LockInv

LEMMA LockStep == LockInv /\ [Next]_vars => LockInv'
<1> SUFFICES ASSUME LockInv, [Next]_vars PROVE LockInv'
  OBVIOUS
<1> USE LockAssumption DEF LockInv, LockTypeOK, FileType, Go
<1>1. ASSUME NEW p \in Proc, Start(p) PROVE LockInv'
  <2> USE <1>1 DEF Start, Unnamed
  <2>1. LockTypeOK'
    BY DEF Place
  <2>2. Unnamed' /\ MakerPassed' /\ EmptyIsTorn'
    BY DEF Unnamed, MakerPassed, EmptyIsTorn
  <2>3. HolderMadeIt'
    BY DEF HolderMadeIt, Holds
  <2>4. StaleIsStale'
    BY DEF StaleIsStale, Live, MakerPassed
  <2> QED
    BY <2>1, <2>2, <2>3, <2>4
<1>2. ASSUME NEW p \in Proc, Read(p) PROVE LockInv'
  <2> USE <1>2 DEF Read, Refuse, Forgets, Answers
  <2>1. LockTypeOK'
    BY DEF Place
  <2>2. Unnamed' /\ MakerPassed' /\ EmptyIsTorn'
    BY DEF Unnamed, MakerPassed, EmptyIsTorn
  <2>3. HolderMadeIt'
    BY DEF HolderMadeIt, Holds
  <2>4. StaleIsStale'
    BY DEF StaleIsStale, Live, MakerPassed
  <2> QED
    BY <2>1, <2>2, <2>3, <2>4
<1>3. ASSUME NEW p \in Proc, Remove(p) PROVE LockInv'
  <2> USE <1>3 DEF Remove, NoFile
  <2>1. LockTypeOK'
    BY DEF Place
  <2>2. Unnamed' /\ MakerPassed' /\ EmptyIsTorn'
    BY DEF Unnamed, MakerPassed, EmptyIsTorn
  <2>3. HolderMadeIt'
    \* A holder's file is not stale, so that p would not remove it.
    BY DEF HolderMadeIt, StaleIsStale, Holds, Live
  <2>4. StaleIsStale'
    BY DEF StaleIsStale
  <2> QED
    BY <2>1, <2>2, <2>3, <2>4
<1>4. ASSUME NEW p \in Proc, Create(p) PROVE LockInv'
  <2>1. CASE file.there
    <3> USE <1>4, <2>1 DEF Create, Refuse, Forgets
    <3>1. LockTypeOK'
      BY DEF Place
    <3>2. Unnamed' /\ MakerPassed' /\ EmptyIsTorn'
      BY DEF Unnamed, MakerPassed, EmptyIsTorn
    <3>3. HolderMadeIt'
      BY DEF HolderMadeIt, Holds
    <3>4. StaleIsStale'
      BY DEF StaleIsStale, Live
    <3> QED
      BY <3>1, <3>2, <3>3, <3>4
  <2>2. CASE ~file.there
    <3> USE <1>4, <2>2 DEF Create
    <3>1. LockTypeOK'
      <4>1. file' \in FileType
        <5>1. file' = [by |-> p, full |-> FALSE, there |-> TRUE]
          OBVIOUS
        <5>2. p \in Proc \cup {Old} /\ TRUE \in BOOLEAN /\ FALSE \in BOOLEAN
          OBVIOUS
        <5> QED
          BY <5>1, <5>2, Zenon DEF FileType
      <4>2. pc' \in [Proc -> Place] /\ named' \in [Proc -> BOOLEAN]
        BY DEF Place
      <4>3. overlap' \in BOOLEAN /\ torn' \in BOOLEAN
        OBVIOUS
      <4> QED
        BY <4>1, <4>2, <4>3
    <3>2. Unnamed' /\ MakerPassed' /\ EmptyIsTorn'
      BY DEF Unnamed, MakerPassed, EmptyIsTorn
    <3>3. HolderMadeIt'
      \* Nobody else holds, since there is no file.
      BY DEF HolderMadeIt, Holds
    <3>4. StaleIsStale'
      BY DEF StaleIsStale
    <3> QED
      BY <3>1, <3>2, <3>3, <3>4
  <2> QED
    BY <2>1, <2>2
<1>5. ASSUME NEW p \in Proc, Write(p) PROVE LockInv'
  <2> USE <1>5 DEF Write
  <2>1. LockTypeOK'
    BY DEF Place
  <2>2. Unnamed' /\ MakerPassed'
    BY DEF Unnamed, MakerPassed
  <2>3. EmptyIsTorn'
    BY DEF EmptyIsTorn
  <2>4. HolderMadeIt'
    BY DEF HolderMadeIt, Holds
  <2>5. StaleIsStale'
    BY DEF StaleIsStale, Live
  <2> QED
    BY <2>1, <2>2, <2>3, <2>4, <2>5
<1>6. ASSUME NEW p \in Proc, Leave(p) PROVE LockInv'
  <2> USE <1>6 DEF Leave, NoFile
  <2>1. LockTypeOK'
    BY DEF Place
  <2>2. Unnamed' /\ MakerPassed' /\ EmptyIsTorn'
    BY DEF Unnamed, MakerPassed, EmptyIsTorn
  <2>3. HolderMadeIt'
    \* If p removes a file it is the one that p made.
    BY DEF HolderMadeIt, Holds, Unnamed
  <2>4. StaleIsStale'
    BY DEF StaleIsStale, Live
  <2> QED
    BY <2>1, <2>2, <2>3, <2>4
<1>7. ASSUME NEW p \in Proc, Exit(p) PROVE LockInv'
  <2> USE <1>7 DEF Exit
  <2>1. LockTypeOK'
    BY DEF Place
  <2>2. Unnamed' /\ MakerPassed' /\ EmptyIsTorn'
    BY DEF Unnamed, MakerPassed, EmptyIsTorn
  <2>3. HolderMadeIt'
    BY DEF HolderMadeIt, Holds
  <2>4. StaleIsStale'
    BY DEF StaleIsStale, Live
  <2> QED
    BY <2>1, <2>2, <2>3, <2>4
<1>8. ASSUME NEW p \in Proc, Killed(p) PROVE LockInv'
  <2> USE <1>8 DEF Killed, Live
  <2>1. LockTypeOK'
    BY DEF Place
  <2>2. Unnamed' /\ MakerPassed' /\ EmptyIsTorn'
    BY DEF Unnamed, MakerPassed, EmptyIsTorn
  <2>3. HolderMadeIt'
    BY DEF HolderMadeIt, Holds
  <2>4. StaleIsStale'
    BY DEF StaleIsStale
  <2> QED
    BY <2>1, <2>2, <2>3, <2>4
<1>9. CASE UNCHANGED vars
  BY <1>9 DEF vars, Unnamed, MakerPassed, EmptyIsTorn, HolderMadeIt, StaleIsStale, Holds, Live
<1> QED
  BY <1>1, <1>2, <1>3, <1>4, <1>5, <1>6, <1>7, <1>8, <1>9 DEF Next

LEMMA LockAlways == Spec => []LockInv
BY LockStarts, LockStep, PTL DEF Spec

-----------------------------------------------------------------------------
(* However many ppcom processes want the port, at most one has the lock    *)
(* that uucp_lock() made, but for the two races that "overlap" names.      *)
THEOREM AtMostOneHolder == Spec => []OneHolder
<1>1. LockInv => OneHolder
  BY DEF LockInv, HolderMadeIt, OneHolder
<1> QED
  BY <1>1, LockAlways, PTL

(* A ppcom that is alone is refused only over an empty lock file, which    *)
(* uucp_lock() was killed before it wrote, or failed to write.             *)
THEOREM LoneProcessLocks == Spec => LeftLockIsTaken
<1>1. ASSUME LockInv, [Next]_vars,
             NEW p \in Proc, pc[p] = "read", pc'[p] = "refused", \A q \in Proc \ {p} : ~Live(q)
      PROVE  torn
  <2>1. Read(p)
    <3>1. PICK q \in Proc : \/ Start(q) \/ Read(q) \/ Remove(q) \/ Create(q)
                            \/ Write(q) \/ Leave(q) \/ Exit(q) \/ Killed(q)
      BY <1>1 DEF Next, vars
    <3>2. pc[q] # pc'[q] \/ q # p
      BY <1>1
    <3>3. q = p
      BY <1>1, <3>1 DEF LockInv, LockTypeOK, Start, Read, Remove, Create, Write, Leave, Exit,
        Killed, Go, Refuse
    <3> QED
      BY <1>1, <3>1, <3>3 DEF LockInv, LockTypeOK, Start, Remove, Create, Write, Leave, Exit,
        Killed, Go, Refuse
  <2>2. file.there /\ (file.full => Answers(file.by))
    BY <1>1, <2>1 DEF Read, Go, LockInv, LockTypeOK
  <2>3. ~file.full
    \* The file of a live process would be that of p, which is about to read it.
    BY <1>1, <2>2 DEF Answers, Live, LockInv, MakerPassed
  <2> QED
    BY <1>1, <2>2, <2>3 DEF LockInv, EmptyIsTorn, Live
<1>2. LockInv /\ [Next]_vars =>
        [\A p \in Proc : pc[p] = "read" /\ pc'[p] = "refused" /\ (\A q \in Proc \ {p} : ~Live(q))
           => torn]_vars
  BY <1>1
<1> QED
  BY <1>2, LockAlways, PTL DEF Spec, LeftLockIsTaken

-----------------------------------------------------------------------------
(* RunCmd.                                                                 *)
PPlace == {"ready", "block", "fork", "forkless", "unblock", "wait", "apply", "enable", "back"}
CPlace == {"none", "remove", "erase", "wire", "parse", "handlers", "unmask", "exec", "program",
           "exit", "ended"}
Act == {"handler", "ignore", "default"}

RunTypeOK == /\ main \in PPlace /\ at \in CPlace
             /\ disp \in [Who -> [Sig -> Act]] /\ old \in Act
             /\ mask \in [Who -> SUBSET Sig] /\ pending \in [Who -> SUBSET Sig]

(* There is a child from fork() until it has been waited for.              *)
ChildInv == at # "none" <=> main \in {"unblock", "wait"}

(* The signals of ppcom: what is blocked, handled and kept in old_action.  *)
SignalInv == /\ mask["ppcom"] = IF main \in {"fork", "forkless", "unblock"} THEN Sig ELSE {}
             /\ disp["ppcom"]["TERM"] = "handler"
             /\ main \in {"ready", "back"} => disp["ppcom"]["INT"] = "handler" \/ "fork" \in blame
             /\ main \notin {"ready", "back"} => old = "handler" \/ "fork" \in blame
             /\ main = "forkless" => "fork" \in blame

(* The user's terminal is raw where there is no child to change it.        *)
TerminalInv == main \notin {"unblock", "wait", "apply"} => sti = "raw" \/ "setattr" \in blame

(* The port is only ever changed by the program.                           *)
PortInv == port = "ppcom" \/ "program" \in blame

(* What the child has done on its way, by the place it has reached.        *)
WayInv == /\ at = "remove" => table \subseteq {"STI", "port"}
          /\ at = "erase" => table \subseteq {"port"}
          /\ at \in {"wire", "parse", "handlers", "unmask", "exec", "exit"} => table = {}
          /\ at \in {"parse", "handlers", "unmask", "exec"} => wired
          /\ at \in {"erase", "wire", "parse", "handlers", "unmask", "exec"} =>
               sti = "found" \/ "setattr" \in blame
          /\ at \in {"unmask", "exec"} => \A s \in Sig : disp["child"][s] = "default"
          /\ at = "exec" => mask["child"] = {} /\ pending["child"] = {}

RunInv == RunTypeOK /\ ChildInv /\ SignalInv /\ TerminalInv /\ PortInv /\ WayInv

-----------------------------------------------------------------------------
(* What the delivery of signals does, whichever they are.                  *)
LEMMA DeliverWhere ==
  ASSUME NEW hit, NEW m, NEW kept, NEW next, Deliver(hit, m, kept, next)
  PROVE  at' \in {next, "ended"}
BY DEF Deliver

LEMMA DeliverNobody ==
  ASSUME NEW hit, NEW m, NEW kept, NEW next, Deliver(hit, m, kept, next),
         at = "none", \A x \in hit : x[1] # "child"
  PROVE  at' = next
BY DEF Deliver, Alive

LEMMA DeliverKept ==
  ASSUME NEW hit, NEW m \in [Who -> SUBSET Sig], NEW kept \in [Who -> SUBSET Sig], NEW next,
         Deliver(hit, m, kept, next)
  PROVE  /\ pending' \in [Who -> SUBSET Sig]
         /\ m["child"] = {} => pending'["child"] = kept["child"]
<1> DEFINE handled == \E x \in {h \in hit : h[2] \notin m[h[1]]} :
                        x[1] = "ppcom" /\ disp["ppcom"][x[2]] = "handler"
           all == hit \cup (IF handled /\ ~sig_exit /\ Alive("child") THEN {<<"child", "TERM">>} ELSE {})
<1>1. pending' = [w \in Who |-> kept[w] \cup
                   {s \in Sig : <<w, s>> \in all \ {x \in all : x[2] \notin m[x[1]]}}]
  BY DEF Deliver
<1> HIDE DEF all
<1>2. pending' \in [Who -> SUBSET Sig]
  BY <1>1
<1>3. ASSUME m["child"] = {} PROVE pending'["child"] = kept["child"]
  BY <1>1, <1>3 DEF Who
<1> QED
  BY <1>2, <1>3

-----------------------------------------------------------------------------
(* Every step keeps the invariant.                                         *)
LEMMA RunStarts == RunInit => RunInv
BY DEF RunInit, RunInv, RunTypeOK, PPlace, CPlace, Act, Who, Sig, ChildInv, SignalInv, TerminalInv,
  PortInv, WayInv

LEMMA IgnoreIntStep == ASSUME RunInv, IgnoreInt PROVE RunInv'
<1> USE DEF RunInv, RunTypeOK, Who, Sig
<1>1. RunTypeOK'
  BY DEF IgnoreInt, SetAction, Child, RunTypeOK, PPlace, CPlace, Act
<1>2. ChildInv'
  BY DEF IgnoreInt, SetAction, Child, ChildInv
<1>3. SignalInv'
  BY DEF IgnoreInt, SetAction, Child, SignalInv
<1>4. TerminalInv'
  BY DEF IgnoreInt, SetAction, Child, TerminalInv, SignalInv
<1>5. PortInv'
  BY DEF IgnoreInt, SetAction, Child, PortInv
<1>6. WayInv'
  BY DEF IgnoreInt, SetAction, Child, WayInv, ChildInv
<1> QED
  BY <1>1, <1>2, <1>3, <1>4, <1>5, <1>6

LEMMA ForkStep == ASSUME RunInv, Fork PROVE RunInv'
<1> USE DEF RunInv, RunTypeOK, Who, Sig
<1>1. RunTypeOK'
  BY DEF Fork, MayFail, NoSignal, Child, Others, RunTypeOK, PPlace, CPlace, Act
<1>2. ChildInv'
  BY DEF Fork, MayFail, NoSignal, Child, Others, ChildInv
<1>3. SignalInv'
  BY DEF Fork, MayFail, NoSignal, Child, Others, SignalInv
<1>4. TerminalInv'
  BY DEF Fork, MayFail, NoSignal, Child, Others, TerminalInv
<1>5. PortInv'
  BY DEF Fork, MayFail, NoSignal, Child, Others, PortInv
<1>6. WayInv'
  BY DEF Fork, MayFail, NoSignal, Child, Others, WayInv
<1> QED
  BY <1>1, <1>2, <1>3, <1>4, <1>5, <1>6

LEMMA WaitStep == ASSUME RunInv, Wait PROVE RunInv'
<1> USE DEF RunInv, RunTypeOK, Who, Sig
<1>1. RunTypeOK'
  BY DEF Wait, NoSignal, Child, Others, RunTypeOK, PPlace, CPlace, Act
<1>2. ChildInv'
  BY DEF Wait, NoSignal, Child, Others, ChildInv
<1>3. SignalInv'
  BY DEF Wait, NoSignal, Child, Others, SignalInv
<1>4. TerminalInv'
  BY DEF Wait, NoSignal, Child, Others, TerminalInv
<1>5. PortInv'
  BY DEF Wait, NoSignal, Child, Others, PortInv
<1>6. WayInv'
  BY DEF Wait, NoSignal, Child, Others, WayInv
<1> QED
  BY <1>1, <1>2, <1>3, <1>4, <1>5, <1>6

LEMMA ApplyStep == ASSUME RunInv, Apply PROVE RunInv'
<1> USE DEF RunInv, RunTypeOK, Who, Sig
<1>1. RunTypeOK'
  BY DEF Apply, MayFail, NoSignal, Child, Others, RunTypeOK, PPlace, CPlace, Act
<1>2. ChildInv'
  BY DEF Apply, MayFail, NoSignal, Child, Others, ChildInv
<1>3. SignalInv'
  BY DEF Apply, MayFail, NoSignal, Child, Others, SignalInv
<1>4. TerminalInv'
  BY DEF Apply, MayFail, NoSignal, Child, Others, TerminalInv
<1>5. PortInv'
  BY DEF Apply, MayFail, NoSignal, Child, Others, PortInv
<1>6. WayInv'
  BY DEF Apply, MayFail, NoSignal, Child, Others, WayInv, ChildInv
<1> QED
  BY <1>1, <1>2, <1>3, <1>4, <1>5, <1>6

LEMMA EnableStep == ASSUME RunInv, EnableInt PROVE RunInv'
<1> USE DEF RunInv, RunTypeOK, Who, Sig
<1>1. RunTypeOK'
  BY DEF EnableInt, SetAction, Child, Others, RunTypeOK, PPlace, CPlace, Act
<1>2. ChildInv'
  BY DEF EnableInt, SetAction, Child, Others, ChildInv
<1>3. SignalInv'
  BY DEF EnableInt, SetAction, Child, Others, SignalInv
<1>4. TerminalInv'
  BY DEF EnableInt, SetAction, Child, Others, TerminalInv
<1>5. PortInv'
  BY DEF EnableInt, SetAction, Child, Others, PortInv
<1>6. WayInv'
  BY DEF EnableInt, SetAction, Child, Others, WayInv, ChildInv
<1> QED
  BY <1>1, <1>2, <1>3, <1>4, <1>5, <1>6

LEMMA AgainStep == ASSUME RunInv, Again PROVE RunInv'
<1> USE DEF RunInv, RunTypeOK, Who, Sig
<1>1. RunTypeOK'
  BY DEF Again, NoSignal, Child, Others, RunTypeOK, PPlace, CPlace, Act
<1>2. ChildInv'
  BY DEF Again, NoSignal, Child, Others, ChildInv
<1>3. SignalInv'
  BY DEF Again, NoSignal, Child, Others, SignalInv
<1>4. TerminalInv'
  BY DEF Again, NoSignal, Child, Others, TerminalInv
<1>5. PortInv'
  BY DEF Again, NoSignal, Child, Others, PortInv
<1>6. WayInv'
  BY DEF Again, NoSignal, Child, Others, WayInv
<1> QED
  BY <1>1, <1>2, <1>3, <1>4, <1>5, <1>6

LEMMA RemoveStep == ASSUME RunInv, RemoveTerminal PROVE RunInv'
<1> USE DEF RunInv, RunTypeOK, Who, Sig
<1>1. RunTypeOK'
  BY DEF RemoveTerminal, Goes, MayFail, NoSignal, Child, Others, RunTypeOK, PPlace, CPlace, Act
<1>2. ChildInv'
  BY DEF RemoveTerminal, Goes, MayFail, NoSignal, Child, Others, ChildInv
<1>3. SignalInv'
  BY DEF RemoveTerminal, Goes, MayFail, NoSignal, Child, Others, SignalInv
<1>4. TerminalInv'
  BY DEF RemoveTerminal, Goes, MayFail, NoSignal, Child, Others, TerminalInv, ChildInv
<1>5. PortInv'
  BY DEF RemoveTerminal, Goes, MayFail, NoSignal, Child, Others, PortInv, WayInv
<1>6. WayInv'
  BY DEF RemoveTerminal, Goes, MayFail, NoSignal, Child, Others, WayInv
<1> QED
  BY <1>1, <1>2, <1>3, <1>4, <1>5, <1>6

LEMMA EraseStep == ASSUME RunInv, ErasePort PROVE RunInv'
<1> USE DEF RunInv, RunTypeOK, Who, Sig
<1>1. RunTypeOK'
  BY DEF ErasePort, Erased, Goes, MayFail, NoSignal, Child, Others, RunTypeOK, PPlace, CPlace, Act
<1>2. ChildInv'
  BY DEF ErasePort, Erased, Goes, MayFail, NoSignal, Child, Others, ChildInv
<1>3. SignalInv'
  BY DEF ErasePort, Erased, Goes, MayFail, NoSignal, Child, Others, SignalInv
<1>4. TerminalInv'
  BY DEF ErasePort, Erased, Goes, MayFail, NoSignal, Child, Others, TerminalInv, ChildInv
<1>5. PortInv'
  BY DEF ErasePort, Erased, Goes, MayFail, NoSignal, Child, Others, PortInv, WayInv
<1>6. WayInv'
  BY DEF ErasePort, Erased, Goes, MayFail, NoSignal, Child, Others, WayInv
<1> QED
  BY <1>1, <1>2, <1>3, <1>4, <1>5, <1>6

LEMMA WireStep == ASSUME RunInv, WirePort PROVE RunInv'
<1> USE DEF RunInv, RunTypeOK, Who, Sig
<1>1. RunTypeOK'
  BY DEF WirePort, Goes, MayFail, NoSignal, Child, Others, RunTypeOK, PPlace, CPlace, Act
<1>2. ChildInv'
  BY DEF WirePort, Goes, MayFail, NoSignal, Child, Others, ChildInv
<1>3. SignalInv'
  BY DEF WirePort, Goes, MayFail, NoSignal, Child, Others, SignalInv
<1>4. TerminalInv'
  BY DEF WirePort, Goes, MayFail, NoSignal, Child, Others, TerminalInv, ChildInv
<1>5. PortInv'
  BY DEF WirePort, Goes, MayFail, NoSignal, Child, Others, PortInv, WayInv
<1>6. WayInv'
  BY DEF WirePort, Goes, MayFail, NoSignal, Child, Others, WayInv
<1> QED
  BY <1>1, <1>2, <1>3, <1>4, <1>5, <1>6

LEMMA ParseStep == ASSUME RunInv, ParseCommand PROVE RunInv'
<1> USE DEF RunInv, RunTypeOK, Who, Sig
<1>1. RunTypeOK'
  BY DEF ParseCommand, Goes, MayFail, NoSignal, Child, Others, RunTypeOK, PPlace, CPlace, Act
<1>2. ChildInv'
  BY DEF ParseCommand, Goes, MayFail, NoSignal, Child, Others, ChildInv
<1>3. SignalInv'
  BY DEF ParseCommand, Goes, MayFail, NoSignal, Child, Others, SignalInv
<1>4. TerminalInv'
  BY DEF ParseCommand, Goes, MayFail, NoSignal, Child, Others, TerminalInv, ChildInv
<1>5. PortInv'
  BY DEF ParseCommand, Goes, MayFail, NoSignal, Child, Others, PortInv, WayInv
<1>6. WayInv'
  BY DEF ParseCommand, Goes, MayFail, NoSignal, Child, Others, WayInv
<1> QED
  BY <1>1, <1>2, <1>3, <1>4, <1>5, <1>6

LEMMA ExecStep == ASSUME RunInv, Exec PROVE RunInv'
<1> USE DEF RunInv, RunTypeOK, Who, Sig
<1>1. RunTypeOK'
  BY DEF Exec, Goes, MayFail, NoSignal, Child, Others, RunTypeOK, PPlace, CPlace, Act
<1>2. ChildInv'
  BY DEF Exec, Goes, MayFail, NoSignal, Child, Others, ChildInv
<1>3. SignalInv'
  BY DEF Exec, Goes, MayFail, NoSignal, Child, Others, SignalInv
<1>4. TerminalInv'
  BY DEF Exec, Goes, MayFail, NoSignal, Child, Others, TerminalInv, ChildInv
<1>5. PortInv'
  BY DEF Exec, Goes, MayFail, NoSignal, Child, Others, PortInv, WayInv
<1>6. WayInv'
  BY DEF Exec, Goes, MayFail, NoSignal, Child, Others, WayInv
<1> QED
  BY <1>1, <1>2, <1>3, <1>4, <1>5, <1>6

LEMMA ExitStep == ASSUME RunInv, ExitChild PROVE RunInv'
<1> USE DEF RunInv, RunTypeOK, Who, Sig
<1>1. RunTypeOK'
  BY DEF ExitChild, Goes, MayFail, NoSignal, Child, Others, RunTypeOK, PPlace, CPlace, Act
<1>2. ChildInv'
  BY DEF ExitChild, Goes, MayFail, NoSignal, Child, Others, ChildInv
<1>3. SignalInv'
  BY DEF ExitChild, Goes, MayFail, NoSignal, Child, Others, SignalInv
<1>4. TerminalInv'
  BY DEF ExitChild, Goes, MayFail, NoSignal, Child, Others, TerminalInv, ChildInv
<1>5. PortInv'
  BY DEF ExitChild, Goes, MayFail, NoSignal, Child, Others, PortInv, WayInv
<1>6. WayInv'
  BY DEF ExitChild, Goes, MayFail, NoSignal, Child, Others, WayInv
<1> QED
  BY <1>1, <1>2, <1>3, <1>4, <1>5, <1>6

LEMMA HandlersStep == ASSUME RunInv, establish_child_signal_handlers PROVE RunInv'
<1> USE DEF RunInv, RunTypeOK, Who, Sig
<1>1. RunTypeOK'
  BY DEF establish_child_signal_handlers, SetAction, Goes, MayFail, NoSignal, Child, Others, RunTypeOK, PPlace, CPlace, Act
<1>2. ChildInv'
  BY DEF establish_child_signal_handlers, SetAction, Goes, MayFail, NoSignal, Child, Others, ChildInv
<1>3. SignalInv'
  BY DEF establish_child_signal_handlers, SetAction, Goes, MayFail, NoSignal, Child, Others, SignalInv
<1>4. TerminalInv'
  BY DEF establish_child_signal_handlers, SetAction, Goes, MayFail, NoSignal, Child, Others, TerminalInv, ChildInv
<1>5. PortInv'
  BY DEF establish_child_signal_handlers, SetAction, Goes, MayFail, NoSignal, Child, Others, PortInv
<1>6. WayInv'
  BY DEF establish_child_signal_handlers, SetAction, Goes, MayFail, NoSignal, Child, Others, WayInv
<1> QED
  BY <1>1, <1>2, <1>3, <1>4, <1>5, <1>6

LEMMA ProgramStep == ASSUME RunInv, Program PROVE RunInv'
<1> USE DEF RunInv, RunTypeOK, Who, Sig
<1>1. RunTypeOK'
  BY DEF Program, SetAction, Goes, MayFail, NoSignal, Child, Others, RunTypeOK, PPlace, CPlace, Act
<1>2. ChildInv'
  BY DEF Program, SetAction, Goes, MayFail, NoSignal, Child, Others, ChildInv
<1>3. SignalInv'
  BY DEF Program, SetAction, Goes, MayFail, NoSignal, Child, Others, SignalInv
<1>4. TerminalInv'
  BY DEF Program, SetAction, Goes, MayFail, NoSignal, Child, Others, TerminalInv, ChildInv
<1>5. PortInv'
  BY DEF Program, SetAction, Goes, MayFail, NoSignal, Child, Others, PortInv
<1>6. WayInv'
  BY DEF Program, SetAction, Goes, MayFail, NoSignal, Child, Others, WayInv
<1> QED
  BY <1>1, <1>2, <1>3, <1>4, <1>5, <1>6

LEMMA BlockStep == ASSUME RunInv, Block PROVE RunInv'
<1> USE DEF RunInv, RunTypeOK, Who, Sig
<1>0. /\ mask' = [mask EXCEPT !["ppcom"] = Sig] /\ mask' \in [Who -> SUBSET Sig]
      /\ at' = at
      /\ pending' \in [Who -> SUBSET Sig]
  <2> DEFINE hit == {<<"ppcom", s>> : s \in pending["ppcom"] \ Sig}
             kept == [pending EXCEPT !["ppcom"] = @ \cap Sig]
  <2>1. mask' = [mask EXCEPT !["ppcom"] = Sig] /\ Deliver(hit, mask', kept, at)
    BY DEF Block, SetMask
  <2>2. mask' \in [Who -> SUBSET Sig] /\ kept \in [Who -> SUBSET Sig]
    BY <2>1
  <2>3. at = "none" /\ \A x \in hit : x[1] # "child"
    BY DEF Block, ChildInv
  <2> HIDE DEF hit, kept
  <2>4. at' = at
    BY <2>1, <2>3, DeliverNobody
  <2>5. pending' \in [Who -> SUBSET Sig]
    BY <2>1, <2>2, DeliverKept
  <2> QED
    BY <2>1, <2>2, <2>4, <2>5
<1>1. RunTypeOK'
  BY <1>0 DEF Block, Child, Others, RunTypeOK, PPlace, CPlace, Act
<1>2. ChildInv'
  BY <1>0 DEF Block, Child, Others, ChildInv
<1>3. SignalInv'
  BY <1>0 DEF Block, Child, Others, SignalInv
<1>4. TerminalInv'
  BY <1>0 DEF Block, Child, Others, TerminalInv
<1>5. PortInv'
  BY <1>0 DEF Block, Child, Others, PortInv
<1>6. WayInv'
  BY <1>0 DEF Block, Child, Others, WayInv, ChildInv
<1> QED
  BY <1>1, <1>2, <1>3, <1>4, <1>5, <1>6

LEMMA UnblockStep == ASSUME RunInv, Unblock PROVE RunInv'
<1> USE DEF RunInv, RunTypeOK, Who, Sig
<1>0. /\ mask' = [mask EXCEPT !["ppcom"] = {}] /\ mask' \in [Who -> SUBSET Sig]
      /\ at' \in {at, "ended"} /\ (at = "none" => at' = "none")
      /\ pending' \in [Who -> SUBSET Sig]
      /\ mask["child"] = {} => pending'["child"] = pending["child"]
  <2> DEFINE hit == {<<"ppcom", s>> : s \in pending["ppcom"] \ {}}
             kept == [pending EXCEPT !["ppcom"] = @ \cap {}]
  <2>1. mask' = [mask EXCEPT !["ppcom"] = {}] /\ Deliver(hit, mask', kept, at)
    BY DEF Unblock, SetMask
  <2>2. mask' \in [Who -> SUBSET Sig] /\ kept \in [Who -> SUBSET Sig]
    BY <2>1
  <2>3. /\ \A x \in hit : x[1] # "child"
        /\ kept["child"] = pending["child"] /\ mask'["child"] = mask["child"]
    BY <2>1
  <2> HIDE DEF hit, kept
  <2>4. at' \in {at, "ended"} /\ (at = "none" => at' = "none")
    BY <2>1, <2>3, DeliverWhere, DeliverNobody
  <2>5. pending' \in [Who -> SUBSET Sig] /\ (mask'["child"] = {} => pending'["child"] = kept["child"])
    BY <2>1, <2>2, DeliverKept
  <2> QED
    BY <2>1, <2>2, <2>3, <2>4, <2>5
<1>1. RunTypeOK'
  BY <1>0 DEF Unblock, Child, Others, RunTypeOK, PPlace, CPlace, Act
<1>2. ChildInv'
  BY <1>0 DEF Unblock, Child, Others, ChildInv
<1>3. SignalInv'
  <2>1. mask'["ppcom"] = {} /\ main' \in {"wait", "back"} /\ disp' = disp /\ old' = old /\ blame' = blame
    BY <1>0 DEF Unblock
  <2>2. main' = "back" => "fork" \in blame
    BY DEF Unblock, SignalInv
  <2>3. old = "handler" \/ "fork" \in blame
    BY DEF Unblock, SignalInv
  <2> QED
    BY <2>1, <2>2, <2>3 DEF SignalInv
<1>4. TerminalInv'
  BY <1>0 DEF Unblock, Child, Others, TerminalInv, ChildInv
<1>5. PortInv'
  BY <1>0 DEF Unblock, Child, Others, PortInv
<1>6. WayInv'
  BY <1>0 DEF Unblock, Child, Others, WayInv
<1> QED
  BY <1>1, <1>2, <1>3, <1>4, <1>5, <1>6

LEMMA UnmaskStep == ASSUME RunInv, UnmaskChild PROVE RunInv'
<1> USE DEF RunInv, RunTypeOK, Who, Sig
<1>0. /\ mask' = [mask EXCEPT !["child"] = {}] /\ mask' \in [Who -> SUBSET Sig]
      /\ at' \in {"exec", "ended"}
      /\ pending' \in [Who -> SUBSET Sig] /\ pending'["child"] = {}
  <2> DEFINE hit == {<<"child", s>> : s \in pending["child"] \ {}}
             kept == [pending EXCEPT !["child"] = @ \cap {}]
  <2>1. mask' = [mask EXCEPT !["child"] = {}] /\ Deliver(hit, mask', kept, "exec")
    BY DEF UnmaskChild, ChildMask, SetMask
  <2>2. mask' \in [Who -> SUBSET Sig] /\ kept \in [Who -> SUBSET Sig]
    BY <2>1
  <2>3. kept["child"] = {} /\ mask'["child"] = {}
    BY <2>1
  <2> HIDE DEF hit, kept
  <2>4. at' \in {"exec", "ended"}
    BY <2>1, DeliverWhere
  <2>5. pending' \in [Who -> SUBSET Sig] /\ pending'["child"] = {}
    BY <2>1, <2>2, <2>3, DeliverKept
  <2> QED
    BY <2>1, <2>2, <2>4, <2>5
<1>1. RunTypeOK'
  BY <1>0 DEF UnmaskChild, Child, Others, RunTypeOK, PPlace, CPlace, Act
<1>2. ChildInv'
  BY <1>0 DEF UnmaskChild, Child, Others, ChildInv
<1>3. SignalInv'
  BY <1>0 DEF UnmaskChild, Child, Others, SignalInv
<1>4. TerminalInv'
  BY <1>0 DEF UnmaskChild, Child, Others, TerminalInv, ChildInv
<1>5. PortInv'
  BY <1>0 DEF UnmaskChild, Child, Others, PortInv
<1>6. WayInv'
  BY <1>0 DEF UnmaskChild, Child, Others, WayInv
<1> QED
  BY <1>1, <1>2, <1>3, <1>4, <1>5, <1>6

LEMMA SignalStep == ASSUME RunInv, NEW ws \in SUBSET Who, NEW s \in Sig, Signal(ws, s) PROVE RunInv'
<1> USE DEF RunInv, RunTypeOK, Who, Sig
<1>0. /\ at' \in {at, "ended"} /\ (at = "none" => at' = "none")
      /\ pending' \in [Who -> SUBSET Sig]
      /\ mask["child"] = {} => pending'["child"] = pending["child"]
  <2> DEFINE hit == {<<w, s>> : w \in {x \in ws : Alive(x)}}
  <2>1. Deliver(hit, mask, pending, at)
    BY DEF Signal
  <2>2. at = "none" => \A x \in hit : x[1] # "child"
    BY DEF Alive
  <2> HIDE DEF hit
  <2>3. at' \in {at, "ended"} /\ (at = "none" => at' = "none")
    BY <2>1, <2>2, DeliverWhere, DeliverNobody
  <2>4. pending' \in [Who -> SUBSET Sig] /\ (mask["child"] = {} => pending'["child"] = pending["child"])
    BY <2>1, DeliverKept
  <2> QED
    BY <2>3, <2>4
<1>1. RunTypeOK'
  BY <1>0 DEF Signal, Child, RunTypeOK, PPlace, CPlace, Act
<1>2. ChildInv'
  BY <1>0 DEF Signal, Child, ChildInv
<1>3. SignalInv'
  BY <1>0 DEF Signal, Child, SignalInv
<1>4. TerminalInv'
  BY <1>0 DEF Signal, Child, TerminalInv
<1>5. PortInv'
  BY <1>0 DEF Signal, Child, PortInv
<1>6. WayInv'
  BY <1>0 DEF Signal, Child, WayInv
<1> QED
  BY <1>1, <1>2, <1>3, <1>4, <1>5, <1>6

LEMMA RunStep == RunInv /\ [RunNext]_runvars => RunInv'
<1> SUFFICES ASSUME RunInv, [RunNext]_runvars PROVE RunInv'
  OBVIOUS
<1>1. CASE Parent
  BY <1>1, IgnoreIntStep, BlockStep, ForkStep, UnblockStep, WaitStep, ApplyStep, EnableStep, AgainStep
    DEF Parent
<1>2. CASE ChildStep
  BY <1>2, RemoveStep, EraseStep, WireStep, ParseStep, HandlersStep, UnmaskStep, ExecStep, ExitStep
    DEF ChildStep
<1>3. CASE Program
  BY <1>3, ProgramStep
<1>4. CASE Interrupt
  BY <1>4, SignalStep DEF Interrupt, Who, Sig
<1>5. CASE Kill
  <2>1. PICK ws \in {{"ppcom"}, {"child"}, Who}, s \in Sig : Signal(ws, s)
    BY <1>5 DEF Kill
  <2>2. ws \in SUBSET Who
    BY DEF Who
  <2> QED
    BY <2>1, <2>2, SignalStep
<1>6. CASE UNCHANGED runvars
  BY <1>6 DEF runvars, RunInv, RunTypeOK, ChildInv, SignalInv, TerminalInv, PortInv, WayInv
<1> QED
  BY <1>1, <1>2, <1>3, <1>4, <1>5, <1>6 DEF RunNext

LEMMA RunAlways == RunSpec => []RunInv
BY RunStarts, RunStep, PTL DEF RunSpec

-----------------------------------------------------------------------------
(* For any failures, signals at any step and anything the program does,    *)
(* run_cmd() leaves ppcom with its handlers and mask, the user's terminal  *)
(* raw and the port as it was: a child without a program resets neither.   *)
THEOREM CommandLeavesNoTrace == RunSpec => []BackAsBefore
<1>1. RunInv => BackAsBefore
  BY DEF RunInv, RunTypeOK, SignalInv, TerminalInv, PortInv, BackAsBefore
<1> QED
  BY <1>1, RunAlways, PTL

(* The only way to the program is execvp(), after all that run_cmd() does  *)
(* for the child; no signal that comes meanwhile is lost or left blocked.  *)
THEOREM ProgramFindsItsPlace == RunSpec => ProgramStartsClean
<1>1. ASSUME RunInv, [RunNext]_runvars, at # "program", at' = "program"
      PROVE  /\ \A s \in Sig : disp["child"][s] = "default"
             /\ mask["child"] = {} /\ pending["child"] = {}
             /\ wired /\ table = {}
             /\ sti = "found" \/ "setattr" \in blame
  <2>1. Exec
    <3>1. ~Parent
      <4>1. ~Block
        BY <1>1, DeliverWhere DEF Block, SetMask
      <4>2. ~Unblock
        BY <1>1, DeliverWhere DEF Unblock, SetMask
      <4> QED
        BY <1>1, <4>1, <4>2 DEF Parent, IgnoreInt, Fork, Wait, Apply, EnableInt, Again
    <3>2. ~UnmaskChild
      BY <1>1, DeliverWhere DEF UnmaskChild, SetMask
    <3>3. \A ws, s : ~Signal(ws, s)
      BY <1>1, DeliverWhere DEF Signal
    <3>4. ~Interrupt /\ ~Kill
      BY <3>3 DEF Interrupt, Kill
    <3> QED
      BY <1>1, <3>1, <3>2, <3>4 DEF RunNext, ChildStep, Program, RemoveTerminal, ErasePort, WirePort,
        ParseCommand, establish_child_signal_handlers, ExitChild, Goes, runvars
  <2>2. at = "exec"
    BY <1>1, <2>1 DEF Exec, Goes
  <2> QED
    BY <1>1, <2>2 DEF RunInv, WayInv
<1>2. RunInv /\ [RunNext]_runvars =>
        [at # "program" /\ at' = "program" =>
           /\ \A s \in Sig : disp["child"][s] = "default"
           /\ mask["child"] = {} /\ pending["child"] = {}
           /\ wired /\ table = {}
           /\ sti = "found" \/ "setattr" \in blame]_runvars
  BY <1>1
<1> QED
  BY <1>2, RunAlways, PTL DEF RunSpec, ProgramStartsClean

-----------------------------------------------------------------------------
(* RunCmd implements TransferAbs.                                          *)
(* A signal moves nothing but ends the child, if there is one.             *)
LEMMA SignalIsEnd ==
  ASSUME RunInv, main' = main, at' \in {at, "ended"}, main \in {"unblock", "wait"} \/ at' = at,
         sti' = sti, port' = port
  PROVE  Abs!Next \/ UNCHANGED Abs!absvars
<1>1. CASE Stage' = Stage
  BY <1>1 DEF Abs!absvars
<1>2. CASE Stage' # Stage
  BY <1>2 DEF RunInv, RunTypeOK, PPlace, CPlace, ChildInv, Stage, Abs!Next, Abs!End
<1> QED
  BY <1>1, <1>2

LEMMA ParentTransfers ==
  ASSUME RunInv, Parent PROVE Abs!Next \/ UNCHANGED Abs!absvars
<1> USE DEF RunInv, RunTypeOK, PPlace, CPlace, ChildInv, Stage
<1>1. CASE IgnoreInt
  BY <1>1 DEF IgnoreInt, Abs!absvars
<1>2. CASE Block
  BY <1>2 DEF Block, Abs!absvars
<1>3. CASE Fork
  BY <1>3 DEF Fork, Abs!absvars, Abs!Next, Abs!Begin
<1>4. CASE Unblock
  <2>1. at' \in {at, "ended"}
    BY <1>4, DeliverWhere DEF Unblock, SetMask
  <2>2. main = "forkless" => at' = at
    <3> SUFFICES ASSUME main = "forkless" PROVE at' = at
      OBVIOUS
    <3> QED
      BY <1>4, DeliverNobody DEF Unblock, SetMask
  <2> QED
    BY <1>4, <2>1, <2>2 DEF Unblock, Abs!absvars, Abs!Next, Abs!End
<1>5. CASE Wait
  BY <1>5 DEF Wait, Abs!absvars
<1>6. CASE Apply
  BY <1>6 DEF Apply, MayFail, Abs!Next, Abs!BackToRaw
<1>7. CASE EnableInt \/ Again
  BY <1>7 DEF EnableInt, Again, Abs!absvars
<1> QED
  BY <1>1, <1>2, <1>3, <1>4, <1>5, <1>6, <1>7 DEF Parent

LEMMA ChildTransfers ==
  ASSUME RunInv, ChildStep PROVE Abs!Next \/ UNCHANGED Abs!absvars
<1> USE DEF RunInv, RunTypeOK, PPlace, CPlace, ChildInv, Stage
<1>1. CASE RemoveTerminal
  BY <1>1 DEF RemoveTerminal, Goes, Abs!absvars, Abs!Next, Abs!PutBack
<1>2. CASE ErasePort \/ WirePort \/ ParseCommand \/ establish_child_signal_handlers
  BY <1>2 DEF ErasePort, WirePort, ParseCommand, establish_child_signal_handlers, Goes, Abs!absvars
<1>3. CASE UnmaskChild
  <2>1. at' \in {"exec", "ended"}
    BY <1>3, DeliverWhere DEF UnmaskChild, SetMask
  <2> QED
    BY <1>3, <2>1 DEF UnmaskChild, Abs!absvars, Abs!Next, Abs!End
<1>4. CASE Exec
  BY <1>4 DEF Exec, Goes, Abs!absvars, Abs!Next, Abs!Start
<1>5. CASE ExitChild
  \* The table is empty, so that the exit handler has nothing to put back.
  <2>1. sti' = sti /\ port' = port
    BY <1>5 DEF ExitChild, Goes, WayInv
  <2> QED
    BY <1>5, <2>1 DEF ExitChild, Goes, Abs!Next, Abs!End
<1> QED
  BY <1>1, <1>2, <1>3, <1>4, <1>5 DEF ChildStep

(* A command is one stay of a child, as Lifecycle takes it: between two    *)
(* the terminal and the port are ppcom's, only the program sets the port,  *)
(* and the child's copy of the library undoes nothing when it exits.       *)
THEOREM CommandIsTransfer == RunSpec => ImplementsTransfer
<1>1. RunInit => Abs!Init
  BY DEF RunInit, Stage, Abs!Init
<1>2. RunInv /\ [RunNext]_runvars => [Abs!Next]_Abs!absvars
  <2> SUFFICES ASSUME RunInv, [RunNext]_runvars PROVE Abs!Next \/ UNCHANGED Abs!absvars
    OBVIOUS
  <2>1. CASE Parent
    BY <2>1, ParentTransfers
  <2>2. CASE ChildStep
    BY <2>2, ChildTransfers
  <2>3. CASE Program
    BY <2>3 DEF Program, RunInv, RunTypeOK, PPlace, CPlace, ChildInv, Stage, Abs!absvars, Abs!Next,
      Abs!Set, Abs!End
  <2>4. ASSUME NEW ws \in SUBSET Who, NEW s \in Sig, Signal(ws, s)
        PROVE  Abs!Next \/ UNCHANGED Abs!absvars
    <3>1. at' \in {at, "ended"} /\ main' = main /\ sti' = sti /\ port' = port
      BY <2>4, DeliverWhere DEF Signal
    <3>2. at = "none" => at' = at
      <4> SUFFICES ASSUME at = "none" PROVE at' = at
        OBVIOUS
      <4>1. \A x \in {<<w, s>> : w \in {y \in ws : Alive(y)}} : x[1] # "child"
        BY DEF Alive
      <4> QED
        BY <2>4, <4>1, DeliverNobody DEF Signal
    <3> QED
      BY <3>1, <3>2, SignalIsEnd DEF RunInv, ChildInv
  <2>5. CASE Interrupt
    BY <2>4, <2>5 DEF Interrupt, Who, Sig
  <2>6. CASE Kill
    <3>1. PICK ws \in {{"ppcom"}, {"child"}, Who}, s \in Sig : Signal(ws, s)
      BY <2>6 DEF Kill
    <3>2. ws \in SUBSET Who
      BY DEF Who
    <3> QED
      BY <2>4, <3>1, <3>2
  <2>7. CASE UNCHANGED runvars
    BY <2>7 DEF runvars, Stage, Abs!absvars
  <2> QED
    BY <2>1, <2>2, <2>3, <2>5, <2>6, <2>7 DEF RunNext
<1> QED
  BY <1>1, <1>2, RunAlways, PTL DEF RunSpec, ImplementsTransfer, Abs!Spec

-----------------------------------------------------------------------------
(* FfwdSrv.                                                                *)
Message == Nat \ {Junk}

SrvTypeOK ==
  /\ conn \in [Clients -> {"none", "waiting", "accepted"}] /\ up \in [Clients -> BOOLEAN]
  /\ saying \in [Clients -> Seq(Message)] /\ said \in Nat
  /\ fd \in [Clients -> (Numbers \ {1, 2}) \cup {0}]
  /\ client_fds \in [Ports -> Seq(Numbers)]
  /\ callbacks \in [Numbers -> Ports \cup {"none", "accept"}]
  /\ targets \in Seq(Numbers)
  /\ Messages(buffer) \in Seq(Message)
  /\ log \in [Ports -> Seq(Message)] /\ since \in [Clients -> Nat]
  /\ told \in [Clients -> Seq(Message)] /\ reused \subseteq Clients

(* A number is that of one connection, and its callback is its port's.     *)
NumbersInv ==
  /\ \A c \in Clients : conn[c] = "accepted" <=> fd[c] # 0
  /\ \A c, d \in Clients : fd[c] # 0 /\ fd[c] = fd[d] => c = d
  /\ \A c \in Clients : fd[c] # 0 => callbacks[fd[c]] = Port(c)

(* f is in the list s in one place.                                        *)
Once(s, f) == \E i \in DOMAIN s : \A j \in DOMAIN s : s[j] = f <=> j = i
Never(s, f) == \A j \in DOMAIN s : s[j] # f

(* A connection that has its number to itself.                             *)
Own(c) == conn[c] = "accepted" /\ c \notin reused

ListsInv == \A c \in Clients : Own(c) => /\ Once(client_fds[Port(c)], fd[c])
                                         /\ Never(client_fds[Other(Port(c))], fd[c])

(* What c should have been told.                                           *)
From(c) == SubSeq(log[Other(Port(c))], since[c] + 1, Len(log[Other(Port(c))]))

(* While the buffer is written to the targets, c has been told all of it   *)
(* or, if it is still among them, all but the buffer.                      *)
HeardInv ==
  where # "ended" => \A c \in Clients : Own(c) /\ up[c] =>
    \/ told[c] = From(c) /\ (where = "write" => Never(targets, fd[c]))
    \/ /\ where = "write" /\ Once(targets, fd[c])
       /\ told[c] \o Messages(buffer) = From(c)

(* None is told from after the end of what was read.                       *)
SinceInv == \A c \in Clients : since[c] <= Len(log[Other(Port(c))])

SrvInv == SrvTypeOK /\ NumbersInv /\ ListsInv /\ SinceInv /\ HeardInv

-----------------------------------------------------------------------------
LEMMA PortFacts ==
  /\ \A p \in Ports : Other(p) \in Ports /\ Other(p) # p /\ Other(Other(p)) = p
  /\ \A c \in Clients : Port(c) \in Ports
  /\ \A p, q \in Ports : p # q => q = Other(p)
BY DEF Ports, Other, Port

LEMMA ClientFacts == IsFiniteSet(Clients) /\ Cardinality(Clients) \in Nat
BY SrvAssumption, FS_Union, FS_CardinalityType DEF Clients

(* open(2) finds a number that is free.                                    *)
LEMMA NumberFree ==
  ASSUME NEW c \in Clients, SrvTypeOK, fd[c] = 0
  PROVE  \E f \in Numbers \ {1, 2} : \A d \in Clients : fd[d] # f
<1> SUFFICES ASSUME \A f \in Numbers \ {1, 2} : \E d \in Clients : fd[d] = f PROVE FALSE
  OBVIOUS
<1> DEFINE N == Cardinality(Clients)
           S == 3 .. 2 + N
           T == Clients \ {c}
           holder == [f \in S |-> CHOOSE d \in Clients : fd[d] = f]
<1>1. N \in Nat /\ IsFiniteSet(Clients)
  BY ClientFacts
<1>2. S = Numbers \ {1, 2}
  BY <1>1 DEF Numbers
<1>3. IsFiniteSet(S) /\ Cardinality(S) = N
  <2>1. N # 0
    BY <1>1, FS_EmptySet
  <2> HIDE DEF N
  <2> QED
    BY <1>1, <2>1, FS_Interval
<1>4. IsFiniteSet(T) /\ Cardinality(T) = N - 1
  BY <1>1, FS_RemoveElement
<1>5. \A f \in S : holder[f] \in Clients /\ fd[holder[f]] = f
  BY <1>2
<1>6. holder \in [S -> T]
  BY <1>1, <1>5
<1> HIDE DEF N, S, T, holder
<1>7. \E f, g \in S : f # g /\ holder[f] = holder[g]
  BY <1>1, <1>3, <1>4, <1>6, FS_PigeonHole
<1> QED
  BY <1>5, <1>7

(* accept(2) takes the lowest.                                             *)
LEMMA NumberTaken ==
  ASSUME NEW c \in Clients, SrvTypeOK, fd[c] = 0
  PROVE  LET f == CHOOSE g \in Numbers \ {1, 2} :
                    /\ \A d \in Clients : fd[d] # g
                    /\ \A h \in 3 .. g - 1 : \E d \in Clients : fd[d] = h
         IN  f \in Numbers \ {1, 2} /\ \A d \in Clients : fd[d] # f
<1> DEFINE S == {g \in Numbers \ {1, 2} : \A d \in Clients : fd[d] # g}
<1>1. Numbers \in SUBSET Nat /\ \A g \in Numbers \ {1, 2} : 3 .. g - 1 \subseteq Numbers \ {1, 2}
  BY ClientFacts DEF Numbers
<1>2. S \in SUBSET Nat /\ S # {}
  BY <1>1, NumberFree
<1>3. PICK g \in S : \A h \in S : g <= h
  <2> HIDE DEF S
  <2> QED
    BY <1>2, LeastNat
<1>4. \A h \in 3 .. g - 1 : \E d \in Clients : fd[d] = h
  <2> SUFFICES ASSUME NEW h \in 3 .. g - 1, \A d \in Clients : fd[d] # h
               PROVE  FALSE
    OBVIOUS
  <2>1. h \in S /\ h < g /\ g \in Nat
    BY <1>1, <1>2
  <2> QED
    BY <1>3, <2>1
<1> QED
  BY <1>3, <1>4

-----------------------------------------------------------------------------
(* Sequences.                                                              *)
LEMMA OnceMore ==
  ASSUME NEW A, NEW s \in Seq(A), NEW e \in A, NEW f
  PROVE  /\ e # f /\ Once(s, f) => Once(Append(s, e), f)
         /\ e # f /\ Never(s, f) => Never(Append(s, e), f)
         /\ e = f /\ Never(s, f) => Once(Append(s, e), f)
<1>1. /\ DOMAIN s = 1 .. Len(s) /\ Len(s) \in Nat
      /\ DOMAIN Append(s, e) = 1 .. Len(s) + 1
      /\ \A i \in 1 .. Len(s) : Append(s, e)[i] = s[i]
      /\ Append(s, e)[Len(s) + 1] = e
  BY AppendProperties, LenProperties
<1>2. ASSUME e # f, Once(s, f) PROVE Once(Append(s, e), f)
  <2>1. PICK i \in DOMAIN s : \A j \in DOMAIN s : s[j] = f <=> j = i
    BY <1>2 DEF Once
  <2>2. \A j \in DOMAIN Append(s, e) : Append(s, e)[j] = f <=> j = i
    BY <1>1, <1>2, <2>1
  <2>3. i \in DOMAIN Append(s, e)
    BY <1>1
  <2> QED
    BY <2>2, <2>3 DEF Once
<1>3. e # f /\ Never(s, f) => Never(Append(s, e), f)
  BY <1>1 DEF Never
<1>4. ASSUME e = f, Never(s, f) PROVE Once(Append(s, e), f)
  <2>1. \A j \in DOMAIN Append(s, e) : Append(s, e)[j] = f <=> j = Len(s) + 1
    BY <1>1, <1>4 DEF Never
  <2> QED
    BY <1>1, <2>1 DEF Once
<1> QED
  BY <1>2, <1>3, <1>4

LEMMA OnceLess ==
  ASSUME NEW A, NEW s \in Seq(A), s # <<>>, NEW f
  PROVE  /\ Once(s, f) /\ Head(s) = f => Never(Tail(s), f)
         /\ Once(s, f) /\ Head(s) # f => Once(Tail(s), f)
         /\ Never(s, f) => Head(s) # f /\ Never(Tail(s), f)
<1>1. /\ DOMAIN s = 1 .. Len(s) /\ Len(s) \in Nat \ {0}
      /\ DOMAIN Tail(s) = 1 .. Len(s) - 1 /\ Head(s) = s[1]
      /\ \A i \in 1 .. Len(s) - 1 : Tail(s)[i] = s[i + 1]
  BY HeadTailProperties, LenProperties, EmptySeq
<1>2. ASSUME Once(s, f), Head(s) = f PROVE Never(Tail(s), f)
  <2>1. \A j \in DOMAIN s : s[j] = f <=> j = 1
    BY <1>1, <1>2 DEF Once
  <2> QED
    BY <1>1, <2>1 DEF Never
<1>3. ASSUME Once(s, f), Head(s) # f PROVE Once(Tail(s), f)
  <2>1. PICK i \in DOMAIN s : \A j \in DOMAIN s : s[j] = f <=> j = i
    BY <1>3 DEF Once
  <2>2. i # 1 /\ i - 1 \in DOMAIN Tail(s)
    BY <1>1, <1>3, <2>1
  <2>3. \A j \in DOMAIN Tail(s) : Tail(s)[j] = f <=> j = i - 1
    BY <1>1, <2>1, <2>2
  <2> QED
    BY <2>2, <2>3 DEF Once
<1>4. Never(s, f) => Head(s) # f /\ Never(Tail(s), f)
  BY <1>1 DEF Never
<1> QED
  BY <1>2, <1>3, <1>4

(* What is read on from a place, when more is read.                        *)
LEMMA ReadOn ==
  ASSUME NEW A, NEW s \in Seq(A), NEW t \in Seq(A), NEW n \in 0 .. Len(s)
  PROVE  /\ SubSeq(s, n + 1, Len(s)) \in Seq(A)
         /\ SubSeq(s \o t, n + 1, Len(s \o t)) = SubSeq(s, n + 1, Len(s)) \o t
<1>1. Len(s) \in Nat /\ Len(t) \in Nat
  BY LenProperties
<1>2. /\ s \o t \in Seq(A) /\ Len(s \o t) = Len(s) + Len(t)
      /\ \A i \in 1 .. Len(s) + Len(t) : (s \o t)[i] = IF i <= Len(s) THEN s[i] ELSE t[i - Len(s)]
  BY ConcatProperties
<1> DEFINE u == SubSeq(s, n + 1, Len(s))
           v == SubSeq(s \o t, n + 1, Len(s \o t))
<1>3. u \in Seq(A)
  <2>1. n + 1 \in 1 .. Len(s) + 1 /\ Len(s) \in n .. Len(s)
    BY <1>1
  <2> QED
    BY <1>1, <2>1, SubSeqProperties
<1>4. Len(u) = Len(s) - n /\ \A i \in 1 .. Len(s) - n : u[i] = s[n + i]
  BY <1>1, SubSeqProperties
<1>5. v \in Seq(A)
  BY <1>1, <1>2, SubSeqProperties
<1>6. /\ Len(v) = Len(s) + Len(t) - n
      /\ \A i \in 1 .. Len(s) + Len(t) - n : v[i] = (s \o t)[n + i]
  BY <1>1, <1>2, SubSeqProperties
<1> HIDE DEF u, v
<1>7. /\ u \o t \in Seq(A) /\ Len(u \o t) = Len(u) + Len(t)
      /\ \A i \in 1 .. Len(u) + Len(t) :
           (u \o t)[i] = IF i <= Len(u) THEN u[i] ELSE t[i - Len(u)]
  BY <1>3, ConcatProperties
<1>8. \A i \in 1 .. Len(v) : v[i] = (u \o t)[i]
  <2> SUFFICES ASSUME NEW i \in 1 .. Len(v) PROVE v[i] = (u \o t)[i]
    OBVIOUS
  <2>1. /\ i \in 1 .. Len(s) + Len(t) - n /\ n + i \in 1 .. Len(s) + Len(t)
        /\ i \in 1 .. Len(u) + Len(t) /\ (n + i) - Len(s) = i - Len(u)
        /\ n + i <= Len(s) <=> i <= Len(u)
    BY <1>1, <1>4, <1>6
  <2>2. v[i] = IF i <= Len(u) THEN s[n + i] ELSE t[i - Len(u)]
    BY <1>2, <1>6, <2>1
  <2>3. i <= Len(u) => u[i] = s[n + i]
    BY <1>1, <1>4, <2>1
  <2> QED
    BY <1>7, <2>1, <2>2, <2>3
<1>9. Len(v) = Len(u \o t)
  BY <1>1, <1>4, <1>6, <1>7
<1> QED
  BY <1>3, <1>5, <1>7, <1>8, <1>9, SeqEqual DEF u, v

-----------------------------------------------------------------------------
LEMMA SrvStarts == SrvInit => SrvInv
<1> SUFFICES ASSUME SrvInit PROVE SrvInv
  OBVIOUS
<1> USE DEF SrvInit
<1>1. SrvTypeOK
  <2>1. {1, 2} \subseteq Numbers
    BY ClientFacts DEF Numbers
  <2> QED
    BY DEF SrvTypeOK, Messages, Junk
<1>2. NumbersInv /\ ListsInv
  BY DEF NumbersInv, ListsInv, Own
<1>3. SinceInv
  BY PortFacts DEF SinceInv
<1>4. HeardInv
  BY DEF HeardInv, Own
<1> QED
  BY <1>1, <1>2, <1>3, <1>4 DEF SrvInv

(* Steps that touch nothing a number, a list or a history depends on.      *)
LEMMA Undisturbed ==
  ASSUME SrvInv, UNCHANGED <<conn, fd, client_fds, callbacks, log, since, reused>>
  PROVE  NumbersInv' /\ ListsInv' /\ SinceInv'
<1>1. NumbersInv'
  BY DEF SrvInv, NumbersInv
<1>2. ListsInv'
  BY DEF SrvInv, ListsInv, Own, Once, Never
<1>3. SinceInv'
  BY DEF SrvInv, SinceInv
<1> QED
  BY <1>1, <1>2, <1>3

LEMMA StartKeeps == SrvInv /\ StartServer => SrvInv'
<1> SUFFICES ASSUME SrvInv, StartServer PROVE SrvInv'
  OBVIOUS
<1> USE DEF StartServer, Connections, Turn, Histories
<1>1. SrvTypeOK'
  BY DEF SrvInv, SrvTypeOK
<1>2. NumbersInv'
  BY DEF SrvInv, SrvTypeOK, NumbersInv
<1>3. ListsInv'
  BY DEF SrvInv, ListsInv, Own, Once, Never
<1>4. SinceInv'
  BY DEF SrvInv, SinceInv
<1>5. HeardInv'
  BY DEF SrvInv, HeardInv, Own, From
<1> QED
  BY <1>1, <1>2, <1>3, <1>4, <1>5 DEF SrvInv

LEMMA WaitKeeps == SrvInv /\ (WaitForEvents \/ EndOfEvents) => SrvInv'
<1> SUFFICES ASSUME SrvInv, WaitForEvents \/ EndOfEvents PROVE SrvInv'
  OBVIOUS
<1>1. /\ UNCHANGED <<Connections, Tables, targets, buffer, Histories>>
      /\ where \in {"wait", "events"} /\ where' # "write"
  BY DEF WaitForEvents, EndOfEvents, Turn
<1> USE DEF Connections, Tables, Histories
<1>2. SrvTypeOK'
  BY <1>1 DEF SrvInv, SrvTypeOK, Messages
<1>3. NumbersInv' /\ ListsInv' /\ SinceInv'
  BY <1>1, Undisturbed
<1>4. HeardInv'
  BY <1>1 DEF SrvInv, HeardInv, Own, From
<1> QED
  BY <1>2, <1>3, <1>4 DEF SrvInv

LEMMA ClientKeeps == SrvInv /\ Client => SrvInv'
<1> SUFFICES ASSUME SrvInv, Client PROVE SrvInv'
  OBVIOUS
<1>1. UNCHANGED <<where, fd, client_fds, callbacks, targets, buffer, log, since, told, reused>>
  BY DEF Client, Tables, Turn, Histories
<1>2. PICK c \in Clients : Connect(c) \/ Say(c) \/ Disconnect(c)
  BY DEF Client
<1>3. /\ conn' \in [Clients -> {"none", "waiting", "accepted"}] /\ up' \in [Clients -> BOOLEAN]
      /\ saying' \in [Clients -> Seq(Message)] /\ said' \in Nat
  <2>1. CASE Connect(c)
    BY <2>1 DEF Connect, SrvInv, SrvTypeOK
  <2>2. CASE Say(c)
    <3>1. said' \in Message
      BY <2>2 DEF Say, SrvInv, SrvTypeOK, Message, Junk
    <3>2. Append(saying[c], said') \in Seq(Message)
      BY <3>1, AppendProperties DEF SrvInv, SrvTypeOK
    <3> QED
      BY <2>2, <3>1, <3>2 DEF Say, SrvInv, SrvTypeOK, Message
  <2>3. CASE Disconnect(c)
    BY <2>3 DEF Disconnect, SrvInv, SrvTypeOK
  <2> QED
    BY <1>2, <2>1, <2>2, <2>3
<1>4. SrvTypeOK'
  BY <1>1, <1>3 DEF SrvInv, SrvTypeOK, Messages
<1>5. \A d \in Clients : conn'[d] = "accepted" <=> conn[d] = "accepted"
  BY <1>2 DEF Connect, Say, Disconnect, SrvInv, SrvTypeOK
<1>6. \A d \in Clients : conn[d] = "accepted" /\ up'[d] => up[d]
  BY <1>2 DEF Connect, Say, Disconnect, SrvInv, SrvTypeOK
<1>7. NumbersInv'
  BY <1>1, <1>5 DEF SrvInv, NumbersInv
<1>8. \A d \in Clients : (Own(d)' <=> Own(d)) /\ From(d)' = From(d)
  BY <1>1, <1>5 DEF Own, From
<1>9. ListsInv'
  BY <1>1, <1>8 DEF SrvInv, ListsInv, Once, Never
<1>10. SinceInv'
  BY <1>1 DEF SrvInv, SinceInv
<1>11. HeardInv'
  <2>1. \A d \in Clients : Own(d)' /\ up'[d] => Own(d) /\ up[d]
    BY <1>6, <1>8 DEF Own
  <2>2. UNCHANGED Messages(buffer) /\ \A d \in Clients : UNCHANGED <<Never(targets, fd[d]), Once(targets, fd[d])>>
    BY <1>1 DEF Messages, Never, Once
  <2> QED
    BY <1>1, <1>8, <2>1, <2>2 DEF SrvInv, HeardInv
<1> QED
  BY <1>4, <1>7, <1>9, <1>10, <1>11 DEF SrvInv

LEMMA WriteKeeps == SrvInv /\ WriteOn => SrvInv'
<1> SUFFICES ASSUME SrvInv, WriteOn PROVE SrvInv'
  OBVIOUS
<1>1. UNCHANGED <<Connections, Tables, buffer, log, since, reused>> /\ where = "write"
  BY DEF WriteOn
<1> USE DEF Connections, Tables
<1> DEFINE m == Messages(buffer)
<1>2. m \in Seq(Message) /\ UNCHANGED m
  BY <1>1 DEF Messages, SrvInv, SrvTypeOK
<1>3. NumbersInv' /\ ListsInv' /\ SinceInv'
  BY <1>1, Undisturbed
<1>4. targets' \in Seq(Numbers)
  <2>1. targets \in Seq(Numbers) /\ (targets' = targets \/ (targets # <<>> /\ targets' = Tail(targets)))
    BY DEF WriteOn, SrvInv, SrvTypeOK
  <2>2. targets # <<>> => Tail(targets) \in Seq(Numbers)
    BY <2>1, HeadTailProperties
  <2> QED
    BY <2>1, <2>2
<1>5. told' \in [Clients -> Seq(Message)]
  <2>1. \A c \in Clients : told[c] \o m \in Seq(Message)
    BY <1>2, ConcatProperties DEF SrvInv, SrvTypeOK
  <2> HIDE DEF m
  <2>2. \/ told' = told
        \/ told' = [c \in Clients |-> IF fd[c] = Head(targets) /\ up[c] THEN told[c] \o m ELSE told[c]]
    BY DEF WriteOn, m
  <2> QED
    BY <2>1, <2>2 DEF SrvInv, SrvTypeOK
<1>6. SrvTypeOK'
  BY <1>1, <1>2, <1>4, <1>5 DEF SrvInv, SrvTypeOK
<1>7. \A c \in Clients : (Own(c)' <=> Own(c)) /\ From(c)' = From(c)
  BY <1>1 DEF Own, From
<1>8. HeardInv'
  <2> SUFFICES ASSUME where' # "ended", NEW c \in Clients, Own(c), up[c]
               PROVE  \/ told'[c] = From(c) /\ (where' = "write" => Never(targets', fd[c]))
                      \/ /\ where' = "write" /\ Once(targets', fd[c])
                         /\ told'[c] \o m = From(c)
    BY <1>1, <1>2, <1>7 DEF HeardInv
  <2>1. \/ told[c] = From(c) /\ Never(targets, fd[c])
        \/ Once(targets, fd[c]) /\ told[c] \o m = From(c)
    BY <1>1 DEF SrvInv, HeardInv
  <2>2. CASE targets = <<>>
    <3>1. ~ Once(targets, fd[c])
      BY <2>2 DEF Once
    <3>2. told' = told /\ where' # "write"
      BY <2>2, <1>1 DEF WriteOn
    <3> QED
      BY <2>1, <3>1, <3>2
  <2>3. CASE targets # <<>>
    <3>1. /\ where' = "write" /\ targets' = Tail(targets)
          /\ told'[c] = IF fd[c] = Head(targets) THEN told[c] \o m ELSE told[c]
      BY <2>3, <1>1 DEF WriteOn
    <3>2. /\ Once(targets, fd[c]) /\ Head(targets) = fd[c] => Never(targets', fd[c])
          /\ Once(targets, fd[c]) /\ Head(targets) # fd[c] => Once(targets', fd[c])
          /\ Never(targets, fd[c]) => Head(targets) # fd[c] /\ Never(targets', fd[c])
      BY <2>3, <3>1, OnceLess DEF SrvInv, SrvTypeOK
    <3> HIDE DEF m
    <3> QED
      BY <2>1, <3>1, <3>2
  <2> QED
    BY <2>2, <2>3
<1> QED
  BY <1>3, <1>6, <1>8 DEF SrvInv

LEMMA CallbackKeeps == \A c \in Clients : SrvInv /\ Callback(c) => SrvInv'
<1> SUFFICES ASSUME NEW c \in Clients, SrvInv, Callback(c) PROVE SrvInv'
  OBVIOUS
<1> DEFINE m == Messages(buffer')
<1>1. PICK p \in Ports : p = Port(c)
  BY PortFacts
<1>2. callbacks[fd[c]] = p /\ conn[c] = "accepted"
  BY <1>1 DEF Callback, SrvInv, NumbersInv
<1>3. /\ UNCHANGED <<up, said, made, client_fds, callbacks, since, told, reused>>
      /\ targets' = client_fds[Other(p)] /\ where = "events" /\ where' = "write"
  BY <1>2 DEF Callback, Receivers
<1>4. /\ saying' \in [Clients -> Seq(Message)] /\ m \in Seq(Message)
      /\ log' = [log EXCEPT ![p] = log[p] \o m]
  <2>1. CASE saying[c] # <<>>
    <3>1. buffer' = saying[c] /\ saying[c] \in Seq(Message) /\ <<>> \in Seq(Message)
      BY <2>1 DEF Callback, SrvInv, SrvTypeOK
    <3>2. saying[c] # <<Junk>>
      BY <3>1 DEF Message
    <3>3. m = saying[c]
      BY <3>1, <3>2 DEF Messages
    <3> QED
      BY <1>2, <2>1, <3>1, <3>3, ZenonT(30) DEF Callback, SrvInv, SrvTypeOK
  <2>2. CASE saying[c] = <<>>
    <3>1. m = <<>> /\ UNCHANGED <<saying, log>>
      BY <2>2 DEF Callback, Messages
    <3>2. log[p] \o <<>> = log[p] /\ <<>> \in Seq(Message)
      BY ConcatEmptySeq DEF SrvInv, SrvTypeOK
    <3> QED
      BY <3>1, <3>2 DEF SrvInv, SrvTypeOK
  <2> QED
    BY <2>1, <2>2
<1>5. /\ \A d \in Clients : conn'[d] = "accepted" => conn[d] = "accepted" /\ fd'[d] = fd[d]
      /\ \A d \in Clients : conn'[d] # "accepted" => fd'[d] = 0
      /\ conn' \in [Clients -> {"none", "waiting", "accepted"}]
      /\ fd' \in [Clients -> (Numbers \ {1, 2}) \cup {0}]
  BY ZenonT(30) DEF Callback, SrvInv, SrvTypeOK, NumbersInv
<1> HIDE DEF m
<1>6. log[p] \o m \in Seq(Message) /\ Len(log[p] \o m) = Len(log[p]) + Len(m) /\ Len(m) \in Nat
  BY <1>4, ConcatProperties, LenProperties DEF SrvInv, SrvTypeOK
<1>7. SrvTypeOK'
  <2>1. targets' \in Seq(Numbers)
    BY <1>3, PortFacts DEF SrvInv, SrvTypeOK
  <2>2. log' \in [Ports -> Seq(Message)]
    BY <1>4, <1>6 DEF SrvInv, SrvTypeOK
  <2> QED
    BY <1>3, <1>4, <1>5, <2>1, <2>2 DEF SrvInv, SrvTypeOK, m
<1>8. NumbersInv'
  BY <1>3, <1>5 DEF SrvInv, NumbersInv
<1>9. \A d \in Clients : Own(d)' => Own(d) /\ fd'[d] = fd[d]
  BY <1>3, <1>5 DEF Own
<1>10. ListsInv'
  BY <1>3, <1>9 DEF SrvInv, ListsInv, Once, Never
<1>11. \A d \in Clients : since[d] \in 0 .. Len(log[Other(Port(d))])
  BY PortFacts, LenProperties DEF SrvInv, SrvTypeOK, SinceInv
<1>12. \A q \in Ports : log'[q] = IF q = p THEN log[p] \o m ELSE log[q]
  BY <1>4 DEF SrvInv, SrvTypeOK
<1>13. SinceInv'
  <2> SUFFICES ASSUME NEW d \in Clients
               PROVE  since[d] <= Len(log'[Other(Port(d))])
    BY <1>3 DEF SinceInv
  <2>1. Other(Port(d)) \in Ports /\ Len(log[Other(Port(d))]) \in Nat
    BY PortFacts, LenProperties DEF SrvInv, SrvTypeOK
  <2>2. Len(log'[Other(Port(d))]) \in {Len(log[Other(Port(d))]), Len(log[Other(Port(d))]) + Len(m)}
    BY <1>6, <1>12, <2>1
  <2>3. since[d] <= Len(log[Other(Port(d))]) /\ since[d] \in Nat
    BY <1>11
  <2> QED
    BY <1>6, <2>1, <2>2, <2>3
<1>14. HeardInv'
  <2> SUFFICES ASSUME NEW d \in Clients, Own(d), up[d], fd'[d] = fd[d]
               PROVE  \/ told[d] = From(d)' /\ Never(targets', fd[d])
                      \/ Once(targets', fd[d]) /\ told[d] \o m = From(d)'
    BY <1>3, <1>9 DEF HeardInv, m
  <2>1. told[d] = From(d)
    BY <1>3 DEF SrvInv, HeardInv
  <2>2. /\ Once(client_fds[Port(d)], fd[d])
        /\ Never(client_fds[Other(Port(d))], fd[d])
    BY DEF SrvInv, ListsInv
  <2>3. CASE Port(d) = p
    <3>1. From(d)' = From(d)
      BY <1>3, <1>12, <2>3, PortFacts DEF From
    <3> QED
      BY <1>3, <2>1, <2>2, <2>3, <3>1
  <2>4. CASE Port(d) # p
    <3>1. Other(Port(d)) = p /\ Other(p) = Port(d)
      BY <2>4, PortFacts
    <3>2. log[p] \in Seq(Message) /\ since[d] \in 0 .. Len(log[p])
      BY <1>11, <3>1 DEF SrvInv, SrvTypeOK
    <3>3. SubSeq(log[p] \o m, since[d] + 1, Len(log[p] \o m)) = SubSeq(log[p], since[d] + 1, Len(log[p])) \o m
      BY <1>4, <3>2, ReadOn, ZenonT(30)
    <3>4. From(d)' = From(d) \o m
      BY <1>3, <1>12, <3>1, <3>3 DEF From
    <3> QED
      BY <1>3, <2>1, <2>2, <3>1, <3>4
  <2> QED
    BY <2>3, <2>4
<1> QED
  BY <1>7, <1>8, <1>10, <1>13, <1>14 DEF SrvInv

LEMMA AcceptKeeps == \A c \in Clients : SrvInv /\ Accept(c) => SrvInv'
<1> SUFFICES ASSUME NEW c \in Clients, SrvInv, Accept(c) PROVE SrvInv'
  OBVIOUS
<1>1. PICK p \in Ports : p = Port(c)
  BY PortFacts
<1>2. conn[c] = "waiting" /\ fd[c] = 0
  BY DEF Accept, SrvInv, SrvTypeOK, NumbersInv
<1>3. PICK f \in Numbers \ {1, 2} :
        /\ \A d \in Clients : fd[d] # f
        /\ fd' = [fd EXCEPT ![c] = f]
        /\ client_fds' = [client_fds EXCEPT ![p] = Append(client_fds[p], f)]
        /\ callbacks' = [callbacks EXCEPT ![f] = p]
        /\ reused' = IF \E q \in Ports : \E i \in DOMAIN client_fds[q] : client_fds[q][i] = f
                     THEN reused \cup {c} ELSE reused \ {c}
  BY <1>1, <1>2, NumberTaken DEF Accept, SrvInv
<1>4. /\ UNCHANGED <<up, saying, said, targets, buffer, log>>
      /\ conn' = [conn EXCEPT ![c] = "accepted"]
      /\ since' = [since EXCEPT ![c] = Len(log[Other(p)])]
      /\ told' = [told EXCEPT ![c] = <<>>]
      /\ where = "events" /\ where' = "events"
  BY <1>1 DEF Accept
<1>5. f # 0 /\ f \in Numbers
  BY ClientFacts DEF Numbers
<1>6. Other(p) \in Ports /\ Other(p) # p /\ log[Other(p)] \in Seq(Message) /\ Len(log[Other(p)]) \in Nat
  BY PortFacts, LenProperties DEF SrvInv, SrvTypeOK
<1>7. \A q \in Ports : client_fds[q] \in Seq(Numbers)
                      /\ client_fds'[q] = IF q = p THEN Append(client_fds[q], f) ELSE client_fds[q]
  BY <1>3 DEF SrvInv, SrvTypeOK
<1>8. /\ fd'[c] = f /\ conn'[c] = "accepted" /\ since'[c] = Len(log[Other(p)]) /\ told'[c] = <<>>
      /\ \A d \in Clients \ {c} : /\ fd'[d] = fd[d] /\ conn'[d] = conn[d]
                                  /\ since'[d] = since[d] /\ told'[d] = told[d]
                                  /\ d \in reused' <=> d \in reused
  BY <1>3, <1>4 DEF SrvInv, SrvTypeOK
<1>9. SrvTypeOK'
  <2>1. Append(client_fds[p], f) \in Seq(Numbers)
    BY <1>5, <1>7, AppendProperties
  <2>2. client_fds' \in [Ports -> Seq(Numbers)]
    BY <1>3, <2>1 DEF SrvInv, SrvTypeOK
  <2>3. told' \in [Clients -> Seq(Message)]
    BY <1>4 DEF SrvInv, SrvTypeOK
  <2> QED
    BY <1>3, <1>4, <1>5, <1>6, <2>2, <2>3 DEF SrvInv, SrvTypeOK, Messages
<1>10. NumbersInv'
  <2>1. callbacks'[f] = p /\ \A g \in Numbers : g # f => callbacks'[g] = callbacks[g]
    BY <1>3, <1>5 DEF SrvInv, SrvTypeOK
  <2>2. \A d \in Clients : fd[d] # 0 => fd[d] \in Numbers
    BY DEF SrvInv, SrvTypeOK
  <2> QED
    BY <1>1, <1>3, <1>5, <1>8, <2>1, <2>2 DEF SrvInv, NumbersInv
<1>11. ASSUME NEW q \in Ports, NEW g, g # f
       PROVE  /\ Once(client_fds[q], g) => Once(client_fds'[q], g)
              /\ Never(client_fds[q], g) => Never(client_fds'[q], g)
  BY <1>5, <1>7, <1>11, OnceMore
<1>12. c \notin reused' => /\ Once(client_fds'[p], f) /\ Never(client_fds'[Other(p)], f)
  <2> SUFFICES ASSUME c \notin reused'
               PROVE  Once(client_fds'[p], f) /\ Never(client_fds'[Other(p)], f)
    OBVIOUS
  <2>1. \A q \in Ports : Never(client_fds[q], f)
    BY <1>3 DEF Never
  <2> QED
    BY <1>5, <1>6, <1>7, <2>1, OnceMore
<1>13. \A d \in Clients \ {c} : Own(d)' => Own(d)
  <2>1. \A d \in Clients \ {c} : conn'[d] = conn[d] /\ (d \in reused => d \in reused')
    BY <1>8
  <2> QED
    BY <2>1 DEF Own
<1>14. ListsInv'
  <2> SUFFICES ASSUME NEW d \in Clients, Own(d)'
               PROVE  /\ Once(client_fds'[Port(d)], fd'[d])
                      /\ Never(client_fds'[Other(Port(d))], fd'[d])
    BY DEF ListsInv, Once, Never
  <2>1. CASE d = c
    BY <1>1, <1>8, <1>12, <2>1 DEF Own
  <2>2. CASE d # c
    <3>1. /\ Once(client_fds[Port(d)], fd[d]) /\ Never(client_fds[Other(Port(d))], fd[d])
      BY <1>13, <2>2 DEF SrvInv, ListsInv
    <3>2. fd'[d] = fd[d] /\ fd[d] # f
      BY <1>3, <1>8, <2>2
    <3>3. Port(d) \in Ports /\ Other(Port(d)) \in Ports
      BY PortFacts
    <3>4. Once(client_fds'[Port(d)], fd[d])
      BY <1>11, <3>1, <3>2, <3>3
    <3>5. Never(client_fds'[Other(Port(d))], fd[d])
      BY <1>11, <3>1, <3>2, <3>3
    <3> QED
      BY <3>2, <3>4, <3>5
  <2> QED
    BY <2>1, <2>2
<1>15. SinceInv'
  BY <1>1, <1>4, <1>6, <1>8 DEF SrvInv, SinceInv
<1>16. HeardInv'
  <2> SUFFICES ASSUME NEW d \in Clients, Own(d)', up[d]
               PROVE  told'[d] = From(d)'
    BY <1>4 DEF HeardInv
  <2>1. CASE d = c
    <3>1. SubSeq(log[Other(p)], Len(log[Other(p)]) + 1, Len(log[Other(p)])) = <<>>
      BY <1>6, SubSeqEmpty
    <3> QED
      BY <1>1, <1>4, <1>8, <2>1, <3>1 DEF From
  <2>2. CASE d # c
    <3>1. told[d] = From(d)
      BY <1>4, <1>13, <2>2 DEF SrvInv, HeardInv
    <3> QED
      BY <1>4, <1>8, <2>2, <3>1 DEF From
  <2> QED
    BY <2>1, <2>2
<1> QED
  BY <1>9, <1>10, <1>14, <1>15, <1>16 DEF SrvInv

-----------------------------------------------------------------------------
THEOREM SrvInvariant == SrvSpec => []SrvInv
<1>1. SrvInv /\ [SrvNext]_srvvars => SrvInv'
  <2> SUFFICES ASSUME SrvInv, [SrvNext]_srvvars PROVE SrvInv'
    OBVIOUS
  <2>1. CASE UNCHANGED srvvars
    <3>1. UNCHANGED <<conn, up, saying, said, fd, client_fds, callbacks, targets, buffer, log,
                      since, told, reused, where>>
      BY <2>1 DEF srvvars
    <3>2. SrvTypeOK'
      BY <3>1 DEF SrvInv, SrvTypeOK, Messages
    <3>3. NumbersInv' /\ ListsInv' /\ SinceInv'
      BY <3>1, Undisturbed
    <3>4. HeardInv'
      <4>1. UNCHANGED Messages(buffer) /\ \A d \in Clients : UNCHANGED <<Never(targets, fd[d]), Once(targets, fd[d])>>
        BY <3>1 DEF Messages, Never, Once
      <4>2. \A d \in Clients : (Own(d)' <=> Own(d)) /\ From(d)' = From(d)
        BY <3>1 DEF Own, From
      <4> QED
        BY <3>1, <4>1, <4>2 DEF SrvInv, HeardInv
    <3> QED
      BY <3>2, <3>3, <3>4 DEF SrvInv
  <2>2. CASE SrvNext
    BY <2>2, StartKeeps, WaitKeeps, WriteKeeps, ClientKeeps, AcceptKeeps, CallbackKeeps DEF SrvNext
  <2> QED
    BY <2>1, <2>2
<1> QED
  BY SrvStarts, <1>1, PTL DEF SrvSpec

(* A client of the stand-alone server that has its number to itself is     *)
(* told everything the other port's clients say from when it was accepted, *)
(* in order, once, and nothing else.                                       *)
THEOREM ClientsHearOthers == SrvSpec => []HearsTheOtherPort
<1>1. SrvInv => HearsTheOtherPort
  BY DEF SrvInv, HeardInv, HearsTheOtherPort, Own, From, Running
<1> QED
  BY SrvInvariant, <1>1, PTL
=============================================================================
