------------------------------- MODULE RunCmd -------------------------------
(***************************************************************************)
(* run_cmd() (ppcom/src/ppcom.cpp): ppcom and the child it forks to send   *)
(* or receive a file, up to and through the external program, with the     *)
(* signals that reach the two of them, the two terminals, and the child's  *)
(* copy of the library's table.  A system call is a step; signals come in  *)
(* between any two.                                                        *)
(***************************************************************************)
EXTENDS Integers

CONSTANTS
  Fallible,   \* calls that may fail: fork setattr split exec
  MaxSignals, \* bound: signals sent from outside
  MaxRuns     \* bound: commands run

Sig == {"INT", "TERM"}
Who == {"ppcom", "child"}

VARIABLES
  main,     \* ppcom: ready block fork forkless unblock wait apply enable back
  at,       \* the child: none remove erase wire parse handlers unmask exec
            \*            program exit ended
  disp,     \* of each process and signal: handler, ignore or default
  old,      \* old_action, of SIGINT
  mask,     \* the signals each process has blocked
  pending,  \* those waiting to be unblocked
  sig_exit, \* ppcom's handler has run
  sti,      \* settings of the user's terminal: raw, found or other
  port,     \* settings of the port: ppcom's, found, terminal's or other
  table,    \* the descriptors managed in the child's copy of the table
  wired,    \* the child's STI and STO are the port, in blocking mode
  runs, sent,  \* commands run and signals sent from outside, so far
  early,    \* history: sig_exit was set while there was no child
  heeds,    \* history: the program has not changed what TERM does to it
  blame     \* history: what went wrong: fork, setattr, program

runvars == <<main, at, disp, old, mask, pending, sig_exit, sti, port, table, wired,
             runs, sent, early, heeds, blame>>

MayFail(c) == c \in Fallible
Alive(w) == w = "ppcom" \/ at \notin {"none", "ended"}

-----------------------------------------------------------------------------
(* Signals: "hit" holds pairs of process and signal.  One that is blocked  *)
(* is kept, even if it is ignored.  Of the others, ppcom's handler passes  *)
(* the first on to the process group as a SIGTERM; the child goes on to    *)
(* "next" unless it is killed.                                             *)
Deliver(hit, m, kept, next) ==
  LET through(h) == {x \in h : x[2] \notin m[x[1]]}
      handled == \E x \in through(hit) : x[1] = "ppcom" /\ disp["ppcom"][x[2]] = "handler"
      passed  == IF handled /\ ~sig_exit /\ Alive("child") THEN {<<"child", "TERM">>} ELSE {}
      all     == hit \cup passed
      killed  == \E x \in through(all) : x[1] = "child" /\ disp["child"][x[2]] = "default"
  IN  /\ sig_exit' = (sig_exit \/ handled)
      /\ early' = (early \/ (handled /\ ~sig_exit /\ ~Alive("child")))
      /\ pending' = [w \in Who |-> kept[w] \cup {s \in Sig : <<w, s>> \in all \ through(all)}]
      /\ at' = IF killed THEN "ended" ELSE next

(* sigprocmask(): the pending signals that m lets through are delivered.   *)
SetMask(w, m, next) ==
  /\ mask' = [mask EXCEPT ![w] = m]
  /\ Deliver({<<w, s>> : s \in pending[w] \ m}, mask', [pending EXCEPT ![w] = @ \cap m], next)

(* sigaction(): to ignore a signal discards a pending one.                 *)
SetAction(w, S, what) ==
  /\ disp' = [disp EXCEPT ![w] = [s \in Sig |-> IF s \in S THEN what ELSE @[s]]]
  /\ pending' = IF what = "ignore" THEN [pending EXCEPT ![w] = @ \ S] ELSE pending

-----------------------------------------------------------------------------
RunInit ==
  /\ main = "ready" /\ at = "none"
  /\ disp = [w \in Who |-> [s \in Sig |-> "handler"]] /\ old = "handler"
  /\ mask = [w \in Who |-> {}] /\ pending = [w \in Who |-> {}]
  /\ sig_exit = FALSE
  /\ sti = "raw" /\ port = "ppcom"
  /\ table = {} /\ wired = FALSE
  /\ runs = 0 /\ sent = 0
  /\ early = FALSE /\ heeds = TRUE /\ blame = {}

Others == UNCHANGED <<runs, sent>>
NoSignal == UNCHANGED <<disp, old, mask, pending, sig_exit, early>>
Child == UNCHANGED <<table, wired, heeds>>

(* ppcom ignores SIGINT, blocks SIGTERM and SIGINT, and forks.             *)
IgnoreInt == /\ main = "ready" /\ runs < MaxRuns
             /\ old' = disp["ppcom"]["INT"]
             /\ SetAction("ppcom", {"INT"}, "ignore")
             /\ main' = "block" /\ runs' = runs + 1
             /\ UNCHANGED <<at, mask, sig_exit, early, sti, port, sent, blame>> /\ Child

Block == /\ main = "block"
         /\ SetMask("ppcom", Sig, at)
         /\ main' = "fork"
         /\ UNCHANGED <<disp, old, sti, port, blame>> /\ Child /\ Others

Fork == /\ main = "fork"
        /\ \/ /\ main' = "unblock" /\ at' = "remove"
              /\ disp' = [disp EXCEPT !["child"] = disp["ppcom"]]
              /\ mask' = [mask EXCEPT !["child"] = mask["ppcom"]]
              /\ pending' = [pending EXCEPT !["child"] = {}]
              /\ table' = {"STI", "port"} /\ wired' = FALSE /\ heeds' = TRUE
              /\ UNCHANGED <<old, sig_exit, early, blame>>
           \/ /\ MayFail("fork")
              /\ main' = "forkless" /\ blame' = blame \cup {"fork"}
              /\ UNCHANGED at /\ NoSignal /\ Child
        /\ UNCHANGED <<sti, port>> /\ Others

(* Without a child the mask is put back, and the action of SIGINT is not.  *)
Unblock == /\ main \in {"unblock", "forkless"}
           /\ SetMask("ppcom", {}, at)
           /\ main' = IF main = "unblock" THEN "wait" ELSE "back"
           /\ UNCHANGED <<disp, old, sti, port, blame>> /\ Child /\ Others

(* waitpid() is called again when a signal interrupts it.                  *)
Wait == /\ main = "wait" /\ at = "ended"
        /\ main' = "apply" /\ at' = "none"
        /\ UNCHANGED <<sti, port, blame>> /\ NoSignal /\ Child /\ Others

Apply == /\ main = "apply"
         /\ \/ sti' = "raw" /\ UNCHANGED blame
            \/ MayFail("setattr") /\ blame' = blame \cup {"setattr"} /\ UNCHANGED sti
         /\ main' = "enable"
         /\ UNCHANGED <<at, port>> /\ NoSignal /\ Child /\ Others

EnableInt == /\ main = "enable"
             /\ SetAction("ppcom", {"INT"}, old)
             /\ main' = "back"
             /\ UNCHANGED <<at, old, mask, sig_exit, early, sti, port, blame>>
             /\ Child /\ Others

(* The loop ends after a signal; otherwise another command may come.       *)
Again == /\ main = "back" /\ ~sig_exit
         /\ main' = "ready"
         /\ UNCHANGED <<at, sti, port, blame>> /\ NoSignal /\ Child /\ Others

Parent == IgnoreInt \/ Block \/ Fork \/ Unblock \/ Wait \/ Apply \/ EnableInt \/ Again

-----------------------------------------------------------------------------
(* The child.                                                              *)
Goes(from, to) == at = from /\ at' = to /\ UNCHANGED <<main, runs, sent>>

(* term_remove(STI) frees the slot whether or not the reset works.         *)
RemoveTerminal ==
  /\ Goes("remove", "erase")
  /\ table' = table \ {"STI"}
  /\ \/ sti' = "found" /\ UNCHANGED blame
     \/ MayFail("setattr") /\ blame' = blame \cup {"setattr"} /\ UNCHANGED sti
  /\ UNCHANGED <<port, wired, heeds>> /\ NoSignal

(* Faulty variant: the port stays managed.                                 *)
StillManaged == table

(* term_erase(fd): the table without the port, which keeps its settings.   *)
Erased == table \ {"port"}

ErasePort == /\ Goes("erase", "wire")
             /\ table' = Erased
             /\ UNCHANGED <<sti, port, wired, heeds, blame>> /\ NoSignal

WirePort == /\ Goes("wire", "parse")
            /\ wired' = TRUE
            /\ UNCHANGED <<sti, port, table, heeds, blame>> /\ NoSignal

(* split_quoted() of the command and of the file name; no command at all.  *)
ParseCommand == /\ \/ Goes("parse", "handlers")
                   \/ MayFail("split") /\ Goes("parse", "exit")
                /\ UNCHANGED <<sti, port, blame>> /\ NoSignal /\ Child

establish_child_signal_handlers ==
  /\ Goes("handlers", "unmask")
  /\ SetAction("child", Sig, "default")
  /\ UNCHANGED <<old, mask, sig_exit, early, sti, port, blame>> /\ Child

(* Faulty variant: the mask that ppcom blocks signals with.                *)
MaskKept == Sig

(* The mask from before run_cmd().                                         *)
ChildMask == {}

UnmaskChild == /\ at = "unmask"
               /\ SetMask("child", ChildMask, "exec")
               /\ UNCHANGED <<main, disp, old, sti, port, blame>> /\ Child /\ Others

Exec == /\ \/ Goes("exec", "program")
           \/ MayFail("exec") /\ Goes("exec", "exit")
        /\ UNCHANGED <<sti, port, blame>> /\ NoSignal /\ Child

(* exit() runs the library's exit handler on the child's table; after      *)
(* dup2() its standard input is the port.                                  *)
ExitChild ==
  /\ Goes("exit", "ended")
  /\ sti' = IF "STI" \in table /\ ~wired THEN "found" ELSE sti
  /\ port' = CASE "port" \in table          -> "found"
               [] "STI" \in table /\ wired  -> "terminal's"
               [] OTHER                     -> port
  /\ UNCHANGED blame /\ NoSignal /\ Child

ChildStep == \/ RemoveTerminal \/ ErasePort \/ WirePort \/ ParseCommand
             \/ establish_child_signal_handlers \/ UnmaskChild \/ Exec \/ ExitChild

(* The external program sets the terminals, or looks after its signals     *)
(* itself, and ends, or does not.                                          *)
Program ==
  /\ at = "program" /\ UNCHANGED <<main, runs, sent>>
  /\ \/ /\ sti' \in {sti, "other"} /\ port' \in {port, "other"}
        /\ blame' = IF port' # port THEN blame \cup {"program"} ELSE blame
        /\ UNCHANGED at /\ NoSignal /\ Child
     \/ /\ SetAction("child", Sig, "ignore") /\ heeds' = FALSE
        /\ UNCHANGED <<at, old, mask, sig_exit, early, sti, port, table, wired, blame>>
     \/ /\ at' = "ended"
        /\ UNCHANGED <<sti, port, blame>> /\ NoSignal /\ Child

(* C-c, when the terminal is not raw, goes to both; kill(1) to anyone.     *)
Signal(ws, s) ==
  /\ sent < MaxSignals /\ sent' = sent + 1
  /\ Deliver({<<w, s>> : w \in {x \in ws : Alive(x)}}, mask, pending, at)
  /\ UNCHANGED <<main, disp, old, mask, sti, port, runs, blame>> /\ Child

Interrupt == sti # "raw" /\ Signal(Who, "INT")
Kill == \E ws \in {{"ppcom"}, {"child"}, Who}, s \in Sig : Signal(ws, s)

RunNext == Parent \/ ChildStep \/ Program \/ Interrupt \/ Kill

RunSpec == RunInit /\ [][RunNext]_runvars
FairRunSpec == RunSpec /\ WF_runvars(Parent) /\ WF_runvars(ChildStep)
-----------------------------------------------------------------------------
(* After a command, however it ended, ppcom handles its signals again, the *)
(* user's terminal is raw, and the port has the settings it had but for    *)
(* what the program did to it: the child, which ends through exit() when   *)
(* there is no program to run, resets neither.  Where fork() has failed,   *)
(* once, SIGINT is ignored from then on, and what is wrong after a failed  *)
(* tcsetattr() is the user's terminal only.                                *)
BackAsBefore ==
  main = "back" =>
    /\ mask["ppcom"] = {} /\ disp["ppcom"]["TERM"] = "handler"
    /\ disp["ppcom"]["INT"] = "handler" \/ "fork" \in blame
    /\ sti = "raw" \/ "setattr" \in blame
    /\ port = "ppcom" \/ "program" \in blame

(* The program starts with the default actions, with no signal blocked or  *)
(* lost on the way - one that was sent to the child before has ended it -, *)
(* on a terminal in the mode it was found in, wired to the port.           *)
ProgramStartsClean ==
  [][at # "program" /\ at' = "program" =>
       /\ \A s \in Sig : disp["child"][s] = "default"
       /\ mask["child"] = {} /\ pending["child"] = {}
       /\ wired /\ table = {}
       /\ sti = "found" \/ "setattr" \in blame]_runvars

(* To the rest of ppcom a command is one stay of a child: TransferAbs.     *)
Stage == IF main \notin {"unblock", "wait", "apply"} THEN "loop"
         ELSE IF at \in {"none", "ended"} THEN "over"
         ELSE IF at = "program" THEN "program"
         ELSE "child"

Abs == INSTANCE TransferAbs WITH stage <- Stage, terminal <- sti, line <- port

(* However the steps of the two processes and the signals interleave, and  *)
(* whichever calls fail, the user's terminal and the port are changed as   *)
(* and when the transfer promises, and a child that never becomes the      *)
(* program, or is killed on its way, leaves the port alone.                *)
ImplementsTransfer == Abs!Spec

(* A signal that ppcom handles while it has a child ends the command, even *)
(* when it comes before the child has become the program, unless the       *)
(* program looks after SIGTERM itself.  One handled before the fork is not *)
(* passed on: the command runs to its end, and ppcom ends after it.        *)
KillEndsCommand ==
  (main \in {"unblock", "wait"} /\ sig_exit /\ ~early) ~> (main = "back" \/ ~heeds)
=============================================================================
