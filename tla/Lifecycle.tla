----------------------------- MODULE Lifecycle -----------------------------
(***************************************************************************)
(* The life of the ppcom process (ppcom/src/ppcom.cpp: main(), cleanup(),  *)
(* fatal(), and what do_command() and run_cmd() do to the terminals),      *)
(* composed with the library of Term: every call main() makes is a step of *)
(* Term's, and its return value decides where main() goes on.              *)
(*                                                                         *)
(* "pc" names the next call: start open add lines apply lines2 status      *)
(* stdin raw rawapply queue - loop cmdflush cmdapply child - cleanup drain *)
(* flush fake hupcl capply erase exit done, or aborted.                    *)
(***************************************************************************)
EXTENDS Term

CONSTANTS
  STI, TTY,      \* the descriptors of standard input and of the port
  Config,        \* the line settings given by the options
  Options,       \* the options ppcom may be started with
  KeySpeed,      \* the baudrates the commands set
  FlushWorks,    \* tcflush() of the port's driver discards its output
  CleanupWorks,  \* no call of cleanup() and of the exit handler fails to set
  Mishaps        \* what may go wrong: open, alloc, loop, assert

ASSUME LifecycleAssumption ==
  /\ {STI, TTY} \subseteq FD /\ STI # TTY
  /\ Options \subseteq [noinit : BOOLEAN, noreset : BOOLEAN, hangup : BOOLEAN,
                        exit : BOOLEAN, flow : Flow]
  /\ \A s \in KeySpeed : \E a \in SetArgs : a.baud = s
  /\ \A h \in BOOLEAN, f \in Flow : [Config EXCEPT !.hupcl = h, !.flow = f] \in SetArgs
  /\ Config \in [raw : {TRUE}, baud : Speed, parity : Parity, bits : DataBits,
                 stop : StopBits, flow : Flow, local : BOOLEAN, hupcl : BOOLEAN]
  /\ {FlushWorks, CleanupWorks} \subseteq BOOLEAN
  /\ Mishaps \subseteq {"open", "alloc", "loop", "assert"}

VARIABLES
  pc,
  opts,      \* the options; noreset and flow change
  open,      \* tty_fd >= 0
  outq,      \* the O/S holds output of the port that is not transmitted
  stopped,   \* the peer has stopped the flow
  killed,    \* sig_exit
  how,       \* why the process ends
  hungup,    \* the modem lines were cleared when the port was closed
  found,     \* history: the devices' settings when ppcom was started
  last       \* history: the port and whether it was managed at cleanup

process == <<pc, opts, open, outq, stopped, killed, how, hungup, found, last>>
lvars == <<vars, process>>

Running == pc \notin {"done", "aborted"}
-----------------------------------------------------------------------------
(* The value returned is tested, and fatal() called on a failure.          *)
OrFatal(next) == \/ rval' = 0 /\ pc' = next /\ UNCHANGED how
                 \/ rval' = -1 /\ pc' = "cleanup" /\ how' = "FATAL"

(* A library call whose failure is fatal, and one whose result is ignored. *)
Try(call, next) == call /\ UNCHANGED <<init, exited>> /\ OrFatal(next)

Ignore(call, next) ==
  /\ call
  /\ UNCHANGED <<init, exited, how>>
  /\ pc' = next

(* A step of main() that calls no function of the library.                 *)
Go(next) == pc' = next /\ UNCHANGED <<vars, how>>

(* fatal().                                                                *)
Fatal == pc' = "cleanup" /\ how' = "FATAL" /\ UNCHANGED vars

(* One setter: what it makes of the next settings of fd.                   *)
Setter(fd, Set(_)) ==
  \E a \in SetArgs : /\ term_set_one(fd, a)
                     /\ Managed(fd) => nxt'[Find(fd)] = Set(nxt[Find(fd)])

-----------------------------------------------------------------------------
(* main(), up to the loop.                                                 *)
StartArgs == [Config EXCEPT !.hupcl = ~opts.noreset, !.flow = opts.flow]

LibInit == /\ pc = "start"
           /\ term_lib_init
           /\ OrFatal("open")
           /\ UNCHANGED <<opts, open, outq, stopped, killed, hungup, found, last>>

(* The log file, then the port.                                            *)
OpenPort == /\ pc = "open"
            /\ \/ Go("add") /\ open' = TRUE
               \/ "open" \in Mishaps /\ Fatal /\ UNCHANGED open
            /\ UNCHANGED <<opts, outq, stopped, killed, hungup, found, last>>

AddPort == /\ pc = "add"
           /\ Try(IF opts.noinit THEN term_add(TTY) ELSE term_set(TTY, StartArgs), "lines")
           /\ UNCHANGED <<opts, open, outq, stopped, killed, hungup, found, last>>

(* set_dtr_rts(), before and after the port is configured.                 *)
set_dtr_rts == /\ pc \in {"lines", "lines2"}
               /\ Try(term_device_call(TTY), IF pc = "lines" THEN "apply" ELSE "status")
               /\ rval' = -1 => MayFail("mctl")
               /\ UNCHANGED <<opts, open, outq, stopped, killed, hungup, found, last>>

ConfigurePort == /\ pc = "apply"
                 /\ Try(term_apply(TTY), "lines2")
                 /\ UNCHANGED <<opts, open, outq, stopped, killed, hungup, found, last>>

(* show_status(1), unless --quiet or --noinit is given.                    *)
CheckSettings == /\ pc = "status"
                 /\ \/ ~opts.noinit /\ Ignore(term_refresh(TTY), "stdin")
                    \/ Go("stdin")
                 /\ UNCHANGED <<opts, open, outq, stopped, killed, hungup, found, last>>

AddStdin == /\ pc = "stdin"
            /\ IF opts.exit \/ STI \notin Ttys THEN Go("queue")
               ELSE Try(term_add(STI), "raw")
            /\ UNCHANGED <<opts, open, outq, stopped, killed, hungup, found, last>>

SetStdinRaw == /\ pc = "raw"
               /\ Ignore(Setter(STI, SetRaw), "rawapply")
               /\ UNCHANGED <<opts, open, outq, stopped, killed, hungup, found, last>>

ConfigureStdin == /\ pc = "rawapply"
                  /\ Try(term_apply(STI), "queue")
                  /\ UNCHANGED <<opts, open, outq, stopped, killed, hungup, found, last>>

(* The output queue and the init string.                                   *)
MakeQueue == /\ pc = "queue"
             /\ Go("loop") \/ ("alloc" \in Mishaps /\ Fatal)
             /\ UNCHANGED <<opts, open, outq, stopped, killed, hungup, found, last>>

-----------------------------------------------------------------------------
(* loop(): what it does to the terminals, and how it ends.  A signal is    *)
(* looked at once per turn, so that the rest of a turn, in which keys and  *)
(* the end of the input are handled, may come after it.                    *)
WriteToPort == /\ pc = "loop"
               /\ outq' = TRUE
               /\ UNCHANGED <<vars, pc, opts, open, stopped, killed, how, hungup, found, last>>

FlowNext(f) == CASE f = "FC_NONE" -> "FC_RTSCTS"
                 [] f = "FC_RTSCTS" -> "FC_XONXOFF"
                 [] OTHER -> "FC_NONE"

(* A command key may be typed.                                             *)
KeyTyped == pc = "loop" /\ ~opts.exit

(* A key that changes a setting: the next settings are changed, the output *)
(* is flushed, the settings are applied, whatever the calls return.        *)
SettingKey ==
  /\ KeyTyped
  /\ \/ /\ opts' = [opts EXCEPT !.flow = FlowNext(@)]
        /\ Ignore(Setter(TTY, LAMBDA t : SetFlow(t, opts'.flow)), "cmdflush")
     \/ /\ \E s \in KeySpeed : Ignore(Setter(TTY, LAMBDA t : SetBaud(t, s)), "cmdflush")
        /\ UNCHANGED opts
  /\ UNCHANGED <<open, outq, stopped, killed, hungup, found, last>>

Flushed == IF rval' = 0 /\ FlushWorks THEN FALSE ELSE outq

FlushForKey == /\ pc = "cmdflush"
               /\ Ignore(term_device_call(TTY), "cmdapply")
               /\ outq' = Flushed
               /\ UNCHANGED <<opts, open, stopped, killed, hungup, found, last>>

ApplyForKey == /\ pc = "cmdapply"
               /\ Ignore(term_apply(TTY), "loop")
               /\ UNCHANGED <<opts, open, outq, stopped, killed, hungup, found, last>>

StatusKey == /\ KeyTyped
             /\ Ignore(term_refresh(TTY), "loop")
             /\ UNCHANGED <<opts, open, outq, stopped, killed, hungup, found, last>>

(* run_cmd(): the child puts standard input back in its own copy of the    *)
(* table, and the transfer program sets it as it likes.  Then ppcom applies *)
(* its settings again.                                                     *)
Transfer == /\ KeyTyped
            /\ pc' = "child"
            /\ UNCHANGED vars \/ (Managed(STI) /\ OutsideChange(STI))
            /\ UNCHANGED <<opts, open, outq, stopped, killed, how, hungup, found, last>>

BackToRaw == /\ pc = "child"
             /\ Ignore(term_apply(STI), "loop")
             /\ UNCHANGED <<opts, open, outq, stopped, killed, hungup, found, last>>

(* Exit or quit key, signal, end of the input or idling, fatal().          *)
LeaveLoop ==
  /\ pc = "loop"
  /\ pc' = "cleanup"
  /\ \/ KeyTyped /\ how' = "LE_CMD" /\ opts' \in {opts, [opts EXCEPT !.noreset = TRUE]}
     \/ killed /\ how' = "LE_SIGNAL" /\ UNCHANGED opts
     \/ how' = "LE_STDIN" /\ UNCHANGED opts
     \/ "loop" \in Mishaps /\ how' = "FATAL" /\ UNCHANGED opts
  /\ UNCHANGED <<vars, open, outq, stopped, killed, hungup, found, last>>

(* The assertion of do_map() fails: no exit(3), no cleanup.  The thread of *)
(* the forwarding server may abort the process too, see Ffwd.              *)
Abort == /\ pc = "loop" /\ "assert" \in Mishaps
         /\ pc' = "aborted"
         /\ UNCHANGED <<vars, opts, open, outq, stopped, killed, how, hungup, found, last>>

-----------------------------------------------------------------------------
(* What cleanup() is called with: only the end of the input, or idling,    *)
(* lets the output be drained.                                             *)
DrainAsked == how = "LE_STDIN"

(* cleanup(drain, opts.noreset, opts.hangup)                               *)
Cleanup == /\ pc = "cleanup"
           /\ pc' = CASE ~open -> "exit"
                      [] open /\ DrainAsked -> "drain"
                      [] OTHER -> "flush"
           /\ last' = [port |-> dev[TTY], managed |-> Managed(TTY)]
           /\ UNCHANGED <<vars, opts, open, outq, stopped, killed, how, hungup, found>>

(* The output of the port is, or can be, transmitted.                      *)
Drains == ~outq \/ ~stopped \/ GetFlow(dev[TTY]) = "FC_NONE"

DrainPort == /\ pc = "drain"
             /\ Managed(TTY) => Drains
             /\ Ignore(term_device_call(TTY), "flush")
             /\ outq' = IF rval' = 0 THEN FALSE ELSE outq
             /\ UNCHANGED <<opts, open, stopped, killed, hungup, found, last>>

FlushPort == /\ pc = "flush"
             /\ Ignore(term_device_call(TTY), "fake")
             /\ outq' = Flushed
             /\ UNCHANGED <<opts, open, stopped, killed, hungup, found, last>>

(* Faulty variant: tcflush() is trusted.                                   *)
NeverFaked == FALSE

MayNotFlush == opts.flow # "FC_NONE"

FakeFlush == /\ pc = "fake"
             /\ \/ MayNotFlush /\ Ignore(term_fake_flush(TTY), "hupcl")
                \/ ~MayNotFlush /\ Go("hupcl")
             /\ outq' = IF MayNotFlush /\ rval' = 0 THEN FALSE ELSE outq
             /\ UNCHANGED <<opts, open, stopped, killed, hungup, found, last>>

(* Faulty variant: --hangup without the rest of the rule.                  *)
HangupOnly == opts.hangup

Hangup == ~opts.noreset \/ opts.hangup

SetHangup == /\ pc = "hupcl"
             /\ Ignore(Setter(TTY, LAMBDA t : SetHupcl(t, Hangup)), "capply")
             /\ UNCHANGED <<opts, open, outq, stopped, killed, hungup, found, last>>

(* Faulty variant: the port is kept as it is only after the quit command.  *)
KeptByQuit == opts.noreset /\ how = "LE_CMD"

KeepPort == opts.noreset

ApplyHangup == /\ pc = "capply"
               /\ Ignore(term_apply(TTY), IF KeepPort THEN "erase" ELSE "exit")
               /\ CleanupWorks /\ Managed(TTY) => rval' = 0
               /\ UNCHANGED <<opts, open, outq, stopped, killed, hungup, found, last>>

(* Without reset: forget the port and close it.                            *)
ErasePort == /\ pc = "erase"
             /\ Drains
             /\ Ignore(term_erase(TTY), "exit")
             /\ open' = FALSE
             /\ hungup' = Hupcl(dev[TTY])
             /\ outq' = FALSE
             /\ UNCHANGED <<opts, stopped, killed, found, last>>

(* exit(3) runs the handler of the library, which drains, resets and       *)
(* closes what is still managed; the rest is closed by the system.         *)
Exit == /\ pc = "exit"
        /\ open => Drains
        /\ term_exitfunc
        /\ CleanupWorks => \A fd \in {STI, TTY} :
             Managed(fd) => dev'[fd] = Adopt[orig[Find(fd)]]
        /\ pc' = "done"
        /\ hungup' = IF open THEN Hupcl(dev'[TTY]) ELSE hungup
        /\ open' = FALSE /\ outq' = FALSE
        /\ UNCHANGED <<opts, stopped, killed, how, found, last>>

-----------------------------------------------------------------------------
(* The environment: a TERM or INT signal, and the peer, which transmits    *)
(* the output unless it has stopped the flow.                              *)
deadly_handler == /\ Running /\ ~killed
                  /\ killed' = TRUE
                  /\ UNCHANGED <<vars, pc, opts, open, outq, stopped, how, hungup, found, last>>

Peer == /\ Running
        /\ \/ stopped' = ~stopped /\ UNCHANGED outq
           \/ outq /\ Drains /\ outq' = FALSE /\ UNCHANGED stopped
        /\ UNCHANGED <<vars, pc, opts, open, killed, how, hungup, found, last>>

LifeInit == /\ Init
            /\ pc = "start" /\ opts \in Options /\ open = FALSE
            /\ outq = FALSE /\ stopped \in BOOLEAN /\ killed = FALSE
            /\ how = "none" /\ hungup = FALSE
            /\ found = dev /\ last = [port |-> dev[TTY], managed |-> FALSE]

Startup == \/ LibInit \/ OpenPort \/ AddPort \/ set_dtr_rts \/ ConfigurePort
           \/ CheckSettings \/ AddStdin \/ SetStdinRaw \/ ConfigureStdin \/ MakeQueue

InLoop == \/ WriteToPort \/ SettingKey \/ FlushForKey \/ ApplyForKey \/ StatusKey
          \/ Transfer \/ BackToRaw \/ LeaveLoop \/ Abort

Ending == \/ Cleanup \/ DrainPort \/ FlushPort \/ FakeFlush \/ SetHangup
          \/ ApplyHangup \/ ErasePort \/ Exit

LifeNext == Startup \/ InLoop \/ Ending \/ deadly_handler \/ Peer

Life == LifeInit /\ [][LifeNext]_lvars

(* Once cleanup() is entered the process is scheduled, and a call that     *)
(* blocks returns when what it waits for is possible again and again.      *)
(* Nothing is assumed before that: the loop may wait for its input, for a  *)
(* transfer program or for the peer, with a signal pending or without one  *)
(* (see Session).  The peer owes nothing.                                  *)
FairLife == Life /\ SF_lvars(Ending)

-----------------------------------------------------------------------------
(* The user's terminal is put back as it was, whatever ended ppcom and     *)
(* whatever a transfer program made of it.                                 *)
StdinRestored == pc = "done" => dev[STI] = found[STI]

(* The manual, EXITING PICOCOM: without --noreset (or quit) the port is    *)
(* reset to its original settings, however ppcom ends and whatever failed  *)
(* before; HUPCL is left as the NOTICE of --noreset says.                  *)
PortRestored ==
  pc = "done" /\ last.managed /\ ~opts.noreset => dev[TTY] = SetHupcl(found[TTY], Hangup)

(* With --noreset (or quit) the port keeps the settings it had.            *)
PortKept ==
  pc = "done" /\ last.managed /\ opts.noreset => dev[TTY] = SetHupcl(last.port, Hangup)

(* The manual, NOTICE of --noreset: the modem lines are cleared at the     *)
(* close iff --noreset is not in force or --hangup is given, regardless of *)
(* the way ppcom terminates and of --noinit.                               *)
HangupAsDocumented ==
  pc = "done" /\ last.managed => hungup = (~opts.noreset \/ opts.hangup)

(* The peer keeps the output of a port that ppcom did not initialise: with *)
(* --noinit the flow control option is not what the port has.              *)
HeldByPeer == opts.noinit /\ outq /\ stopped /\ GetFlow(dev[TTY]) # "FC_NONE"

(* The peer does not take what is drained at the end of the input: that    *)
(* drain is called again on EINTR.                                         *)
HeldInDrain == pc = "drain" /\ how = "LE_STDIN" /\ outq /\ stopped

(* The comment in cleanup(): the fake flush is there so that neither a     *)
(* drain nor the close blocks for ever on a peer that stopped the flow.    *)
(* So once ppcom ends, for whatever reason, it does end, but for the drain *)
(* that the end of the input asks for and for HeldByPeer, which the        *)
(* condition of the fake flush, opts.flow, leaves out.  This is where no   *)
(* call fails; a change of the flow control that fails, or that a device   *)
(* refuses, leaves opts.flow and the port apart in the same way.           *)
ExitReached == how # "none" ~> (pc = "done" \/ []HeldByPeer \/ []HeldInDrain)
=============================================================================
