------------------------------ MODULE Session ------------------------------
(***************************************************************************)
(* The main loop of ppcom (ppcom/src/ppcom.cpp, loop(), do_command() and   *)
(* tty_q_push()): bytes from standard input, from the serial port and from *)
(* the control socket, the queue of bytes to be written to the port, the   *)
(* command mode, signals, and every way the loop ends.                     *)
(*                                                                         *)
(* "pc" is the place in one turn of the loop:                              *)
(*   check    while ( ! sig_exit ), then the descriptor sets are built     *)
(*   enter    select() is about to be called                               *)
(*   select   inside select()                                              *)
(*   stdin, chars, prompt, port, write, ctl, ctlchars                      *)
(*            the handlers of what select() reported, in this order        *)
(*   ended    loop() returned, or fatal() or abort() was called            *)
(***************************************************************************)
EXTENDS Integers, Sequences, FiniteSets

CONSTANTS
  Byte,          \* the bytes that may be typed or received
  Escape,        \* opts.escape
  Return,        \* the byte that ends a prompt
  Cancel, Erase, \* the bytes that cancel it, that erase its last byte
  MaxLine,       \* the bytes a prompt holds
  Newline, Nul,  \* the bytes that end a line, and a string, on the control socket
  Key,           \* Key[b]: what do_command(b) does
  OutMap,        \* OutMap[b]: do_map(opts.omap, b); <<>> fails its assertion
  EchoMap,       \* the same for opts.emap
  InMap,         \* the same for opts.imap
  TTY_Q_SZ_MIN, TTY_Q_SZ, M_MAXMAP,
  WriteSize,     \* tty_write_sz
  STI_RD_SZ, CtlReadSize,
  NoEscape,      \* opts.noescape
  Lecho,         \* the values opts.lecho may start with
  Exit,          \* opts.exit
  ExitAfter,     \* the values of opts.exit_after >= 0 to consider
  InitString,    \* opts.initstring as mapped and queued before the loop
  Fallible,      \* the calls that may fail
  MaxTyped, MaxPort, MaxCtl, MaxStops, \* bounds on the environment
  Signals        \* TRUE: TERM or INT may arrive

Keys == {"exit", "quit", "set", "lecho", "hex", "baud", "file", "other"}
Calls == {"select", "stdin", "port", "stdout", "log", "write", "realloc", "flush"}

ASSUME SessionAssumption ==
  /\ Escape \in Byte /\ Return \in Byte
  /\ Newline \subseteq Byte /\ Nul \subseteq Byte
  /\ Cancel \subseteq Byte \ {Return} /\ Erase \subseteq Byte \ {Return} /\ MaxLine \in Nat
  /\ Key \in [Byte -> Keys]
  /\ OutMap \in [Byte -> Seq(Byte)] /\ EchoMap \in [Byte -> Seq(Byte)]
  /\ InMap \in [Byte -> Seq(Byte)]
  /\ M_MAXMAP \in Nat \ {0}
  /\ \A b \in Byte : Len(OutMap[b]) <= M_MAXMAP
  /\ TTY_Q_SZ_MIN \in Nat /\ TTY_Q_SZ \in Nat /\ M_MAXMAP <= TTY_Q_SZ_MIN
  /\ TTY_Q_SZ # 0 => TTY_Q_SZ_MIN <= TTY_Q_SZ
  /\ WriteSize \in Nat \ {0} /\ STI_RD_SZ \in Nat \ {0} /\ CtlReadSize \in Nat \ {0}
  /\ {NoEscape, Exit, Signals} \subseteq BOOLEAN
  /\ Lecho \subseteq BOOLEAN /\ ExitAfter \subseteq BOOLEAN
  /\ InitString \in Seq(Byte) /\ Len(InitString) <= TTY_Q_SZ_MIN
  /\ Fallible \subseteq Calls
  /\ {MaxTyped, MaxPort, MaxCtl, MaxStops} \subseteq Nat

VARIABLES
  pc,
  state,         \* ST_TRANSPARENT or ST_COMMAND
  exit_after,    \* opts.exit_after >= 0, which --exit overrides
  stdin_closed, sig_exit,
  noreset,       \* opts.noreset
  lecho,         \* opts.lecho
  nonblock,      \* O_NONBLOCK is set on the port
  buf, size,     \* tty_q.buff and tty_q.len; tty_q.sz
  rd,            \* bytes read and not yet handled
  ask, line,     \* the prompt that is open, what was entered so far
  ready,         \* the descriptors select() reported
  ler            \* why the loop ended

(* Environment: what waits on each descriptor, and how much more may come. *)
VARIABLES typed, eof, fromPort, ctl, flowing, left

(* History: the bytes accepted under the present port settings (mapped),   *)
(* and those of them written; the bytes handled, and what became of each.  *)
(* Where the loop was when the signal came.                                *)
VARIABLES due, sent, raw, did, failed, caught

loopvars == <<pc, state, exit_after, stdin_closed, sig_exit, noreset, lecho, nonblock,
              buf, size, rd, ask, line, ready, ler>>
envvars == <<typed, eof, fromPort, ctl, flowing, left>>
history == <<due, sent, raw, did, failed, caught>>
vars == <<loopvars, envvars, history>>
-----------------------------------------------------------------------------
Least(m, n) == IF m < n THEN m ELSE n
Front(s, n) == SubSeq(s, 1, Least(n, Len(s)))
After(s, n) == SubSeq(s, n + 1, Len(s))

(* The loop ends for reason r.                                             *)
End(r) == pc' = "ended" /\ ler' = r

(* fatal(): the call c failed.                                             *)
FatalIf(c) == c \in Fallible /\ End("FATAL") /\ failed' = TRUE

-----------------------------------------------------------------------------
(* The output queue.                                                       *)
(* Faulty variant: one byte is taken to need one place.                    *)
FitsOne(s) == Len(buf) + 1 <= s

(* Faulty variant: the buffer stops short of its limit.                    *)
MayGrowShort == TTY_Q_SZ = 0 \/ 2 * size < TTY_Q_SZ

Fits(s) == Len(buf) + M_MAXMAP <= s
MayGrow == TTY_Q_SZ = 0 \/ 2 * size <= TTY_Q_SZ
Grown == IF Fits(size) THEN size ELSE 2 * size

(* tty_q_push() of one byte; the loop goes on at "place".  The buffer is   *)
(* doubled when the mapped byte might not fit; doubling once is enough.    *)
(* The byte is refused when the buffer is at its limit or realloc() fails. *)
tty_q_push(b, place) ==
  \/ /\ Fits(size) \/ MayGrow
     /\ OutMap[b] # <<>> /\ (lecho => EchoMap[b] # <<>>)
     /\ buf' = buf \o OutMap[b]
     /\ size' = Grown
     /\ due' = due \o OutMap[b]
     /\ pc' = place
     /\ UNCHANGED <<ler, failed>>
  \/ /\ ~Fits(size) /\ (~MayGrow \/ "realloc" \in Fallible)
     /\ pc' = place
     /\ UNCHANGED <<buf, size, due, ler, failed>>
  \/ /\ Fits(size) \/ MayGrow
     /\ \/ (OutMap[b] = <<>> \/ (lecho /\ EchoMap[b] = <<>>)) /\ End("ABORT") /\ UNCHANGED failed
        \/ lecho /\ FatalIf("stdout")
     /\ UNCHANGED <<buf, size, due>>

(* Faulty variant: the queue survives a change of the port settings.       *)
KeepQueue == /\ sent' = <<>> /\ due' = <<>>
             /\ fromPort' = 0
             /\ UNCHANGED buf

(* tty_q.len = 0; term_flush(tty_fd), in every command that changes the    *)
(* port settings: what was accepted under the old ones is discarded, and   *)
(* so is what the port received and nobody read, unless tcflush() fails.   *)
DropQueue == /\ buf' = <<>>
             /\ sent' = <<>> /\ due' = <<>>
             /\ fromPort' \in IF "flush" \in Fallible THEN {0, fromPort} ELSE {0}

-----------------------------------------------------------------------------
(* Faulty variant: the queue is not waited for.                            *)
InputDoneAtOnce == stdin_closed /\ ~exit_after

(* Standard input is closed, the queue is written, no idle timeout.        *)
InputDone == stdin_closed /\ ~exit_after /\ buf = <<>>

(* The head of the loop: leave it, or wait for the descriptors.            *)
Check ==
  /\ pc = "check"
  /\ \/ sig_exit /\ End("LE_SIGNAL")
     \/ ~sig_exit /\ InputDone /\ End("LE_STDIN")
     \/ /\ ~sig_exit /\ ~InputDone
        /\ pc' = "enter"
        /\ UNCHANGED ler
  /\ UNCHANGED <<state, exit_after, stdin_closed, sig_exit, noreset, lecho, nonblock, buf,
                 size, rd, ask, line, ready, envvars, history>>

EnterSelect == /\ pc = "enter"
               /\ pc' = "select"
               /\ UNCHANGED <<state, exit_after, stdin_closed, sig_exit, noreset, lecho, nonblock,
                              buf, size, rd, ask, line, ready, ler, envvars, history>>

(* Faulty variant: the port is written to only while there is input.       *)
PendingOpen == {f \in {"stdin", "port", "ctl", "write"} :
                  \/ f = "stdin" /\ ~stdin_closed /\ (typed # <<>> \/ eof)
                  \/ f = "port" /\ ~Exit /\ fromPort > 0
                  \/ f = "ctl" /\ ctl # <<>>
                  \/ f = "write" /\ ~stdin_closed /\ buf # <<>> /\ flowing}

(* The descriptors in the sets given to select() that are ready.           *)
Pending == {f \in {"stdin", "port", "ctl", "write"} :
              \/ f = "stdin" /\ ~stdin_closed /\ (typed # <<>> \/ eof)
              \/ f = "port" /\ ~Exit /\ fromPort > 0
              \/ f = "ctl" /\ ctl # <<>>
              \/ f = "write" /\ buf # <<>> /\ flowing}

Select ==
  /\ pc = "select"
  /\ \/ Pending # {} /\ ready' = Pending /\ pc' = "stdin" /\ UNCHANGED <<ler, failed>>
     \/ /\ Pending = {} /\ buf = <<>> /\ exit_after
        /\ End("LE_IDLE")
        /\ UNCHANGED <<ready, failed>>
     \/ FatalIf("select") /\ UNCHANGED ready
  /\ UNCHANGED <<state, exit_after, stdin_closed, sig_exit, noreset, lecho, nonblock, buf,
                 size, rd, ask, line, envvars, due, sent, raw, did, caught>>

ReadStdin ==
  /\ pc = "stdin"
  /\ \/ /\ "stdin" \notin ready
        /\ pc' = "port"
        /\ UNCHANGED <<rd, typed, stdin_closed, ler, failed>>
     \/ /\ "stdin" \in ready /\ typed # <<>>
        /\ rd' = Front(typed, STI_RD_SZ) /\ typed' = After(typed, STI_RD_SZ)
        /\ pc' = "chars"
        /\ UNCHANGED <<stdin_closed, ler, failed>>
     \/ /\ "stdin" \in ready /\ typed = <<>>
        /\ stdin_closed' = TRUE
        /\ pc' = "port"
        /\ UNCHANGED <<rd, typed, ler, failed>>
     \/ /\ "stdin" \in ready
        /\ FatalIf("stdin")
        /\ UNCHANGED <<rd, typed, stdin_closed>>
  /\ UNCHANGED <<state, exit_after, sig_exit, noreset, lecho, nonblock, buf, size, ask, line,
                 ready, eof, fromPort, ctl, flowing, left, due, sent, raw, did,
                 caught>>

-----------------------------------------------------------------------------
(* One byte of what was read from standard input.                          *)
Handled(b, what) == /\ rd' = Tail(rd)
                    /\ raw' = Append(raw, b)
                    /\ did' = did \o what

(* Faulty variant: the escape character is one in command mode, too.       *)
AnyEscape(b) == ~NoEscape /\ b = Escape

EscapeByte(b) == state = "TRANSPARENT" /\ ~NoEscape /\ b = Escape
KeyByte(b) == state = "COMMAND" /\ b # Escape

IntoCommandMode(b) ==
  /\ EscapeByte(b)
  /\ state' = "COMMAND"
  /\ Handled(b, <<>>)
  /\ UNCHANGED <<pc, noreset, lecho, buf, size, ask, line, ler, fromPort, due, sent, failed>>

DataByte(b) ==
  /\ ~EscapeByte(b) /\ ~KeyByte(b)
  /\ state' = "TRANSPARENT"
  /\ tty_q_push(b, "chars")
  /\ Handled(b, <<<<"data", b>>>>)
  /\ UNCHANGED <<noreset, lecho, ask, line, fromPort, sent>>

(* do_command(b), up to the prompt it may open.                            *)
do_command(b) ==
  /\ KeyByte(b)
  /\ state' = "TRANSPARENT"
  /\ Handled(b, <<<<"command", b>>>>)
  /\ \/ /\ Key[b] \in {"exit", "quit"}
        /\ noreset' = (noreset \/ Key[b] = "quit")
        /\ End("LE_CMD")
        /\ UNCHANGED <<lecho, buf, fromPort, due, sent, ask, line>>
     \/ /\ Key[b] = "set"
        /\ DropQueue
        /\ UNCHANGED <<pc, noreset, lecho, ask, line, ler>>
     \/ /\ Key[b] = "lecho"
        /\ lecho' = ~lecho
        /\ UNCHANGED <<pc, noreset, buf, fromPort, due, sent, ask, line, ler>>
     \/ /\ Key[b] \in {"hex", "baud", "file"}
        /\ ask' = Key[b] /\ line' = <<>>
        /\ pc' = "prompt"
        /\ UNCHANGED <<noreset, lecho, buf, fromPort, due, sent, ler>>
     \/ /\ Key[b] = "other"
        /\ UNCHANGED <<pc, noreset, lecho, buf, fromPort, due, sent, ask, line, ler>>
  /\ UNCHANGED <<size, failed>>

StdinByte ==
  /\ pc = "chars"
  /\ \/ /\ rd = <<>>
        /\ pc' = "port"
        /\ UNCHANGED <<state, noreset, lecho, buf, size, rd, ask, line, ler, fromPort, due, sent,
                       raw, did, failed>>
     \/ /\ rd # <<>>
        /\ LET b == Head(rd)
           IN  IntoCommandMode(b) \/ DataByte(b) \/ do_command(b)
  /\ UNCHANGED <<exit_after, stdin_closed, sig_exit, nonblock, ready, typed, eof, ctl, flowing,
                 left, caught>>

(* Faulty variant: no place is kept for the zero that ends the string.     *)
EnteredPast(b) == IF b \in Erase THEN Front(line, Len(line) - 1)
                  ELSE IF Len(line) <= MaxLine THEN Append(line, b) ELSE line

(* What is in the prompt after byte b.                                     *)
Entered(b) == IF b \in Erase THEN Front(line, Len(line) - 1)
              ELSE IF Len(line) < MaxLine THEN Append(line, b) ELSE line

(* fd_readline(): the bytes are read from standard input itself, past the  *)
(* ones that were read together with the command key.  CTRL-c, end of file *)
(* or an error cancels the command.                                        *)
PromptByte ==
  /\ pc = "prompt" /\ typed # <<>> /\ Head(typed) \notin Cancel \cup {Return}
  /\ line' = Entered(Head(typed))
  /\ typed' = Tail(typed)
  /\ UNCHANGED <<pc, state, exit_after, stdin_closed, sig_exit, noreset, lecho, nonblock, buf, size,
                 rd, ask, ready, ler, eof, fromPort, ctl, flowing, left, history>>

PromptCancel ==
  /\ pc = "prompt"
  /\ \/ /\ (typed = <<>> /\ eof) \/ "stdin" \in Fallible
        /\ UNCHANGED typed
     \/ /\ typed # <<>> /\ Head(typed) \in Cancel
        /\ typed' = Tail(typed)
  /\ pc' = "chars"
  /\ UNCHANGED <<state, exit_after, stdin_closed, sig_exit, noreset, lecho, nonblock, buf, size,
                 rd, ask, line, ready, ler, eof, fromPort, ctl, flowing, left, history>>

(* Return: the hex or the baudrate may be invalid and is then asked for    *)
(* again (what was entered stands for the bytes that it denotes); a file   *)
(* name starts the transfer program, which leaves the port in blocking     *)
(* mode and may read what the port received, unless fork() fails.          *)
PromptReturn ==
  /\ pc = "prompt" /\ typed # <<>> /\ Head(typed) = Return
  /\ typed' = Tail(typed)
  /\ \/ /\ ask # "file"
        /\ line' = <<>>
        /\ UNCHANGED <<pc, buf, fromPort, due, sent, nonblock>>
     \/ /\ ask = "hex"
        /\ pc' = "hex"
        /\ UNCHANGED <<line, buf, fromPort, due, sent, nonblock>>
     \/ /\ ask = "baud"
        /\ DropQueue
        /\ pc' = "chars"
        /\ UNCHANGED <<line, nonblock>>
     \/ /\ ask = "file"
        /\ \/ nonblock' = FALSE /\ fromPort' \in 0 .. fromPort
           \/ UNCHANGED <<nonblock, fromPort>>
        /\ pc' = "chars"
        /\ UNCHANGED <<line, buf, due, sent>>
  /\ UNCHANGED <<state, exit_after, stdin_closed, sig_exit, noreset, lecho, size, rd, ask, ready,
                 ler, eof, ctl, flowing, left, raw, did, failed, caught>>

(* KEY_HEX pushes what was entered, up to the first byte refused.          *)
HexByte ==
  /\ pc = "hex"
  /\ \/ /\ line = <<>>
        /\ pc' = "chars"
        /\ UNCHANGED <<line, buf, size, due, ler, failed>>
     \/ /\ line # <<>>
        /\ tty_q_push(Head(line), "hex")
        /\ line' = IF due' = due THEN <<>> ELSE Tail(line)
  /\ UNCHANGED <<state, exit_after, stdin_closed, sig_exit, noreset, lecho, nonblock, rd, ask,
                 ready, envvars, sent, raw, did, caught>>

-----------------------------------------------------------------------------
(* Bytes from the port: to the log, to the message socket and, mapped, to  *)
(* standard output.  Zero bytes read is an error.  A command handled since *)
(* select() may have taken them: read() then finds nothing (EAGAIN), and   *)
(* in blocking mode it waits for the next byte, called again on EINTR.     *)
(* The message socket is taken to have room; Ffwd says when it has not.    *)
ReadPort ==
  /\ pc = "port"
  /\ \/ /\ "port" \notin ready
        /\ pc' = "write"
        /\ UNCHANGED <<fromPort, ler, failed>>
     \/ /\ "port" \in ready /\ fromPort = 0 /\ nonblock
        /\ pc' = "write"
        /\ UNCHANGED <<fromPort, ler, failed>>
     \/ /\ "port" \in ready /\ fromPort > 0
        /\ fromPort' = fromPort - 1
        /\ \E b \in Byte : IF InMap[b] # <<>> THEN pc' = "write" /\ UNCHANGED ler
                           ELSE End("ABORT")
        /\ UNCHANGED failed
     \/ /\ "port" \in ready
        /\ FatalIf("port") \/ FatalIf("log") \/ FatalIf("stdout")
        /\ UNCHANGED fromPort
  /\ UNCHANGED <<state, exit_after, stdin_closed, sig_exit, noreset, lecho, nonblock, buf, size, rd,
                 ask, line, ready, typed, eof, ctl, flowing, left, due, sent, raw, did, caught>>

(* Bytes to the port, if select() found it writable.  In blocking mode     *)
(* write() returns when the driver has taken all of the bytes; a signal    *)
(* does not end it, since it is called again on EINTR.  A command handled  *)
(* since select() may have emptied the queue: a write of no bytes then     *)
(* returns zero, which is taken for a failure.                             *)
WritePort ==
  /\ pc = "write"
  /\ LET n == Least(Len(buf), WriteSize)
     IN  \/ /\ "write" \notin ready
            /\ pc' = "ctl"
            /\ UNCHANGED <<buf, sent, ler, failed>>
         \/ /\ "write" \in ready /\ n > 0
            /\ \E k \in 1 .. n : /\ nonblock \/ (k = n /\ flowing)
                                 /\ sent' = sent \o Front(buf, k)
                                 /\ buf' = After(buf, k)
            /\ pc' = "ctl"
            /\ UNCHANGED <<ler, failed>>
         \/ /\ "write" \in ready
            /\ \/ n = 0 /\ End("FATAL") /\ UNCHANGED failed
               \/ FatalIf("write")
               \/ lecho /\ FatalIf("log")
            /\ UNCHANGED <<buf, sent>>
  /\ UNCHANGED <<state, exit_after, stdin_closed, sig_exit, noreset, lecho, nonblock, size, rd, ask,
                 line, ready, envvars, due, raw, did, caught>>

(* The first line of what is read from the control socket, with its        *)
(* newline.  The rest is lost: the newline is overwritten by the zero that *)
(* ends the string, and a zero received ends it, too.                      *)
FirstLine(s) ==
  LET ends == {i \in DOMAIN s : s[i] \in Newline \cup Nul}
      first == CHOOSE i \in ends : \A j \in ends : i <= j
  IN  IF ends = {} THEN s ELSE Front(s, IF s[first] \in Nul THEN first - 1 ELSE first)

ReadCtl ==
  /\ pc = "ctl"
  /\ \/ "ctl" \notin ready /\ pc' = "check" /\ UNCHANGED <<rd, ctl>>
     \/ /\ "ctl" \in ready
        /\ rd' = FirstLine(Front(ctl, CtlReadSize))
        /\ ctl' = After(ctl, CtlReadSize)
        /\ pc' = "ctlchars"
  /\ UNCHANGED <<state, exit_after, stdin_closed, sig_exit, noreset, lecho, nonblock, buf, size, ask,
                 line, ready, ler, typed, eof, fromPort, flowing, left, history>>

CtlByte ==
  /\ pc = "ctlchars"
  /\ \/ /\ rd = <<>>
        /\ pc' = "check"
        /\ UNCHANGED <<rd, buf, size, due, ler, failed>>
     \/ /\ rd # <<>>
        /\ tty_q_push(Head(rd), "ctlchars")
        /\ rd' = Tail(rd)
  /\ UNCHANGED <<state, exit_after, stdin_closed, sig_exit, noreset, lecho, nonblock, ask, line,
                 ready, envvars, sent, raw, did, caught>>

-----------------------------------------------------------------------------
(* The environment: the user, the device, the clients of the socket, and   *)
(* signals.                                                                *)
Input ==
  /\ pc # "ended"
  /\ \/ /\ ~eof /\ left.typed > 0
        /\ \E b \in Byte : typed' = Append(typed, b)
        /\ left' = [left EXCEPT !.typed = @ - 1]
        /\ UNCHANGED <<eof, fromPort, ctl, flowing>>
     \/ /\ ~eof /\ eof' = TRUE
        /\ UNCHANGED <<typed, fromPort, ctl, flowing, left>>
     \/ /\ left.port > 0
        /\ fromPort' = fromPort + 1
        /\ left' = [left EXCEPT !.port = @ - 1]
        /\ UNCHANGED <<typed, eof, ctl, flowing>>
     \/ /\ left.ctl > 0
        /\ \E b \in Byte : ctl' = Append(ctl, b)
        /\ left' = [left EXCEPT !.ctl = @ - 1]
        /\ UNCHANGED <<typed, eof, fromPort, flowing>>
     \/ /\ flowing /\ left.stops > 0
        /\ flowing' = FALSE
        /\ left' = [left EXCEPT !.stops = @ - 1]
        /\ UNCHANGED <<typed, eof, fromPort, ctl>>
  /\ UNCHANGED <<loopvars, history>>

PeerResumes == /\ pc # "ended" /\ ~flowing
               /\ flowing' = TRUE
               /\ UNCHANGED <<loopvars, typed, eof, fromPort, ctl, left, history>>

(* Faulty variant: select() is called again when a signal interrupts it.   *)
Restarted(p) == IF p = "prompt" THEN "chars" ELSE p

(* Where the loop goes on after a signal: a blocked select() or read() of  *)
(* a prompt returns with EINTR.                                            *)
Resumed(p) == CASE p = "select" -> "check"
                [] p = "prompt" -> "chars"
                [] OTHER -> p

(* deadly_handler() only sets sig_exit.                                    *)
deadly_handler ==
  /\ Signals /\ pc # "ended" /\ ~sig_exit
  /\ sig_exit' = TRUE
  /\ pc' = Resumed(pc)
  /\ caught' = pc
  /\ UNCHANGED <<state, exit_after, stdin_closed, noreset, lecho, nonblock, buf, size, rd, ask, line,
                 ready, ler, envvars, due, sent, raw, did, failed>>

-----------------------------------------------------------------------------
Init ==
  /\ pc = "check" /\ state = "TRANSPARENT"
  /\ exit_after \in IF Exit THEN {FALSE} ELSE ExitAfter
  /\ stdin_closed = Exit /\ sig_exit = FALSE
  /\ noreset = FALSE /\ lecho \in Lecho /\ nonblock = TRUE
  /\ buf = InitString /\ size = TTY_Q_SZ_MIN
  /\ rd = <<>> /\ ask = "hex" /\ line = <<>> /\ ready = {} /\ ler = "none"
  /\ typed = <<>> /\ eof = FALSE /\ fromPort = 0 /\ ctl = <<>> /\ flowing = TRUE
  /\ left = [typed |-> MaxTyped, port |-> MaxPort, ctl |-> MaxCtl, stops |-> MaxStops]
  /\ due = InitString /\ sent = <<>> /\ raw = <<>> /\ did = <<>> /\ failed = FALSE
  /\ caught = "nowhere"

(* One step of loop(), a single thread.                                    *)
Loop == \/ Check \/ EnterSelect \/ Select \/ ReadStdin \/ StdinByte \/ PromptByte
        \/ PromptCancel \/ PromptReturn \/ HexByte \/ ReadPort \/ WritePort
        \/ ReadCtl \/ CtlByte

Next == Loop \/ Input \/ PeerResumes \/ deadly_handler

Spec == Init /\ [][Next]_vars

(* The loop is scheduled whenever it can run; nothing is assumed of the    *)
(* environment.                                                            *)
FairSpec == Spec /\ WF_vars(Loop)

-----------------------------------------------------------------------------
Budget == [typed : 0 .. MaxTyped, port : 0 .. MaxPort, ctl : 0 .. MaxCtl,
           stops : 0 .. MaxStops]
Places == {"check", "enter", "select", "stdin", "chars", "prompt", "hex", "port",
           "write", "ctl", "ctlchars", "ended"}

TypeOK ==
  /\ pc \in Places /\ state \in {"TRANSPARENT", "COMMAND"}
  /\ {exit_after, stdin_closed, sig_exit, noreset, lecho, nonblock, eof, flowing, failed} \subseteq BOOLEAN
  /\ buf \in Seq(Byte) /\ size \in Nat
  /\ rd \in Seq(Byte) /\ ask \in {"hex", "baud", "file"}
  /\ line \in Seq(Byte) /\ Len(line) <= MaxLine
  /\ ready \subseteq {"stdin", "port", "ctl", "write"}
  /\ ler \in {"none", "LE_CMD", "LE_IDLE", "LE_STDIN", "LE_SIGNAL", "FATAL", "ABORT"}
  /\ typed \in Seq(Byte) /\ fromPort \in Nat /\ ctl \in Seq(Byte) /\ left \in Budget
  /\ due \in Seq(Byte) /\ sent \in Seq(Byte) /\ raw \in Seq(Byte)
  /\ did \in Seq({"data", "command"} \X Byte)
  /\ caught \in Places \cup {"nowhere"}

(* tty_q_push() never writes past the end of the buffer it allocated, and  *)
(* the buffer stays within TTY_Q_SZ.                                       *)
QueueInBounds == /\ Len(buf) <= size
                 /\ TTY_Q_SZ # 0 => size <= TTY_Q_SZ

(* What was written to the port under the present settings, followed by    *)
(* what is queued, is what was accepted under the present settings, each   *)
(* byte mapped: nothing is lost, repeated or reordered by short writes and *)
(* growing buffers, and nothing accepted under other settings is sent.     *)
PortGetsWhatWasAccepted == sent \o buf = due

(* A byte is a function character iff an odd number of escape characters   *)
(* precedes it: the keys take effect the same way however the bytes were   *)
(* divided into reads.                                                     *)
FunctionAt(i) ==
  /\ ~NoEscape
  /\ \E n \in 1 .. i - 1 : /\ n % 2 = 1
                           /\ \A j \in i - n .. i - 1 : raw[j] = Escape
                           /\ i - n > 1 => raw[i - n - 1] # Escape
EscapeAt(i) == ~NoEscape /\ raw[i] = Escape /\ ~FunctionAt(i)

(* How many of the first i bytes have an effect of their own.              *)
Effects(i) == Cardinality({j \in 1 .. i : ~EscapeAt(j)})
KeysTakeEffect ==
  /\ Len(did) = Effects(Len(raw))
  /\ \A i \in DOMAIN raw : ~EscapeAt(i) =>
       did[Effects(i)] = <<IF FunctionAt(i) /\ raw[i] # Escape THEN "command" ELSE "data", raw[i]>>

(* The loop ends on end of file only when all that was typed was handled   *)
(* and, like on idling, all that was accepted is written.                  *)
EofDrains ==
  /\ ler \in {"LE_STDIN", "LE_IDLE"} => sent = due /\ rd = <<>>
  /\ ler = "LE_STDIN" /\ ~Exit => typed = <<>>

(* A byte from standard input is refused only when the queue is at its     *)
(* limit, to the size of one mapped byte (without realloc() failures).     *)
RefusedOnlyWhenFull ==
  [][pc = "chars" /\ did' # did /\ did'[Len(did')][1] = "data" /\ due' = due
     /\ pc' = "chars" => TTY_Q_SZ # 0 /\ Len(buf) + M_MAXMAP > TTY_Q_SZ]_vars

(* The manual: after an operation other than exit and quit the program     *)
(* goes on in transparent mode.  It is only stopped by a real error.       *)
FatalMeansFailure == ler = "FATAL" => failed

(* The blocking read of a port whose input, reported by select(), was      *)
(* flushed or taken by a transfer program before it was read.              *)
Starved == pc = "port" /\ "port" \in ready /\ fromPort = 0 /\ ~nonblock

(* The manual: end of file on standard input ends ppcom after its output   *)
(* queue has been written (without --exit-after).  The peer keeps it from  *)
(* that when it stops the flow for ever, or when it is silent for ever     *)
(* while ppcom waits in the read of an input that it lost.                 *)
EofEnds == eof ~> (pc = "ended" \/ []~flowing \/ []Starved)

(* The manual: ppcom is killed by the TERM or INT signal, as if by the exit *)
(* command.  It is, wherever the signal comes, but in four cases.  One     *)
(* that comes after sig_exit was tested and before select() or a prompt is *)
(* entered has to wait there for the next input.  And after a transfer the *)
(* port is in blocking mode, so that a write waits for the peer, and so    *)
(* does a read whose input was flushed or taken since select().            *)
KillEndsOrWaits ==
  sig_exit ~> \/ pc = "ended"
              \/ caught = "enter" /\ pc = "select" /\ Pending = {}
              \/ /\ caught \notin {"check", "select"}
                 /\ pc = "prompt" /\ typed = <<>> /\ ~eof
              \/ ~nonblock /\ pc = "write" /\ ~flowing
              \/ Starved
=============================================================================
