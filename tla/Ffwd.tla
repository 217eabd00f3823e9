-------------------------------- MODULE Ffwd --------------------------------
(***************************************************************************)
(* The forwarding server of ppcom (ppcom/src/ffwd.cpp with libffwd's Epoll *)
(* and SocketServer) and the thread that runs loop(), from init() to the   *)
(* end of the process.  What the port says goes from loop() through a      *)
(* connection of ppcom to itself to the server's thread, which writes it   *)
(* to the clients of the message port; what a client of the control port   *)
(* says takes the way back and is typed.                                   *)
(*                                                                         *)
(* main: start ownmsg ownctl (the connection being made) loop forward stop *)
(* close destroy cleanup done aborted.  srv: none wait sleep events send.  *)
(***************************************************************************)
EXTENDS Integers, Sequences, FiniteSets

CONSTANTS
  Client,      \* the programs that connect, to the message port
  CtlClient,   \* or, these of them, to the control port
  CapSrv,      \* the bytes that a socket holds on their way to the server
  CapCli,      \* and on their way back
  ReadSize,    \* sizeof(buffer)
  ZeroAt,      \* which of the bytes of the port are zero
  Taken,       \* whether another ppcom may listen on the ports already
  Fails,       \* whether socket() or connect() may fail
  Early,       \* clients may connect before ppcom does so itself
  MaxSaid, MaxSends, MaxConnects   \* bounds on the port and the clients

Own == {"ownmsg", "ownctl"}   \* msgfd and ctlfd
Conn == Client \cup Own

ASSUME FfwdAssumption ==
  /\ CtlClient \subseteq Client /\ IsFiniteSet(Client)
  /\ Client \cap (Own \cup {"port", "msg", "ctl"}) = {}
  /\ {CapSrv, CapCli, ReadSize} \subseteq Nat \ {0}
  /\ ZeroAt \subseteq Nat /\ {Taken, Fails} \subseteq SUBSET BOOLEAN
  /\ Early \in BOOLEAN
  /\ {MaxSaid, MaxSends, MaxConnects} \subseteq Nat

VARIABLES
  main, srv,    \* where the two threads are
  how,          \* why loop() ended
  sig_exit,
  pending,      \* what loop() has still to write to msgfd
  listening,    \* the two sockets of the server are open
  epollOpen     \* mepoll exists

(* A connection: waiting to be accepted, up at the client's end, what is   *)
(* on its way, and the last byte of the port that the client has read.     *)
VARIABLES conn, up, toSrv, toCli, heard

(* The server's tables: the descriptor of a connection, client_fds of each *)
(* SocketServer, the callbacks of mepoll.                                  *)
VARIABLES fd, client_fds, cbs

(* The events of one wait, the buffer of a callback, what of it is to be   *)
(* written to the first of the targets.                                    *)
VARIABLES active, buffer, rest, targets

VARIABLES said, left   \* bytes the port has said; budgets of the clients

mainvars == <<main, how, sig_exit, pending, said>>
conns == <<conn, up, toSrv, toCli, heard>>
tables == <<fd, client_fds, cbs>>
turn == <<active, buffer, rest, targets>>
vars == <<mainvars, conns, tables, turn, srv, listening, epollOpen, left>>

Port(c) == IF c \in CtlClient \cup {"ownctl"} THEN "ctl" ELSE "msg"
Listener(p) == IF p = "msg" THEN 1 ELSE 2
Fd == 1 .. 2 + Cardinality(Conn)

(* A byte is who said it, and its number if it was the port.  A string     *)
(* ends at its first zero byte.                                            *)
FromPort(n) == <<"port", n>>
IsZero(b) == b[1] = "port" /\ b[2] \in ZeroAt
Text(s) == LET zeros == {i \in DOMAIN s : IsZero(s[i])}
           IN  IF zeros = {} THEN s
               ELSE SubSeq(s, 1, (CHOOSE i \in zeros : \A j \in zeros : i <= j) - 1)

Least(m, n) == IF m < n THEN m ELSE n
Front(s, n) == SubSeq(s, 1, Least(n, Len(s)))
After(s, n) == SubSeq(s, n + 1, Len(s))

(* The list without f, which is in it once at most: what erase() leaves,   *)
(* and the targets of a callback.                                          *)
Without(s, f) ==
  LET kept[n \in 0 .. Len(s)] == IF n = 0 THEN <<>>
                                 ELSE IF s[n] = f THEN kept[n - 1]
                                 ELSE Append(kept[n - 1], s[n])
  IN  kept[Len(s)]

Running == main \notin {"done", "aborted"}
-----------------------------------------------------------------------------
(* A connection is made, and is closed from the client's end: if it had    *)
(* not read all, what it sent may be lost with it.                         *)
Reach(c) == /\ conn' = [conn EXCEPT ![c] = "waiting"]
            /\ up' = [up EXCEPT ![c] = TRUE]
            /\ toSrv' = [toSrv EXCEPT ![c] = <<>>]
            /\ UNCHANGED <<toCli, heard>>

HangUp(C) == /\ up' = [c \in Conn |-> up[c] /\ c \notin C]
             /\ heard' = [c \in Conn |-> IF c \in C THEN 0 ELSE heard[c]]
             /\ toCli' = [c \in Conn |-> IF c \in C THEN <<>> ELSE toCli[c]]
             /\ toSrv' \in {toSrv, [c \in Conn |-> IF c \in C /\ toCli[c] # <<>> THEN <<>>
                                                   ELSE toSrv[c]]}
-----------------------------------------------------------------------------
(* ffwd::init(), in the thread of loop().  start() only reports that it    *)
(* cannot listen; epoll_ctl() then refuses the descriptor that start()     *)
(* closed, and nobody catches what addSt() throws.                         *)
startSrv ==
  /\ main = "start"
  /\ \E taken \in Taken :
       IF taken THEN main' = "aborted" /\ UNCHANGED <<srv, listening, cbs>>
       ELSE /\ main' = "ownmsg" /\ srv' = "wait" /\ listening' = TRUE
            /\ cbs' = [cbs EXCEPT ![1] = "accept", ![2] = "accept"]
  /\ UNCHANGED <<how, sig_exit, pending, said, conns, fd, client_fds, turn, epollOpen, left>>

(* setup_socket() returns 1 when it fails, which init() takes for the      *)
(* descriptor, and loop() for msgfd or ctlfd.                              *)
setup_socket ==
  /\ main \in Own
  /\ \E fails \in Fails : IF fails THEN UNCHANGED conns ELSE Reach(main)
  /\ main' = IF main = "ownmsg" THEN "ownctl" ELSE "loop"
  /\ UNCHANGED <<how, sig_exit, pending, said, tables, turn, srv, listening, epollOpen, left>>

(* loop(): bytes from the port, or with --echo those written to it, go to  *)
(* msgfd with writen_ni() until all are written; a signal does not end it. *)
(* Without a connection msgfd is 1 and they go to the standard output.     *)
PortSays ==
  /\ main = "loop" /\ ~sig_exit /\ said < MaxSaid
  /\ \E k \in 1 .. MaxSaid - said :
       /\ pending' = [i \in 1 .. k |-> FromPort(said + i)]
       /\ said' = said + k
  /\ main' = "forward"
  /\ UNCHANGED <<how, sig_exit, conns, tables, turn, srv, listening, epollOpen, left>>

(* Faulty variant: a short write is repeated from the start.               *)
Unforgotten(s, k) == IF k < Len(s) THEN s ELSE <<>>

Unwritten(s, k) == After(s, k)

(* Faulty variant: one write() is taken for all.                           *)
AfterOneWrite(s) == "loop"

AfterWrite(s) == IF s = <<>> THEN "loop" ELSE "forward"

ToMsgfd ==
  /\ up["ownmsg"] /\ Len(toSrv["ownmsg"]) < CapSrv
  /\ LET k == Least(CapSrv - Len(toSrv["ownmsg"]), Len(pending))
     IN  /\ toSrv' = [toSrv EXCEPT !["ownmsg"] = @ \o Front(pending, k)]
         /\ pending' = Unwritten(pending, k)

ToStdout == ~up["ownmsg"] /\ pending' = <<>> /\ UNCHANGED toSrv

Forward ==
  /\ main = "forward"
  /\ ToMsgfd \/ ToStdout
  /\ main' = AfterWrite(pending')
  /\ UNCHANGED <<how, sig_exit, said, conn, up, toCli, heard, tables, turn, srv, listening,
                 epollOpen, left>>

(* What comes back from the server on ctlfd is typed.  (What loop() reads  *)
(* of descriptor 1, when it has no ctlfd, is not the server's.)            *)
ReadCtl ==
  /\ main = "loop" /\ ~sig_exit /\ toCli["ownctl"] # <<>>
  /\ toCli' = [toCli EXCEPT !["ownctl"] = After(@, ReadSize)]
  /\ UNCHANGED <<mainvars, conn, up, toSrv, heard, tables, turn, srv, listening, epollOpen, left>>

(* loop() ends, but not if fatal() is called in it.                        *)
EndLoop ==
  /\ main = "loop"
  /\ \/ sig_exit /\ how' = "LE_SIGNAL" /\ main' = "stop"
     \/ ~sig_exit /\ how' = "LE_CMD" /\ main' = "stop"
     \/ ~sig_exit /\ how' = "FATAL" /\ main' = "cleanup"
  /\ UNCHANGED <<sig_exit, pending, said, conns, tables, turn, srv, listening, epollOpen, left>>

(* ffwd::exit(): the server's sockets, then ppcom's own connections.       *)
stopSrv ==
  /\ main = "stop"
  /\ main' = "close"
  /\ listening' = FALSE
  /\ conn' = [c \in Conn |-> IF conn[c] = "waiting" THEN "none" ELSE conn[c]]
  /\ up' = [c \in Conn |-> up[c] /\ conn[c] # "waiting"]
  /\ UNCHANGED <<how, sig_exit, pending, said, toSrv, toCli, heard, tables, turn, srv, epollOpen, left>>

CloseOwn ==
  /\ main = "close"
  /\ main' = "destroy"
  /\ HangUp(Own)
  /\ UNCHANGED <<how, sig_exit, pending, said, conn, tables, turn, srv, listening, epollOpen, left>>

(* loop() returns: mffwd and its mepoll are destroyed, the thread of the   *)
(* server is not.                                                          *)
DestroyEpoll ==
  /\ main = "destroy"
  /\ main' = "cleanup"
  /\ epollOpen' = FALSE
  /\ UNCHANGED <<how, sig_exit, pending, said, conns, tables, turn, srv, listening, left>>

(* cleanup() and exit(3), which end every thread.                          *)
Finish ==
  /\ main = "cleanup"
  /\ main' = "done"
  /\ UNCHANGED <<how, sig_exit, pending, said, conns, tables, turn, srv, listening, epollOpen, left>>

-----------------------------------------------------------------------------
(* The thread of the server, after mepoll is destroyed: Epoll::wait()      *)
(* throws when epoll_wait() fails, and nobody catches it; anything may     *)
(* happen in a callback.                                                   *)
UseDestroyed ==
  /\ Running /\ ~epollOpen /\ srv \in {"wait", "events", "send"}
  /\ main' = "aborted"
  /\ UNCHANGED <<how, sig_exit, pending, said, conns, tables, turn, srv, listening, epollOpen, left>>

ReadyFds ==
  {fd[c] : c \in {d \in Conn : conn[d] = "accepted" /\ (toSrv[d] # <<>> \/ ~up[d])}}
    \cup {Listener(Port(c)) : c \in {d \in Conn : conn[d] = "waiting"}}

(* Faulty variant: the thread ends when nothing happens.                   *)
EndIdle == "none"

(* After a wait without events the thread sleeps, which is part of "wait". *)
Idle == "wait"

EpollWait ==
  /\ Running /\ srv = "wait"
  /\ active' = ReadyFds
  /\ srv' = IF ReadyFds = {} THEN Idle ELSE "events"
  /\ UNCHANGED <<mainvars, conns, tables, buffer, rest, targets, listening, epollOpen, left>>

(* acceptClient(), and the callback for the new descriptor, which is the   *)
(* lowest that is free.                                                    *)
acceptClient(c) ==
  LET free == {f \in Fd \ {1, 2} : \A d \in Conn : fd[d] # f}
      f == CHOOSE g \in free : \A h \in free : g <= h
  IN  /\ conn[c] = "waiting"
      /\ conn' = [conn EXCEPT ![c] = "accepted"]
      /\ fd' = [fd EXCEPT ![c] = f]
      /\ client_fds' = [client_fds EXCEPT ![Port(c)] = Append(@, f)]
      /\ cbs' = [cbs EXCEPT ![f] = Port(c)]
      /\ srv' = "events"
      /\ UNCHANGED <<up, toSrv, toCli, heard, buffer, rest, targets>>

(* Faulty variant: the descriptor stays in the list of the first server.   *)
RemovedFrom(p, f) == IF p = "msg" THEN client_fds
                     ELSE [client_fds EXCEPT ![p] = Without(@, f)]

removeClient(p, f) == [client_fds EXCEPT ![p] = Without(@, f)]

(* Faulty variant: the sender gets its message, too.                       *)
Everyone(list, f) == list

Others(list, f) == Without(list, f)

(* ppcom_EpollCallbackMsg() and ppcom_EpollCallbackCtl(): what is read is  *)
(* written to the other clients of the port.  After the end of the         *)
(* connection the buffer, which was not initialised, is written to them.   *)
EpollCallback(c) ==
  LET f == fd[c]
      p == Port(c)
  IN  /\ \/ /\ toSrv[c] # <<>>
            /\ toSrv' = [toSrv EXCEPT ![c] = After(@, ReadSize)]
            /\ buffer' = Text(Front(toSrv[c], ReadSize))
            /\ UNCHANGED <<conn, toCli, tables>>
         \/ /\ toSrv[c] = <<>>
            /\ conn' = [conn EXCEPT ![c] = "none"]
            /\ toCli' = [toCli EXCEPT ![c] = <<>>]
            /\ fd' = [fd EXCEPT ![c] = 0]
            /\ client_fds' = removeClient(p, f)
            /\ cbs' = [cbs EXCEPT ![f] = "none"]
            /\ buffer' \in {<<>>, <<<<p, 0>>>>}
            /\ UNCHANGED toSrv
      /\ targets' = Others(client_fds'[p], f)
      /\ rest' = buffer'
      /\ srv' = "send"
      /\ UNCHANGED <<up, heard>>

(* The next event of a wait.  A listening socket may be closed by now.     *)
NextEvent ==
  /\ Running /\ srv = "events"
  /\ IF active = {} THEN srv' = "wait" /\ UNCHANGED <<active, conns, tables, buffer, rest, targets>>
     ELSE \E f \in active :
            /\ active' = active \ {f}
            /\ \/ \E c \in Conn : /\ cbs[f] = "accept" /\ f = Listener(Port(c))
                                  /\ acceptClient(c)
               \/ \E c \in Conn : fd[c] = f /\ EpollCallback(c)
               \/ /\ cbs[f] = "accept" /\ ~listening
                  /\ UNCHANGED <<srv, conns, tables, buffer, rest, targets>>
  /\ UNCHANGED <<mainvars, listening, epollOpen, left>>

(* On to the next target.                                                  *)
NextTarget == /\ targets' = Tail(targets)
              /\ rest' = buffer

(* write() to the first target waits for room; to a client that has gone   *)
(* it fails, which nobody looks at.                                        *)
Holder(f) == CHOOSE c \in Conn : fd[c] = f

Send ==
  /\ Running /\ srv = "send"
  /\ \/ targets = <<>> /\ srv' = "events" /\ UNCHANGED <<toCli, rest, targets>>
     \/ /\ targets # <<>>
        /\ LET c == Holder(Head(targets))
               k == Least(CapCli - Len(toCli[c]), Len(rest))
           IN  \/ up[c] /\ rest # <<>> /\ k > 0
                  /\ toCli' = [toCli EXCEPT ![c] = @ \o Front(rest, k)]
                  /\ IF k = Len(rest) THEN NextTarget
                     ELSE rest' = After(rest, k) /\ UNCHANGED targets
               \/ (~up[c] \/ rest = <<>>) /\ NextTarget /\ UNCHANGED toCli
        /\ UNCHANGED srv
  /\ UNCHANGED <<mainvars, conn, up, toSrv, heard, tables, active, buffer, listening, epollOpen, left>>

(* deadly_handler() runs in the thread of loop() and sends TERM to the     *)
(* process.  While it handles the first TERM that thread has it blocked,   *)
(* and the server's gets the second: a wait fails, a write fails.  After   *)
(* INT it need not.                                                        *)
deadly_handler ==
  /\ Running /\ main # "start" /\ ~sig_exit
  /\ sig_exit' = TRUE
  /\ \/ UNCHANGED <<main, rest, targets>>
     \/ srv = "wait" /\ main' = "aborted" /\ UNCHANGED <<rest, targets>>
     \/ srv = "send" /\ targets # <<>> /\ NextTarget /\ UNCHANGED main
  /\ UNCHANGED <<how, pending, said, conns, tables, active, buffer, srv, listening, epollOpen, left>>

-----------------------------------------------------------------------------
(* The clients, until loop() ends and what they do is lost with it.        *)

(* The numbers of the port's bytes that client c has read last, or that    *)
(* wait for it: the n-th place, or 0 if it holds another's byte.           *)
Nr(c, n) == IF n = 0 THEN heard[c]
            ELSE IF toCli[c][n][1] = "port" THEN toCli[c][n][2] ELSE 0

Places(c) == 0 .. Len(toCli[c])

(* The last number that is not followed by another.                        *)
IsLast(c, n) == \A k \in Places(c) : k > n => Nr(c, k) = 0

Connect(c) ==
  /\ listening
  /\ Early \/ (main \notin Own /\ \A d \in Own : conn[d] # "waiting")
  /\ conn[c] = "none" /\ ~up[c] /\ left.connects > 0
  /\ Reach(c)
  /\ left' = [left EXCEPT !.connects = @ - 1]
  /\ UNCHANGED <<mainvars, tables, turn, srv, listening, epollOpen>>

Say(c) ==
  /\ up[c] /\ Len(toSrv[c]) < CapSrv /\ left.sends > 0
  /\ toSrv' = [toSrv EXCEPT ![c] = Append(@, <<c, 0>>)]
  /\ left' = [left EXCEPT !.sends = @ - 1]
  /\ UNCHANGED <<mainvars, conn, up, toCli, heard, tables, turn, srv, listening, epollOpen>>

Hear(c) ==
  /\ up[c] /\ toCli[c] # <<>>
  /\ toCli' = [toCli EXCEPT ![c] = <<>>]
  /\ \E n \in Places(c) : /\ IsLast(c, n) /\ (n > 0 => Nr(c, n) > 0)
                          /\ heard' = [heard EXCEPT ![c] = Nr(c, n)]
  /\ UNCHANGED <<mainvars, conn, up, toSrv, tables, turn, srv, listening, epollOpen, left>>

Disconnect(c) ==
  /\ up[c]
  /\ HangUp({c})
  /\ UNCHANGED <<mainvars, conn, tables, turn, srv, listening, epollOpen, left>>

Clients == /\ main \in Own \cup {"loop", "forward"}
           /\ \E c \in Client : Connect(c) \/ Say(c) \/ Hear(c) \/ Disconnect(c)
-----------------------------------------------------------------------------
Init ==
  /\ main = "start" /\ srv = "none" /\ how = "none" /\ sig_exit = FALSE
  /\ pending = <<>> /\ said = 0 /\ listening = FALSE /\ epollOpen = TRUE
  /\ conn = [c \in Conn |-> "none"] /\ up = [c \in Conn |-> FALSE]
  /\ toSrv = [c \in Conn |-> <<>>] /\ toCli = [c \in Conn |-> <<>>]
  /\ heard = [c \in Conn |-> 0]
  /\ fd = [c \in Conn |-> 0] /\ client_fds = [p \in {"msg", "ctl"} |-> <<>>]
  /\ cbs = [f \in Fd |-> "none"]
  /\ active = {} /\ buffer = <<>> /\ rest = <<>> /\ targets = <<>>
  /\ left = [sends |-> MaxSends, connects |-> MaxConnects]

MainStep == \/ startSrv \/ setup_socket \/ PortSays \/ Forward \/ ReadCtl \/ EndLoop
            \/ stopSrv \/ CloseOwn \/ DestroyEpoll \/ Finish
Server == UseDestroyed \/ EpollWait \/ NextEvent \/ Send

Next == MainStep \/ Server \/ deadly_handler \/ Clients

Spec == Init /\ [][Next]_vars

(* The server's thread is scheduled, and so is that of loop() when it      *)
(* writes to a socket that has room.  Nothing is assumed of loop()         *)
(* elsewhere, where the terminal, the port, a prompt or the user may hold  *)
(* it, nor of the clients.                                                 *)
FairSpec == Spec /\ WF_vars(Forward) /\ WF_vars(Server)

-----------------------------------------------------------------------------
Bytes == ({"port"} \X (1 .. MaxSaid)) \cup (Client \X {0}) \cup ({"msg", "ctl"} \X {0})

TypeOK ==
  /\ main \in Own \cup {"start", "loop", "forward", "stop", "close", "destroy", "cleanup", "done",
                        "aborted"}
  /\ srv \in {"none", "wait", "events", "send"}
  /\ how \in {"none", "LE_CMD", "LE_SIGNAL", "FATAL"}
  /\ {sig_exit, listening, epollOpen} \subseteq BOOLEAN
  /\ conn \in [Conn -> {"none", "waiting", "accepted"}] /\ up \in [Conn -> BOOLEAN]
  /\ {toSrv, toCli} \subseteq [Conn -> Seq(Bytes)]
  /\ \A c \in Conn : Len(toSrv[c]) <= CapSrv /\ Len(toCli[c]) <= CapCli
  /\ heard \in [Conn -> 0 .. MaxSaid]
  /\ fd \in [Conn -> Fd \cup {0}] /\ client_fds \in [{"msg", "ctl"} -> Seq(Fd)]
  /\ cbs \in [Fd -> {"none", "accept", "msg", "ctl"}]
  /\ active \subseteq Fd /\ targets \in Seq(Fd)
  /\ {pending, buffer, rest} \subseteq Seq(Bytes)
  /\ main = "loop" => pending = <<>>
  /\ main = "forward" => pending # <<>>
  /\ said \in 0 .. MaxSaid /\ left \in [sends : 0 .. MaxSends, connects : 0 .. MaxConnects]

(* Between two callbacks the lists of the two servers, the callbacks and   *)
(* the open descriptors agree: each accepted connection is in the list of  *)
(* its port, once, and no number of a closed one is left anywhere, which   *)
(* the next connection, maybe to the other port, would be given.           *)
TablesAgree ==
  srv # "send" =>
    /\ \A p \in {"msg", "ctl"} :
         /\ \A i, j \in DOMAIN client_fds[p] : i # j => client_fds[p][i] # client_fds[p][j]
         /\ {client_fds[p][i] : i \in DOMAIN client_fds[p]} = {f \in Fd : cbs[f] = p}
    /\ \A f \in Fd \ {1, 2} :
         cbs[f] # "none" <=> \E c \in Conn : /\ conn[c] = "accepted" /\ fd[c] = f
                                             /\ Port(c) = cbs[f]

(* A client hears the others of its port and, on the message port, what    *)
(* the port of ppcom says, or what is left of a buffer of its own port,    *)
(* and never itself.  So what is typed comes from the clients of the       *)
(* control port.                                                           *)
PortsApart ==
  \A c \in Conn : \A i \in DOMAIN toCli[c] :
    LET who == toCli[c][i][1]
    IN  \/ who = Port(c)
        \/ who = "port" /\ Port(c) = "msg"
        \/ who \in Client \ {c} /\ Port(who) = Port(c)

(* The port's byte n may be told next after m.                             *)
Follows(m, n) == n > m /\ (n # m + 1 => m + 1 \in ZeroAt)

(* A client of the message port is told what the port says, from when it   *)
(* was accepted, in order, once and without a gap, across the two sockets  *)
(* and any short writes, until a signal breaks off a write; but what       *)
(* follows a zero byte in the same read is lost.                           *)
HeardInOrder ==
  ~sig_exit => \A c \in Client : \A m, n \in Places(c) :
    m < n /\ Nr(c, m) > 0 /\ Nr(c, n) > 0 /\ (\A k \in m + 1 .. n - 1 : Nr(c, k) = 0)
      => Follows(Nr(c, m), Nr(c, n))

(* The server waits for one connection to be read: by a program that does  *)
(* not, or by ppcom itself, which never reads what clients say on msgfd,   *)
(* and does not read ctlfd while it writes to msgfd.                       *)
HeldBy(c) == /\ srv = "send" /\ targets # <<>> /\ Head(targets) = fd[c]
             /\ up[c] /\ rest # <<>> /\ Len(toCli[c]) = CapCli
Held == \E c \in Conn : HeldBy(c)

(* loop() gets to the end of a write to msgfd, whatever clients come, go,  *)
(* talk or do not read, a signal or not, unless one that does not read     *)
(* holds up the server for good and loop() with it.                        *)
ForwardEnds == main = "forward" ~> main # "forward" \/ [](Held /\ main = "forward")

(* The manual, EXIT: the port is reset to its original settings before     *)
(* exiting.  It is not when the server's thread aborts the process first.  *)
ExitIsClean == how = "LE_CMD" => main # "aborted"
=============================================================================
