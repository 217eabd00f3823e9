------------------------------- MODULE FfwdSrv -------------------------------
(***************************************************************************)
(* The stand-alone forwarding server (libffwd/src/ffwd.cpp with its Epoll  *)
(* and SocketServer), one thread: what a client of the message port says   *)
(* is written to the clients of the control port, and the other way.  The  *)
(* server closes the socket of a client that has gone and forgets nothing  *)
(* else: its number stays in client_fds, and with the callbacks until the  *)
(* next connection is given the number.                                    *)
(***************************************************************************)
EXTENDS Integers, Sequences, FiniteSets

CONSTANTS
  MsgClient, CtlClient,        \* the programs that connect to the two ports
  MaxSaid, MaxConnections      \* bounds: messages, connections

ASSUME SrvAssumption == /\ IsFiniteSet(MsgClient) /\ IsFiniteSet(CtlClient)
                        /\ MsgClient \cap CtlClient = {}

VARIABLES
  where,       \* main(): start wait events write; or ended, or aborted
  conn, up,    \* a connection: none, waiting or accepted; its client's end
  saying,      \* messages on their way to the server
  fd,          \* the server's descriptor of a connection, or 0
  client_fds,  \* of the SocketServer of each port
  callbacks,   \* of mepoll
  active, targets, buffer,   \* of one wait, of one callback
  said, made,                \* messages said, connections made so far
  log, since,  \* history: what was read from each port; how much of the
               \* other port's when a connection was accepted
  told,        \* history: the messages written to a connection
  reused       \* history: the connections with the number of an older one

srvvars == <<where, conn, up, saying, fd, client_fds, callbacks, active, targets, buffer,
             said, made, log, since, told, reused>>

Clients == MsgClient \cup CtlClient
Ports == {"msg", "ctl"}
Port(c) == IF c \in MsgClient THEN "msg" ELSE "ctl"
Other(p) == IF p = "msg" THEN "ctl" ELSE "msg"
Listening(p) == IF p = "msg" THEN 1 ELSE 2
Numbers == 1 .. 2 + Cardinality(Clients)

(* Messages are numbers from 1 on; what the stack held is none of them.    *)
Junk == 0

(* The messages of a buffer.                                               *)
Messages(b) == IF b = <<Junk>> THEN <<>> ELSE b

Running == where \in {"wait", "events", "write"}
-----------------------------------------------------------------------------
SrvInit ==
  /\ where = "start"
  /\ conn = [c \in Clients |-> "none"] /\ up = [c \in Clients |-> FALSE]
  /\ saying = [c \in Clients |-> <<>>]
  /\ fd = [c \in Clients |-> 0] /\ client_fds = [p \in Ports |-> <<>>]
  /\ callbacks = [f \in Numbers |-> "none"]
  /\ active = {} /\ targets = <<>> /\ buffer = <<>>
  /\ said = 0 /\ made = 0
  /\ log = [p \in Ports |-> <<>>] /\ since = [c \in Clients |-> 0]
  /\ told = [c \in Clients |-> <<>>] /\ reused = {}

Histories == <<log, since, told, reused>>
Connections == <<conn, up, saying, said, made>>
Tables == <<fd, client_fds, callbacks>>
Turn == <<active, targets, buffer>>

(* A port that is taken is not noticed by start(), but Epoll::add() throws *)
(* when it is given the descriptor that start() closed.                    *)
StartServer ==
  /\ where = "start"
  /\ \/ /\ where' = "wait"
        /\ callbacks' = [callbacks EXCEPT ![1] = "accept", ![2] = "accept"]
     \/ where' = "aborted" /\ UNCHANGED callbacks
  /\ UNCHANGED <<Connections, fd, client_fds, Turn, Histories>>

(* A wait without events is followed by a second's sleep and another wait. *)
(* One that is interrupted, since the program was stopped and continued,   *)
(* makes Epoll::wait() throw.                                              *)
WaitForEvents ==
  /\ where = "wait"
  /\ \/ /\ active' = {Listening(Port(c)) : c \in {d \in Clients : conn[d] = "waiting"}}
                       \cup {fd[c] : c \in {d \in Clients : conn[d] = "accepted"
                                              /\ (saying[d] # <<>> \/ ~up[d])}}
        /\ where' = IF active' = {} THEN "wait" ELSE "events"
     \/ where' = "aborted" /\ UNCHANGED active
  /\ UNCHANGED <<Connections, Tables, targets, buffer, Histories>>

(* acceptClient(), and the callback of the port for the lowest free number *)
Accept(c) ==
  LET f == CHOOSE g \in Numbers \ {1, 2} :
             /\ \A d \in Clients : fd[d] # g
             /\ \A h \in 3 .. g - 1 : \E d \in Clients : fd[d] = h
  IN  /\ where = "events" /\ Listening(Port(c)) \in active /\ conn[c] = "waiting"
      /\ active' = active \ {Listening(Port(c))}
      /\ conn' = [conn EXCEPT ![c] = "accepted"]
      /\ fd' = [fd EXCEPT ![c] = f]
      /\ client_fds' = [client_fds EXCEPT ![Port(c)] = Append(@, f)]
      /\ callbacks' = [callbacks EXCEPT ![f] = Port(c)]
      /\ since' = [since EXCEPT ![c] = Len(log[Other(Port(c))])]
      /\ told' = [told EXCEPT ![c] = <<>>]
      /\ reused' = IF \E p \in Ports : \E i \in DOMAIN client_fds[p] : client_fds[p][i] = f
                   THEN reused \cup {c} ELSE reused \ {c}
      /\ UNCHANGED <<where, up, saying, said, made, targets, buffer, log>>

(* Faulty variant: to the clients of the same port.                        *)
SamePort(p) == client_fds[p]

(* To all that were ever accepted at the other port.                       *)
Receivers(p) == client_fds[Other(p)]

(* callbackMsg(), callbackCtl(): at the end of a connection its socket is  *)
(* closed, and what the buffer on the stack holds is written all the same. *)
Callback(c) ==
  LET p == callbacks[fd[c]]
  IN  /\ where = "events" /\ conn[c] = "accepted" /\ fd[c] \in active
      /\ active' = active \ {fd[c]}
      /\ \/ /\ saying[c] # <<>>
            /\ saying' = [saying EXCEPT ![c] = <<>>]
            /\ buffer' = saying[c]
            /\ log' = [log EXCEPT ![p] = @ \o saying[c]]
            /\ UNCHANGED <<conn, fd>>
         \/ /\ saying[c] = <<>>
            /\ conn' = [conn EXCEPT ![c] = "none"]
            /\ fd' = [fd EXCEPT ![c] = 0]
            /\ buffer' \in {<<>>, <<Junk>>}
            /\ UNCHANGED <<saying, log>>
      /\ targets' = Receivers(p)
      /\ where' = "write"
      /\ UNCHANGED <<up, said, made, client_fds, callbacks, since, told, reused>>

(* write() to the first target, once there is room: it fails where the     *)
(* number is not in use, and ends the program, with SIGPIPE, or is lost,   *)
(* where the client has gone.                                              *)
WriteOn ==
  /\ where = "write"
  /\ \/ targets = <<>> /\ where' = "events" /\ UNCHANGED <<told, targets>>
     \/ /\ targets # <<>> /\ targets' = Tail(targets)
        /\ told' = [c \in Clients |-> IF fd[c] = Head(targets) /\ up[c]
                                      THEN told[c] \o Messages(buffer) ELSE told[c]]
        /\ \/ UNCHANGED where
           \/ where' = "ended" /\ \E c \in Clients : fd[c] = Head(targets) /\ ~up[c]
  /\ UNCHANGED <<Connections, Tables, active, buffer, log, since, reused>>

EndOfEvents == /\ where = "events" /\ active = {}
               /\ where' = "wait"
               /\ UNCHANGED <<Connections, Tables, Turn, Histories>>

-----------------------------------------------------------------------------
(* The clients.                                                            *)
Connect(c) == /\ conn[c] = "none" /\ ~up[c] /\ made < MaxConnections
              /\ conn' = [conn EXCEPT ![c] = "waiting"] /\ up' = [up EXCEPT ![c] = TRUE]
              /\ saying' = [saying EXCEPT ![c] = <<>>]
              /\ made' = made + 1
              /\ UNCHANGED said

Say(c) == /\ up[c] /\ said < MaxSaid
          /\ said' = said + 1
          /\ saying' = [saying EXCEPT ![c] = Append(@, said')]
          /\ UNCHANGED <<conn, up, made>>

Disconnect(c) == /\ up[c]
                 /\ up' = [up EXCEPT ![c] = FALSE]
                 /\ UNCHANGED <<conn, saying, said, made>>

Client == /\ Running
          /\ \E c \in Clients : Connect(c) \/ Say(c) \/ Disconnect(c)
          /\ UNCHANGED <<where, Tables, Turn, Histories>>

SrvNext == \/ StartServer \/ WaitForEvents \/ EndOfEvents \/ WriteOn \/ Client
           \/ \E c \in Clients : Accept(c) \/ Callback(c)

SrvSpec == SrvInit /\ [][SrvNext]_srvvars
-----------------------------------------------------------------------------
(* A client is told what the clients of the other port say, from when it   *)
(* was accepted, in the order in which it was read, once, and nothing of   *)
(* what its own port's clients say - as long as it has its number to       *)
(* itself.  What the buffer held at the end of a connection comes on top;  *)
(* with the number of an earlier connection, which is still in a list, so  *)
(* do that port's messages, or all come twice.                             *)
HearsTheOtherPort ==
  Running /\ where # "write" =>
    \A c \in Clients : conn[c] = "accepted" /\ up[c] /\ c \notin reused =>
      told[c] = SubSeq(log[Other(Port(c))], since[c] + 1, Len(log[Other(Port(c))]))
=============================================================================
