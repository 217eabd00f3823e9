----------------------------- MODULE FfwdProofs -----------------------------
(***************************************************************************)
(* Proofs about the forwarding server, for any clients of the two ports,   *)
(* any capacities and sizes of the sockets and the buffer, and any bytes.  *)
(***************************************************************************)
EXTENDS Ffwd, LeastElement, SequenceTheorems, FiniteSetTheorems

In(s, f) == \E i \in DOMAIN s : s[i] = f
Once(s) == \A i, j \in DOMAIN s : s[i] = s[j] => i = j

-----------------------------------------------------------------------------
LEMMA LeastIs ==
  ASSUME NEW m \in Int, NEW n \in Int
  PROVE  Least(m, n) \in {m, n} /\ Least(m, n) <= m /\ Least(m, n) <= n
BY DEF Least

(* What is read of a stream, and what is left of it.                       *)
LEMMA FrontIs ==
  ASSUME NEW S, NEW s \in Seq(S), NEW n \in Nat
  PROVE  /\ Front(s, n) \in Seq(S)
         /\ Len(Front(s, n)) = Least(n, Len(s))
         /\ \A i \in 1 .. Least(n, Len(s)) : Front(s, n)[i] = s[i]
<1> DEFINE k == Least(n, Len(s))
<1>1. k \in Nat /\ k <= Len(s)
  BY DEF Least
<1>2. \A i \in 1 .. k : s[i] \in S
  BY <1>1, ElementOfSeq
<1> HIDE DEF k
<1>3. /\ SubSeq(s, 1, k) \in Seq(S) /\ Len(SubSeq(s, 1, k)) = IF 1 <= k THEN k - 1 + 1 ELSE 0
      /\ \A i \in 1 .. k - 1 + 1 : SubSeq(s, 1, k)[i] = s[1 + i - 1]
  BY <1>1, <1>2, SubSeqProperties
<1> QED
  BY <1>1, <1>3 DEF Front, k

LEMMA AfterIs ==
  ASSUME NEW S, NEW s \in Seq(S), NEW n \in Nat
  PROVE  /\ After(s, n) \in Seq(S)
         /\ Len(After(s, n)) = IF n < Len(s) THEN Len(s) - n ELSE 0
         /\ \A i \in 1 .. Len(s) - n : After(s, n)[i] = s[n + i]
<1>1. \A i \in n + 1 .. Len(s) : s[i] \in S
  BY ElementOfSeq
<1>2. /\ SubSeq(s, n + 1, Len(s)) \in Seq(S)
      /\ Len(SubSeq(s, n + 1, Len(s))) = IF n + 1 <= Len(s) THEN Len(s) - (n + 1) + 1 ELSE 0
      /\ \A i \in 1 .. Len(s) - (n + 1) + 1 : SubSeq(s, n + 1, Len(s))[i] = s[n + 1 + i - 1]
  BY <1>1, SubSeqProperties
<1> QED
  BY <1>2 DEF After

LEMMA SplitIs ==
  ASSUME NEW S, NEW s \in Seq(S), NEW k \in 0 .. Len(s)
  PROVE  /\ Front(s, k) \in Seq(S) /\ Len(Front(s, k)) = k /\ DOMAIN Front(s, k) = 1 .. k
         /\ \A i \in 1 .. k : Front(s, k)[i] = s[i]
         /\ After(s, k) \in Seq(S) /\ Len(After(s, k)) = Len(s) - k
         /\ DOMAIN After(s, k) = 1 .. Len(s) - k
         /\ \A i \in 1 .. Len(s) - k : After(s, k)[i] = s[k + i]
<1>1. k \in Nat /\ Len(s) \in Nat /\ k <= Len(s)
  OBVIOUS
<1>2. Least(k, Len(s)) = k
  BY <1>1 DEF Least
<1>3. /\ Front(s, k) \in Seq(S) /\ Len(Front(s, k)) = k /\ \A i \in 1 .. k : Front(s, k)[i] = s[i]
  BY <1>1, <1>2, FrontIs
<1>4. After(s, k) \in Seq(S) /\ Len(After(s, k)) = (IF k < Len(s) THEN Len(s) - k ELSE 0)
      /\ \A i \in 1 .. Len(s) - k : After(s, k)[i] = s[k + i]
  BY <1>1, AfterIs
<1>5. Len(After(s, k)) = Len(s) - k
  BY <1>1, <1>4
<1>6. DOMAIN Front(s, k) = 1 .. k /\ DOMAIN After(s, k) = 1 .. Len(s) - k
  BY <1>3, <1>4, <1>5, LenProperties
<1> QED
  BY <1>3, <1>4, <1>5, <1>6

LEMMA ConcatIs ==
  ASSUME NEW S, NEW s \in Seq(S), NEW u \in Seq(S)
  PROVE  /\ s \o u \in Seq(S) /\ Len(s \o u) = Len(s) + Len(u) /\ DOMAIN (s \o u) = 1 .. Len(s) + Len(u)
         /\ \A i \in 1 .. Len(s) + Len(u) : (s \o u)[i] = IF i <= Len(s) THEN s[i] ELSE u[i - Len(s)]
<1>1. /\ s \o u \in Seq(S) /\ Len(s \o u) = Len(s) + Len(u)
      /\ \A i \in 1 .. Len(s) + Len(u) : (s \o u)[i] = IF i <= Len(s) THEN s[i] ELSE u[i - Len(s)]
  BY ConcatProperties
<1>2. DOMAIN (s \o u) = 1 .. Len(s) + Len(u)
  BY <1>1, LenProperties
<1> QED
  BY <1>1, <1>2

(* The text of a buffer ends at its first zero byte.                       *)
LEMMA TextIs ==
  ASSUME NEW S, NEW s \in Seq(S)
  PROVE  /\ Text(s) \in Seq(S)
         /\ Len(Text(s)) <= Len(s)
         /\ \A i \in 1 .. Len(Text(s)) : Text(s)[i] = s[i]
         /\ Len(Text(s)) < Len(s) => IsZero(s[Len(Text(s)) + 1])
<1> DEFINE zeros == {i \in DOMAIN s : IsZero(s[i])}
<1>1. CASE zeros = {}
  BY <1>1 DEF Text
<1>2. CASE zeros # {}
  <2> DEFINE z == CHOOSE i \in zeros : \A j \in zeros : i <= j
  <2>1. zeros \in SUBSET Nat
    OBVIOUS
  <2>2. \E i \in zeros : \A j \in zeros : i <= j
    <3> HIDE DEF zeros
    <3> QED
      BY <1>2, <2>1, LeastNat
  <2>3. z \in zeros
    BY <2>2
  <2>4. z \in 1 .. Len(s) /\ IsZero(s[z])
    BY <2>3
  <2>5. Text(s) = SubSeq(s, 1, z - 1)
    BY <1>2 DEF Text
  <2> HIDE DEF z, zeros
  <2>6. \A i \in 1 .. z - 1 : s[i] \in S
    BY <2>4, ElementOfSeq
  <2>7. /\ SubSeq(s, 1, z - 1) \in Seq(S)
        /\ Len(SubSeq(s, 1, z - 1)) = IF 1 <= z - 1 THEN z - 1 - 1 + 1 ELSE 0
        /\ \A i \in 1 .. z - 1 - 1 + 1 : SubSeq(s, 1, z - 1)[i] = s[1 + i - 1]
    BY <2>4, <2>6, SubSeqProperties
  <2> QED
    BY <2>4, <2>5, <2>7
<1> QED
  BY <1>1, <1>2

(* The function by which Without is defined exists.                        *)
KeptOf(s, f, kept) ==
  kept = [n \in 0 .. Len(s) |-> IF n = 0 THEN <<>>
                                ELSE IF s[n] = f THEN kept[n - 1]
                                ELSE Append(kept[n - 1], s[n])]

LEMMA KeptExists ==
  ASSUME NEW S, NEW s \in Seq(S), NEW f
  PROVE  \E kept : KeptOf(s, f, kept)
<1> DEFINE Keeps(kept, m) ==
             kept = [n \in 0 .. m |-> IF n = 0 THEN <<>>
                                      ELSE IF s[n] = f THEN kept[n - 1]
                                      ELSE Append(kept[n - 1], s[n])]
           Bad == {m \in 0 .. Len(s) : ~ \E kept : Keeps(kept, m)}
<1>1. SUFFICES Bad = {}
  <2>1. \E kept : Keeps(kept, Len(s))
    <3> HIDE DEF Keeps
    <3>1. Len(s) \in 0 .. Len(s)
      OBVIOUS
    <3> QED
      BY <1>1, <3>1
  <2> QED
    BY <2>1, Zenon DEF KeptOf
<1>2. SUFFICES ASSUME Bad # {} PROVE FALSE
  OBVIOUS
<1>3. Bad \in SUBSET Nat
  OBVIOUS
<1>4. PICK m \in Bad : \A n \in Bad : m <= n
  <2> HIDE DEF Bad
  <2> QED
    BY <1>2, <1>3, LeastNat
<1>5. CASE m = 0
  <2> DEFINE none == [n \in 0 .. 0 |-> <<>>]
  <2>1. Keeps(none, 0)
    OBVIOUS
  <2> QED
    BY <1>4, <1>5, <2>1
<1>6. CASE m # 0
  <2>1. m \in 1 .. Len(s) /\ m - 1 \in 0 .. Len(s) /\ m - 1 \notin Bad
    <3> HIDE DEF Keeps
    <3> QED
      BY <1>4, <1>6
  <2>2. PICK kept : Keeps(kept, m - 1)
    <3> HIDE DEF Keeps
    <3> QED
      BY <2>1
  <2> DEFINE one == IF s[m] = f THEN kept[m - 1] ELSE Append(kept[m - 1], s[m])
             more == [n \in 0 .. m |-> IF n = m THEN one ELSE kept[n]]
  <2>3. Keeps(more, m)
    <3>1. \A n \in 0 .. m - 1 : more[n] = kept[n]
      BY <2>1
    <3>2. \A n \in 0 .. m - 1 :
            kept[n] = IF n = 0 THEN <<>> ELSE IF s[n] = f THEN kept[n - 1] ELSE Append(kept[n - 1], s[n])
      BY <2>2
    <3>3. \A n \in 0 .. m :
            more[n] = IF n = 0 THEN <<>> ELSE IF s[n] = f THEN more[n - 1] ELSE Append(more[n - 1], s[n])
      <4>1. ASSUME NEW n \in 0 .. m - 1
            PROVE  more[n] = IF n = 0 THEN <<>> ELSE IF s[n] = f THEN more[n - 1] ELSE Append(more[n - 1], s[n])
        <5>1. n # 0 => n - 1 \in 0 .. m - 1
          BY <2>1
        <5> QED
          BY <3>1, <3>2, <5>1
      <4>2. more[m] = one /\ more[m - 1] = kept[m - 1]
        BY <2>1
      <4>3. more[m] = IF m = 0 THEN <<>> ELSE IF s[m] = f THEN more[m - 1] ELSE Append(more[m - 1], s[m])
        BY <2>1, <4>2
      <4>4. \A n \in 0 .. m : n = m \/ n \in 0 .. m - 1
        BY <2>1
      <4> HIDE DEF more
      <4> QED
        BY <4>1, <4>3, <4>4
    <3> QED
      BY <3>3
  <2> HIDE DEF Keeps, more
  <2> QED
    BY <1>4, <2>3
<1> QED
  BY <1>5, <1>6

(* list::remove() leaves the others, each as often as it was there.        *)
LEMMA WithoutIs ==
  ASSUME NEW S, NEW s \in Seq(S), NEW f
  PROVE  /\ Without(s, f) \in Seq(S)
         /\ \A g : In(Without(s, f), g) <=> In(s, g) /\ g # f
         /\ Once(s) => Once(Without(s, f))
<1> DEFINE kept == CHOOSE k : KeptOf(s, f, k)
           Fine(m) == /\ kept[m] \in Seq(S)
                      /\ \A g : In(kept[m], g) <=> g # f /\ \E i \in 1 .. m : s[i] = g
                      /\ Once(s) => Once(kept[m])
           Bad == {m \in 0 .. Len(s) : ~Fine(m)}
<1>1. KeptOf(s, f, kept)
  BY KeptExists
<1>2. Without(s, f) = kept[Len(s)]
  BY Zenon DEF Without, KeptOf
<1> HIDE DEF kept
<1>3. /\ kept[0] = <<>>
      /\ \A m \in 1 .. Len(s) : kept[m] = IF s[m] = f THEN kept[m - 1] ELSE Append(kept[m - 1], s[m])
  <2>1. \A n \in 0 .. Len(s) : kept[n] = IF n = 0 THEN <<>>
                                          ELSE IF s[n] = f THEN kept[n - 1] ELSE Append(kept[n - 1], s[n])
    BY <1>1 DEF KeptOf
  <2>2. 0 \in 0 .. Len(s) /\ \A m \in 1 .. Len(s) : m \in 0 .. Len(s) /\ m # 0
    OBVIOUS
  <2> QED
    BY <2>1, <2>2
<1>4. Fine(0)
  BY <1>3 DEF In, Once
<1>5. ASSUME NEW m \in 1 .. Len(s), Fine(m - 1) PROVE Fine(m)
  <2>1. s[m] \in S
    BY ElementOfSeq
  <2>2. CASE s[m] = f
    BY <1>3, <1>5, <2>2
  <2>3. CASE s[m] # f
    <3> DEFINE old == kept[m - 1]
    <3>1. /\ kept[m] = Append(old, s[m]) /\ old \in Seq(S)
          /\ \A g : In(old, g) <=> g # f /\ \E i \in 1 .. m - 1 : s[i] = g
          /\ Once(s) => Once(old)
      BY <1>3, <1>5, <2>3
    <3> HIDE DEF old
    <3>2. /\ kept[m] \in Seq(S) /\ Len(kept[m]) = Len(old) + 1 /\ kept[m][Len(old) + 1] = s[m]
          /\ \A i \in 1 .. Len(old) : kept[m][i] = old[i]
      BY <2>1, <3>1, AppendProperties
    <3>3. DOMAIN old = 1 .. Len(old) /\ DOMAIN kept[m] = 1 .. Len(old) + 1 /\ Len(old) \in Nat
      BY <3>1, <3>2, LenProperties
    <3>4. \A g : In(kept[m], g) <=> In(old, g) \/ g = s[m]
      BY <3>2, <3>3 DEF In
    <3>5. \A g : In(kept[m], g) <=> g # f /\ \E i \in 1 .. m : s[i] = g
      BY <2>3, <3>1, <3>4
    <3>6. ASSUME Once(s) PROVE Once(kept[m])
      <4>1. ~In(old, s[m])
        <5>1. \A i \in 1 .. m - 1 : s[i] # s[m]
          BY <3>6 DEF Once
        <5> QED
          BY <3>1, <5>1
      <4>2. Once(old)
        BY <3>1, <3>6
      <4> QED
        BY <3>2, <3>3, <4>1, <4>2 DEF In, Once
    <3> QED
      BY <3>2, <3>5, <3>6
  <2> QED
    BY <2>2, <2>3
<1>6. Bad = {}
  <2>1. SUFFICES ASSUME Bad # {} PROVE FALSE
    OBVIOUS
  <2>2. Bad \in SUBSET Nat
    OBVIOUS
  <2>3. PICK m \in Bad : \A n \in Bad : m <= n
    <3> HIDE DEF Bad
    <3> QED
      BY <2>1, <2>2, LeastNat
  <2> HIDE DEF Fine
  <2>4. m \in 1 .. Len(s) /\ ~Fine(m) /\ m - 1 \in 0 .. Len(s) /\ m - 1 \notin Bad
    BY <1>4, <2>3
  <2>5. Fine(m - 1)
    BY <2>4
  <2> QED
    BY <1>5, <2>4, <2>5
<1>7. Fine(Len(s))
  <2> HIDE DEF Fine
  <2>1. Len(s) \in 0 .. Len(s) /\ Len(s) \notin Bad
    BY <1>6
  <2> QED
    BY <2>1
<1>8. DOMAIN s = 1 .. Len(s)
  BY LenProperties
<1> QED
  BY <1>2, <1>7, <1>8 DEF In

LEMMA AppendIs ==
  ASSUME NEW S, NEW s \in Seq(S), NEW f \in S, ~In(s, f)
  PROVE  /\ \A g : In(Append(s, f), g) <=> In(s, g) \/ g = f
         /\ Once(s) => Once(Append(s, f))
<1>1. /\ Append(s, f) \in Seq(S) /\ Len(Append(s, f)) = Len(s) + 1 /\ Append(s, f)[Len(s) + 1] = f
      /\ \A i \in 1 .. Len(s) : Append(s, f)[i] = s[i]
  BY AppendProperties
<1>2. DOMAIN s = 1 .. Len(s) /\ DOMAIN Append(s, f) = 1 .. Len(s) + 1 /\ Len(s) \in Nat
  BY <1>1, LenProperties
<1> HIDE DEF In
<1>3. \A g : In(Append(s, f), g) <=> In(s, g) \/ g = f
  BY <1>1, <1>2 DEF In
<1>4. Once(s) => Once(Append(s, f))
  BY <1>1, <1>2 DEF In, Once
<1> QED
  BY <1>3, <1>4

-----------------------------------------------------------------------------
Ports == {"msg", "ctl"}

Accepted(c) == conn[c] = "accepted"

(* A connection that has been accepted, and no other, has a descriptor of  *)
(* its own; the lists and the callbacks know it, and nothing else.         *)
DescriptorsInv ==
  /\ \A c \in Conn : IF Accepted(c) THEN fd[c] \in Fd \ {1, 2} ELSE fd[c] = 0
  /\ \A c, d \in Conn : Accepted(c) /\ fd[c] = fd[d] => c = d
  /\ \A p \in Ports : Once(client_fds[p])
  /\ \A p \in Ports, f \in Fd :
       In(client_fds[p], f) <=> \E c \in Conn : Accepted(c) /\ Port(c) = p /\ fd[c] = f
  /\ \A f \in Fd \ {1, 2} :
       \/ cbs[f] = "none" /\ \A c \in Conn : fd[c] # f
       \/ \E c \in Conn : Accepted(c) /\ fd[c] = f /\ cbs[f] = Port(c)
  /\ \A f \in {1, 2} : cbs[f] \in {"none", "accept"}

(* ppcom's own two connections are made once, after the server's thread.   *)
OwnInv ==
  /\ main = "start" => srv = "none"
  /\ main \in {"start", "ownmsg"} =>
       conn["ownmsg"] = "none" /\ ~up["ownmsg"] /\ toSrv["ownmsg"] = <<>>
  /\ main \in {"start"} \cup Own => conn["ownctl"] = "none" /\ ~up["ownctl"] /\ pending = <<>>
  /\ main \in Own \cup {"loop", "forward"} /\ ~up["ownmsg"] => toSrv["ownmsg"] = <<>>

(* Nothing is on its way to a client that has gone or was not accepted.    *)
QuietInv ==
  /\ \A c \in Conn : ~up[c] => toCli[c] = <<>> /\ heard[c] = 0
  /\ \A c \in Conn : ~Accepted(c) => toCli[c] = <<>>
  /\ \A c \in Conn : conn[c] = "waiting" => heard[c] = 0

(* Every target has a descriptor of one port, and is written to once.      *)
TargetsInv ==
  /\ targets # <<>> => srv = "send"
  /\ Once(targets)
  /\ \A i \in DOMAIN targets : \E c \in Conn : Accepted(c) /\ fd[c] = targets[i]

(* Who may be heard by connection c: see PortsApart.                       *)
MayHear(c, who) == \/ who = Port(c)
                   \/ who = "port" /\ Port(c) = "msg"
                   \/ who \in Client \ {c} /\ Port(who) = Port(c)

(* What a connection said is its own; ppcom does not write to ctlfd.       *)
SpokenInv ==
  /\ toSrv["ownctl"] = <<>>
  /\ \A c \in Client : \A i \in DOMAIN toSrv[c] : toSrv[c][i][1] = c

(* The targets may hear the buffer, and what is to be written is its end.  *)
BufferInv ==
  /\ \A c \in Conn : In(targets, fd[c]) => \A i \in DOMAIN buffer : MayHear(c, buffer[i][1])
  /\ Len(rest) <= Len(buffer)
  /\ \A i \in DOMAIN rest : rest[i] = buffer[Len(buffer) - Len(rest) + i]

SpeakersInv == SpokenInv /\ BufferInv /\ \A c \in Conn : Port(c) = "ctl" => heard[c] = 0

(* What the port said is whole and in order until the server reads it.     *)
Unread == Len(toSrv["ownmsg"]) + Len(pending)
NextNr == said + 1 - Unread

PortInv ==
  /\ Unread <= said
  /\ \A i \in DOMAIN toSrv["ownmsg"] : toSrv["ownmsg"][i] = FromPort(NextNr + i - 1)
  /\ \A i \in DOMAIN pending : pending[i] = FromPort(said - Len(pending) + i)

(* A run of the port's bytes, or none of them.                             *)
Silent(s) == \A i \in DOMAIN s : s[i][1] # "port"
Run(s) == s # <<>> /\ \A i \in DOMAIN s : s[i] = FromPort(s[1][2] + i - 1)

(* More of the port may come from the wire.                                *)
Flowing == \/ main \in {"start", "ownmsg"}
           \/ main \in {"ownctl", "loop", "forward"} /\ up["ownmsg"]
           \/ toSrv["ownmsg"] # <<>>

(* The numbers in t, what is on its way to a client that has read byte h:  *)
(* Nr, IsLast and HeardInOrder for any t and h, and that byte n may be the *)
(* next.                                                                   *)
NrIn(t, h, n) == IF n = 0 THEN h ELSE IF t[n][1] = "port" THEN t[n][2] ELSE 0
LastIn(t, h, n) == \A k \in 0 .. Len(t) : k > n => NrIn(t, h, k) = 0
InOrder(t, h) ==
  \A m, n \in 0 .. Len(t) :
    m < n /\ NrIn(t, h, m) > 0 /\ NrIn(t, h, n) > 0 /\ (\A k \in m + 1 .. n - 1 : NrIn(t, h, k) = 0)
      => Follows(NrIn(t, h, m), NrIn(t, h, n))
ToldIn(t, h, n) ==
  \A m \in 0 .. Len(t) : LastIn(t, h, m) /\ NrIn(t, h, m) > 0 => Follows(NrIn(t, h, m), n)

Told(c, n) == ToldIn(toCli[c], heard[c], n)

(* Client c has been told all that comes before the rest, the buffer or    *)
(* what is on the wire, whichever it is told next.                         *)
Ready(c) ==
  IF In(targets, fd[c]) /\ Run(buffer)
  THEN Told(c, IF fd[c] = Head(targets) THEN rest[1][2] ELSE buffer[1][2])
  ELSE Flowing => Told(c, NextNr)

(* The buffer has a run, after which the wire goes on, or none at all.     *)
RunInv ==
  /\ Silent(buffer) \/ Run(buffer)
  /\ Run(buffer) /\ targets # <<>> =>
       rest # <<>> /\ (Flowing => Follows(buffer[Len(buffer)][2], NextNr))

OrderInv ==
  ~sig_exit => /\ \A c \in Client : InOrder(toCli[c], heard[c])
               /\ \A c \in Client : Accepted(c) => Ready(c)
               /\ RunInv

FfwdInv == TypeOK /\ DescriptorsInv /\ OwnInv /\ QuietInv /\ TargetsInv /\ SpeakersInv /\ PortsApart
             /\ PortInv /\ OrderInv

-----------------------------------------------------------------------------
(* What the assumptions say of the connections and their descriptors.      *)
LEMMA ConnFacts ==
  /\ \A c \in Conn : Port(c) \in Ports
  /\ Own = {"ownmsg", "ownctl"} /\ "ownmsg" \in Conn /\ "ownctl" \in Conn
  /\ Own \subseteq Conn /\ Client \subseteq Conn /\ Port("ownmsg") = "msg" /\ Port("ownctl") = "ctl"
  /\ \A c \in Client : c \notin Own /\ c \notin {"port", "msg", "ctl"}
  /\ \A c \in Conn : c \in Client \/ c = "ownmsg" \/ c = "ownctl"
  /\ Fd \subseteq Nat \ {0} /\ {1, 2} \subseteq Fd
  /\ {CapSrv, CapCli, ReadSize} \subseteq Nat \ {0} /\ {MaxSaid, MaxSends, MaxConnects} \subseteq Nat
  /\ IsFiniteSet(Conn) /\ Cardinality(Conn) \in Nat
<1>1. IsFiniteSet(Conn) /\ Cardinality(Conn) \in Nat
  <2>1. IsFiniteSet(Client)
    BY FfwdAssumption
  <2>2. IsFiniteSet(Client \cup {"ownmsg"})
    BY <2>1, FS_AddElement
  <2>3. IsFiniteSet((Client \cup {"ownmsg"}) \cup {"ownctl"})
    BY <2>2, FS_AddElement
  <2>4. Conn = (Client \cup {"ownmsg"}) \cup {"ownctl"}
    BY DEF Conn, Own
  <2> QED
    BY <2>3, <2>4, FS_CardinalityType
<1>2. Fd \subseteq Nat \ {0} /\ {1, 2} \subseteq Fd
  BY <1>1 DEF Fd
<1>3. {CapSrv, CapCli, ReadSize} \subseteq Nat \ {0} /\ {MaxSaid, MaxSends, MaxConnects} \subseteq Nat
  BY FfwdAssumption
<1>4. \A c \in Client : c \notin Own /\ c \notin {"port", "msg", "ctl"}
  BY FfwdAssumption
<1>5. Own \subseteq Conn /\ Client \subseteq Conn /\ \A c \in Conn : Port(c) \in Ports
  BY DEF Conn, Port, Ports
<1>6. \A c \in Conn : c \in Client \/ c = "ownmsg" \/ c = "ownctl"
  BY DEF Conn, Own
<1>7. Port("ownmsg") = "msg" /\ Port("ownctl") = "ctl"
  BY <1>4, FfwdAssumption DEF Port, Own
<1>8. Own = {"ownmsg", "ownctl"} /\ "ownmsg" \in Conn /\ "ownctl" \in Conn
  BY DEF Conn, Own
<1> QED
  BY <1>1, <1>2, <1>3, <1>4, <1>5, <1>6, <1>7, <1>8

(* What the types say of each connection.                                  *)
LEMMA TypeFacts ==
  ASSUME TypeOK
  PROVE  /\ toSrv \in [Conn -> Seq(Bytes)] /\ toCli \in [Conn -> Seq(Bytes)]
         /\ \A c \in Conn : /\ toSrv[c] \in Seq(Bytes) /\ toCli[c] \in Seq(Bytes)
                            /\ Len(toSrv[c]) \in Nat /\ Len(toCli[c]) \in Nat
                            /\ Len(toSrv[c]) <= CapSrv /\ Len(toCli[c]) <= CapCli
                            /\ heard[c] \in Nat
         /\ pending \in Seq(Bytes) /\ buffer \in Seq(Bytes) /\ rest \in Seq(Bytes)
         /\ Len(pending) \in Nat /\ Len(buffer) \in Nat /\ Len(rest) \in Nat
         /\ targets \in Seq(Fd) /\ Len(targets) \in Nat /\ DOMAIN targets = 1 .. Len(targets)
         /\ targets # <<>> => /\ Len(targets) # 0 /\ Head(targets) = targets[1]
                              /\ Tail(targets) \in Seq(Fd) /\ Len(Tail(targets)) = Len(targets) - 1
                              /\ \A i \in 1 .. Len(targets) - 1 : Tail(targets)[i] = targets[i + 1]
         /\ \A p \in Ports : client_fds[p] \in Seq(Fd)
<1>1. /\ toSrv \in [Conn -> Seq(Bytes)] /\ toCli \in [Conn -> Seq(Bytes)]
      /\ pending \in Seq(Bytes) /\ buffer \in Seq(Bytes) /\ rest \in Seq(Bytes)
      /\ targets \in Seq(Fd) /\ \A p \in Ports : client_fds[p] \in Seq(Fd)
  BY DEF TypeOK, Ports
<1>2. \A c \in Conn : /\ heard[c] \in Nat
                      /\ Len(toSrv[c]) <= CapSrv /\ Len(toCli[c]) <= CapCli
  BY ConnFacts DEF TypeOK
<1>3. ASSUME targets # <<>>
      PROVE  /\ Len(targets) # 0 /\ Head(targets) = targets[1]
             /\ Tail(targets) \in Seq(Fd) /\ Len(Tail(targets)) = Len(targets) - 1
             /\ \A i \in 1 .. Len(targets) - 1 : Tail(targets)[i] = targets[i + 1]
  BY <1>1, <1>3, EmptySeq, HeadTailProperties
<1> QED
  BY <1>1, <1>2, <1>3, LenProperties

LEMMA BytesFacts ==
  /\ \A n \in 1 .. MaxSaid : FromPort(n) \in Bytes
  /\ \A c \in Client : <<c, 0>> \in Bytes
  /\ \A p \in Ports : <<p, 0>> \in Bytes
  /\ \A b \in Bytes : b[1] = "port" => b[2] \in 1 .. MaxSaid /\ b = FromPort(b[2])
  /\ \A n : FromPort(n)[1] = "port" /\ FromPort(n)[2] = n
BY ConnFacts DEF Bytes, Ports, FromPort

(* There is a descriptor left for every connection.                        *)
LEMMA FreeFd ==
  ASSUME NEW c \in Conn, fd \in [Conn -> Fd \cup {0}], fd[c] = 0
  PROVE  \E f \in Fd \ {1, 2} : \A d \in Conn : fd[d] # f
<1> SUFFICES ASSUME \A f \in Fd \ {1, 2} : \E d \in Conn : fd[d] = f PROVE FALSE
  OBVIOUS
<1> DEFINE N == Cardinality(Conn)
           S == 3 .. 2 + N
           T == Conn \ {c}
           holder == [f \in S |-> CHOOSE d \in Conn : fd[d] = f]
<1>1. N \in Nat /\ IsFiniteSet(Conn)
  BY ConnFacts
<1>2. S = Fd \ {1, 2}
  BY <1>1 DEF Fd
<1>3. IsFiniteSet(S) /\ Cardinality(S) = N
  <2>1. N # 0
    BY <1>1, FS_EmptySet
  <2> HIDE DEF N
  <2> QED
    BY <1>1, <2>1, FS_Interval
<1>4. IsFiniteSet(T) /\ Cardinality(T) = N - 1
  BY <1>1, FS_RemoveElement
<1>5. \A f \in S : holder[f] \in Conn /\ fd[holder[f]] = f
  BY <1>2
<1>6. \A f \in S : holder[f] # c
  BY <1>1, <1>5
<1>7. holder \in [S -> T]
  BY <1>5, <1>6
<1> HIDE DEF N, S, T, holder
<1>8. \E f, g \in S : f # g /\ holder[f] = holder[g]
  BY <1>1, <1>3, <1>4, <1>7, FS_PigeonHole
<1> QED
  BY <1>5, <1>8

-----------------------------------------------------------------------------
(* What a client is told, for a piece of the port's text or of another's.  *)
LEMMA HeardIs ==
  (~sig_exit => \A c \in Client : InOrder(toCli[c], heard[c])) <=> HeardInOrder
BY DEF HeardInOrder, InOrder, Places, Nr, NrIn

LEMMA NrInIs ==
  ASSUME NEW t \in Seq(Bytes), NEW u \in Seq(Bytes), NEW h \in Nat
  PROVE  /\ \A n \in 0 .. Len(t) : NrIn(t \o u, h, n) = NrIn(t, h, n)
         /\ \A i \in 1 .. Len(u) :
              NrIn(t \o u, h, Len(t) + i) = IF u[i][1] = "port" THEN u[i][2] ELSE 0
         /\ \A n \in 0 .. Len(t) : NrIn(t, h, n) \in Nat
         /\ t \o u \in Seq(Bytes) /\ Len(t \o u) = Len(t) + Len(u)
<1>1. /\ t \o u \in Seq(Bytes) /\ Len(t \o u) = Len(t) + Len(u)
      /\ \A i \in 1 .. Len(t) + Len(u) :
           (t \o u)[i] = IF i <= Len(t) THEN t[i] ELSE u[i - Len(t)]
  BY ConcatProperties
<1>2. \A n \in 0 .. Len(t) : NrIn(t \o u, h, n) = NrIn(t, h, n)
  BY <1>1 DEF NrIn
<1>3. \A i \in 1 .. Len(u) :
        NrIn(t \o u, h, Len(t) + i) = IF u[i][1] = "port" THEN u[i][2] ELSE 0
  <2> TAKE i \in 1 .. Len(u)
  <2>1. Len(t) + i # 0 /\ (t \o u)[Len(t) + i] = u[i]
    BY <1>1
  <2> QED
    BY <2>1 DEF NrIn
<1>4. \A n \in 0 .. Len(t) : NrIn(t, h, n) \in Nat
  <2>1. \A n \in 1 .. Len(t) : t[n][1] = "port" => t[n][2] \in 1 .. MaxSaid
    BY ElementOfSeq, BytesFacts
  <2> QED
    BY <2>1 DEF NrIn
<1> QED
  BY <1>1, <1>2, <1>3, <1>4

(* A run of the port's bytes that may come next.                           *)
LEMMA ToldRun ==
  ASSUME NEW t \in Seq(Bytes), NEW u \in Seq(Bytes), NEW h \in Nat, Run(u),
         InOrder(t, h), ToldIn(t, h, u[1][2])
  PROVE  /\ InOrder(t \o u, h)
         /\ \A n : Follows(u[Len(u)][2], n) => ToldIn(t \o u, h, n)
<1> DEFINE w == t \o u
           N(k) == NrIn(w, h, k)
           z == Len(t)
<1>1. Len(u) \in Nat \ {0} /\ z \in Nat
  BY DEF Run
<1>2. u[1][2] \in 1 .. MaxSaid /\ MaxSaid \in Nat
  <2>1. u[1] \in Bytes
    BY <1>1, ElementOfSeq
  <2>2. u[1] = FromPort(u[1][2] + 1 - 1)
    BY <1>1, LenProperties DEF Run
  <2> QED
    BY <2>1, <2>2, BytesFacts, ConnFacts
<1>3. \A i \in 1 .. Len(u) : u[i][1] = "port" /\ u[i][2] = u[1][2] + i - 1
  BY BytesFacts, LenProperties DEF Run
<1>4. Len(w) = z + Len(u) /\ w \in Seq(Bytes)
  BY NrInIs
<1>5. \A k \in 0 .. z : N(k) = NrIn(t, h, k) /\ N(k) \in Nat
  BY NrInIs
<1>a. \A i \in 1 .. Len(u) : N(z + i) = IF u[i][1] = "port" THEN u[i][2] ELSE 0
  BY NrInIs
<1> HIDE DEF w, N, z
<1>6. \A k \in z + 1 .. z + Len(u) : N(k) = u[1][2] + (k - z) - 1 /\ N(k) > 0
  <2> TAKE k \in z + 1 .. z + Len(u)
  <2>1. PICK i \in 1 .. Len(u) : k = z + i
    <3>1. k - z \in 1 .. Len(u) /\ k = z + (k - z)
      BY <1>1
    <3> QED
      BY <3>1
  <2>2. N(k) = u[1][2] + i - 1
    BY <1>3, <1>a, <2>1
  <2> QED
    BY <1>1, <1>2, <2>1, <2>2
<1>7. ASSUME NEW m \in 0 .. Len(w), NEW n \in 0 .. Len(w), m < n, N(m) > 0, N(n) > 0,
             \A k \in m + 1 .. n - 1 : N(k) = 0
      PROVE  Follows(N(m), N(n))
  <2>1. CASE n <= z
    <3>1. m \in 0 .. z /\ n \in 0 .. z /\ \A k \in m + 1 .. n - 1 : k \in 0 .. z
      BY <1>1, <1>4, <1>7, <2>1
    <3>2. N(m) = NrIn(t, h, m) /\ N(n) = NrIn(t, h, n)
      BY <1>5, <3>1
    <3>3. \A k \in m + 1 .. n - 1 : NrIn(t, h, k) = 0
      BY <1>5, <1>7, <3>1
    <3> QED
      BY <1>7, <3>1, <3>2, <3>3 DEF InOrder, z
  <2>2. CASE m > z
    <3>1. n = m + 1
      <4>1. m + 1 \in z + 1 .. z + Len(u)
        BY <1>1, <1>4, <1>7, <2>2
      <4> QED
        BY <1>6, <1>7, <4>1
    <3>2. N(n) = N(m) + 1 /\ N(m) \in Nat
      BY <1>1, <1>2, <1>4, <1>6, <2>2, <3>1, SMTT(30)
    <3> QED
      BY <3>2 DEF Follows
  <2>3. CASE m <= z /\ n > z
    <3>1. n = z + 1
      <4>1. z + 1 \in z + 1 .. z + Len(u)
        BY <1>1
      <4>2. N(z + 1) # 0
        BY <1>2, <1>6, <4>1
      <4>3. ~(z + 1 \in m + 1 .. n - 1)
        BY <1>7, <4>2
      <4> QED
        BY <1>1, <1>4, <1>7, <2>3, <4>3
    <3>2. N(n) = u[1][2]
      BY <1>1, <1>2, <1>6, <3>1
    <3>3. LastIn(t, h, m)
      BY <1>1, <1>5, <1>7, <2>3, <3>1 DEF LastIn, z
    <3> QED
      BY <1>1, <1>4, <1>5, <1>7, <2>3, <3>2, <3>3 DEF ToldIn, z
  <2> QED
    BY <1>1, <2>1, <2>2, <2>3
<1>8. InOrder(w, h)
  BY <1>7 DEF InOrder, N
<1>9. ASSUME NEW n, Follows(u[Len(u)][2], n) PROVE ToldIn(w, h, n)
  <2>1. SUFFICES ASSUME NEW m \in 0 .. Len(w), LastIn(w, h, m), N(m) > 0 PROVE Follows(N(m), n)
    BY DEF ToldIn, N
  <2>2. m = Len(w)
    <3>1. z + Len(u) \in z + 1 .. z + Len(u)
      BY <1>1
    <3>2. N(z + Len(u)) # 0
      BY <1>2, <1>6, <3>1
    <3>3. \A k \in 0 .. Len(w) : k > m => N(k) = 0
      BY <2>1 DEF LastIn, N
    <3>4. z + Len(u) \in 0 .. Len(w)
      BY <1>1, <1>4
    <3>5. ~(z + Len(u) > m)
      BY <3>2, <3>3, <3>4
    <3> QED
      BY <1>1, <1>4, <2>1, <3>5, SMTT(30)
  <2>3. N(m) = u[Len(u)][2]
    BY <1>1, <1>2, <1>3, <1>4, <1>6, <2>2
  <2> QED
    BY <1>9, <2>3
<1> QED
  BY <1>8, <1>9 DEF w

(* What another client said changes nothing.                               *)
LEMMA ToldSilent ==
  ASSUME NEW t \in Seq(Bytes), NEW u \in Seq(Bytes), NEW h \in Nat, Silent(u)
  PROVE  /\ InOrder(t, h) => InOrder(t \o u, h)
         /\ \A n : ToldIn(t, h, n) => ToldIn(t \o u, h, n)
<1> DEFINE w == t \o u
           N(k) == NrIn(w, h, k)
           z == Len(t)
<1>1. Len(u) \in Nat /\ z \in Nat /\ Len(w) = z + Len(u)
  BY NrInIs
<1>2. \A k \in 0 .. z : N(k) = NrIn(t, h, k)
  BY NrInIs
<1>3. \A k \in z + 1 .. z + Len(u) : N(k) = 0
  <2> TAKE k \in z + 1 .. z + Len(u)
  <2>1. k - z \in 1 .. Len(u) /\ z + (k - z) = k
    BY <1>1
  <2>2. u[k - z][1] # "port"
    BY <2>1, LenProperties DEF Silent
  <2>3. NrIn(w, h, z + (k - z)) = IF u[k - z][1] = "port" THEN u[k - z][2] ELSE 0
    BY <2>1, NrInIs
  <2> QED
    BY <2>1, <2>2, <2>3
<1> HIDE DEF w, N, z
<1>4. ASSUME InOrder(t, h) PROVE InOrder(w, h)
  <2>1. SUFFICES ASSUME NEW m \in 0 .. Len(w), NEW n \in 0 .. Len(w), m < n, N(m) > 0, N(n) > 0,
                        \A k \in m + 1 .. n - 1 : N(k) = 0
                 PROVE  Follows(N(m), N(n))
    BY DEF InOrder, N
  <2>2. m \in 0 .. z /\ n \in 0 .. z
    BY <1>1, <1>3, <2>1
  <2> QED
    BY <1>1, <1>2, <1>4, <2>1, <2>2 DEF InOrder, z
<1>5. ASSUME NEW n, ToldIn(t, h, n) PROVE ToldIn(w, h, n)
  <2>1. SUFFICES ASSUME NEW m \in 0 .. Len(w), LastIn(w, h, m), N(m) > 0 PROVE Follows(N(m), n)
    BY DEF ToldIn, N
  <2>2. m \in 0 .. z
    BY <1>1, <1>3, <2>1
  <2>3. LastIn(t, h, m)
    BY <1>1, <1>2, <2>1, <2>2 DEF LastIn, N, z
  <2> QED
    BY <1>1, <1>2, <1>5, <2>1, <2>2, <2>3 DEF ToldIn, z
<1> QED
  BY <1>4, <1>5 DEF w

(* Nothing is on its way.                                                  *)
LEMMA ToldNone ==
  ASSUME NEW h
  PROVE  InOrder(<<>>, h) /\ \A n : ToldIn(<<>>, 0, n)
BY DEF InOrder, ToldIn, NrIn

-----------------------------------------------------------------------------
(* What the steps of the server's thread do, in the terms of the           *)
(* invariant.                                                              *)
LEMMA AcceptIs ==
  ASSUME TypeOK, DescriptorsInv, NEW c \in Conn, acceptClient(c)
  PROVE  \E f \in Fd \ {1, 2} :
           /\ \A d \in Conn : fd[d] # f
           /\ conn[c] = "waiting"
           /\ conn' = [conn EXCEPT ![c] = "accepted"]
           /\ fd' = [fd EXCEPT ![c] = f]
           /\ client_fds' = [client_fds EXCEPT ![Port(c)] = Append(@, f)]
           /\ cbs' = [cbs EXCEPT ![f] = Port(c)]
           /\ srv' = "events"
           /\ UNCHANGED <<up, toSrv, toCli, heard, buffer, rest, targets>>
<1> DEFINE free == {f \in Fd \ {1, 2} : \A d \in Conn : fd[d] # f}
           f == CHOOSE g \in free : \A h \in free : g <= h
<1>1. fd[c] = 0 /\ fd \in [Conn -> Fd \cup {0}]
  BY DEF TypeOK, DescriptorsInv, Accepted, acceptClient
<1>2. free # {} /\ free \in SUBSET Nat
  BY <1>1, FreeFd, ConnFacts
<1>3. f \in free
  <2>1. \E g \in free : \A h \in free : g <= h
    <3> HIDE DEF free
    <3> QED
      BY <1>2, LeastNat
  <2> HIDE DEF free
  <2> QED
    BY <2>1
<1>4. /\ conn[c] = "waiting"
      /\ conn' = [conn EXCEPT ![c] = "accepted"]
      /\ fd' = [fd EXCEPT ![c] = f]
      /\ client_fds' = [client_fds EXCEPT ![Port(c)] = Append(@, f)]
      /\ cbs' = [cbs EXCEPT ![f] = Port(c)]
      /\ srv' = "events"
      /\ UNCHANGED <<up, toSrv, toCli, heard, buffer, rest, targets>>
  BY DEF acceptClient
<1>5. f \in Fd \ {1, 2} /\ \A d \in Conn : fd[d] # f
  BY <1>3
<1> HIDE DEF f
<1> QED
  BY <1>4, <1>5

(* What is left of the targets and of what is to be written to them.       *)
LEMMA CallbackIs ==
  ASSUME TypeOK, DescriptorsInv, NEW c \in Conn, fd[c] \in Fd, EpollCallback(c)
  PROVE  /\ Accepted(c) /\ fd[c] \in Fd \ {1, 2}
         /\ \/ /\ toSrv[c] # <<>>
               /\ toSrv' = [toSrv EXCEPT ![c] = After(toSrv[c], ReadSize)]
               /\ buffer' = Text(Front(toSrv[c], ReadSize))
               /\ UNCHANGED <<conn, toCli, fd, client_fds, cbs>>
            \/ /\ toSrv[c] = <<>>
               /\ conn' = [conn EXCEPT ![c] = "none"]
               /\ toCli' = [toCli EXCEPT ![c] = <<>>]
               /\ fd' = [fd EXCEPT ![c] = 0]
               /\ client_fds' = [client_fds EXCEPT ![Port(c)] = Without(client_fds[Port(c)], fd[c])]
               /\ cbs' = [cbs EXCEPT ![fd[c]] = "none"]
               /\ buffer' = <<>> \/ buffer' = <<<<Port(c), 0>>>>
               /\ UNCHANGED toSrv
         /\ targets' = Without(client_fds'[Port(c)], fd[c])
         /\ rest' = buffer' /\ srv' = "send" /\ UNCHANGED <<up, heard>>
<1>1. Accepted(c) /\ fd[c] \in Fd \ {1, 2}
  BY ConnFacts DEF DescriptorsInv
<1>2. \/ /\ toSrv[c] # <<>>
         /\ toSrv' = [toSrv EXCEPT ![c] = After(toSrv[c], ReadSize)]
         /\ buffer' = Text(Front(toSrv[c], ReadSize))
         /\ UNCHANGED <<conn, toCli, fd, client_fds, cbs>>
      \/ /\ toSrv[c] = <<>>
         /\ conn' = [conn EXCEPT ![c] = "none"]
         /\ toCli' = [toCli EXCEPT ![c] = <<>>]
         /\ fd' = [fd EXCEPT ![c] = 0]
         /\ client_fds' = [client_fds EXCEPT ![Port(c)] = Without(client_fds[Port(c)], fd[c])]
         /\ cbs' = [cbs EXCEPT ![fd[c]] = "none"]
         /\ buffer' = <<>> \/ buffer' = <<<<Port(c), 0>>>>
         /\ UNCHANGED toSrv
  BY DEF EpollCallback, removeClient, tables
<1>3. targets' = Without(client_fds'[Port(c)], fd[c])
  BY DEF EpollCallback, Others
<1>4. rest' = buffer' /\ srv' = "send" /\ UNCHANGED <<up, heard>>
  BY DEF EpollCallback
<1> QED
  BY <1>1, <1>2, <1>3, <1>4

(* A turn of the server: no event, a client is accepted, a callback, or an *)
(* event of a listening socket that is closed.                             *)
LEMMA EventIs ==
  ASSUME TypeOK, NextEvent
  PROVE  /\ srv = "events" /\ active' \subseteq active
         /\ UNCHANGED <<main, how, sig_exit, pending, said, listening, epollOpen, left>>
         /\ \/ /\ srv' \in {"events", "wait"}
               /\ UNCHANGED <<conn, up, toSrv, toCli, heard, fd, client_fds, cbs, buffer, rest, targets>>
            \/ \E c \in Conn : acceptClient(c)
            \/ \E c \in Conn : fd[c] \in Fd /\ EpollCallback(c)
<1>1. UNCHANGED <<main, how, sig_exit, pending, said, listening, epollOpen, left>> /\ srv = "events"
  BY DEF NextEvent, mainvars
<1>2. CASE active = {}
  BY <1>1, <1>2 DEF NextEvent, conns, tables
<1>3. CASE active # {}
  <2>1. PICK f \in active :
          /\ active' = active \ {f}
          /\ \/ \E c \in Conn : acceptClient(c)
             \/ \E c \in Conn : fd[c] = f /\ EpollCallback(c)
             \/ UNCHANGED <<srv, conns, tables, buffer, rest, targets>>
    BY <1>3 DEF NextEvent
  <2>2. f \in Fd
    BY DEF TypeOK
  <2>3. CASE \E c \in Conn : acceptClient(c)
    BY <1>1, <2>1, <2>3
  <2>4. CASE \E c \in Conn : fd[c] = f /\ EpollCallback(c)
    BY <1>1, <2>1, <2>2, <2>4
  <2>5. CASE UNCHANGED <<srv, conns, tables, buffer, rest, targets>>
    BY <1>1, <2>1, <2>5 DEF conns, tables
  <2> QED
    BY <2>1, <2>3, <2>4, <2>5
<1> QED
  BY <1>2, <1>3

(* A write of the server: all are written to, some or all of the rest is   *)
(* taken, or the target has gone.                                          *)
LEMMA SendIs ==
  ASSUME TypeOK, TargetsInv, DescriptorsInv, Send
  PROVE  /\ srv = "send"
         /\ UNCHANGED <<main, how, sig_exit, pending, said, conn, up, toSrv, heard, fd, client_fds,
                        cbs, active, buffer, listening, epollOpen, left>>
         /\ \/ targets = <<>> /\ srv' = "events" /\ UNCHANGED <<toCli, rest, targets>>
            \/ \E c \in Conn :
                 /\ targets # <<>> /\ Accepted(c) /\ fd[c] = Head(targets) /\ srv' = srv
                 /\ \/ /\ up[c]
                       /\ \E k \in 1 .. Len(rest) :
                            /\ Len(toCli[c]) + k <= CapCli
                            /\ toCli' = [toCli EXCEPT ![c] = toCli[c] \o Front(rest, k)]
                            /\ \/ k = Len(rest) /\ NextTarget
                               \/ k < Len(rest) /\ rest' = After(rest, k) /\ targets' = targets
                    \/ (~up[c] \/ rest = <<>>) /\ NextTarget /\ UNCHANGED toCli
<1>1. /\ srv = "send"
      /\ UNCHANGED <<main, how, sig_exit, pending, said, conn, up, toSrv, heard, fd, client_fds,
                     cbs, active, buffer, listening, epollOpen, left>>
  BY DEF Send, mainvars, tables
<1>2. CASE targets = <<>>
  BY <1>1, <1>2 DEF Send
<1>3. CASE targets # <<>>
  <2> DEFINE c == Holder(Head(targets))
             k == Least(CapCli - Len(toCli[c]), Len(rest))
  <2>1. targets \in Seq(Fd) /\ DOMAIN targets = 1 .. Len(targets) /\ 1 \in DOMAIN targets
        /\ Head(targets) = targets[1]
    BY <1>3, LenProperties, EmptySeq DEF TypeOK
  <2>2. PICK d \in Conn : Accepted(d) /\ fd[d] = Head(targets)
    BY <2>1 DEF TargetsInv
  <2>3. c \in Conn /\ fd[c] = Head(targets)
    BY <2>2 DEF Holder
  <2> HIDE DEF c
  <2>4. Accepted(c)
    BY <2>2, <2>3 DEF DescriptorsInv
  <2>5. rest \in Seq(Bytes) /\ toCli[c] \in Seq(Bytes) /\ Len(toCli[c]) <= CapCli
        /\ CapCli \in Nat /\ Len(rest) \in Nat /\ Len(toCli[c]) \in Nat
        /\ (Len(rest) = 0 <=> rest = <<>>)
    BY <2>3, ConnFacts, EmptySeq, TypeFacts
  <2>6. srv' = srv
    BY <1>3 DEF Send
  <2>7. \/ up[c] /\ rest # <<>> /\ k > 0
           /\ toCli' = [toCli EXCEPT ![c] = @ \o Front(rest, k)]
           /\ IF k = Len(rest) THEN NextTarget
              ELSE rest' = After(rest, k) /\ UNCHANGED targets
        \/ (~up[c] \/ rest = <<>>) /\ NextTarget /\ UNCHANGED toCli
    BY <1>3 DEF Send, c
  <2>8. ASSUME up[c], k > 0
        PROVE  k \in 1 .. Len(rest) /\ Len(toCli[c]) + k <= CapCli
    <3>1. k <= CapCli - Len(toCli[c]) /\ k <= Len(rest) /\ k \in Int
      BY <2>5, LeastIs
    <3> HIDE DEF k
    <3> QED
      BY <2>5, <2>8, <3>1
  <2> HIDE DEF k
  <2>9. CASE /\ up[c] /\ rest # <<>> /\ k > 0
             /\ toCli' = [toCli EXCEPT ![c] = @ \o Front(rest, k)]
             /\ IF k = Len(rest) THEN NextTarget
                ELSE rest' = After(rest, k) /\ UNCHANGED targets
    <3>1. k \in 1 .. Len(rest) /\ Len(toCli[c]) + k <= CapCli
      BY <2>8, <2>9
    <3>2. toCli' = [toCli EXCEPT ![c] = toCli[c] \o Front(rest, k)]
      BY <2>9
    <3>3. \/ k = Len(rest) /\ NextTarget
          \/ k < Len(rest) /\ rest' = After(rest, k) /\ targets' = targets
      BY <2>9, <3>1
    <3> QED
      BY <1>1, <1>3, <2>3, <2>4, <2>6, <2>9, <3>1, <3>2, <3>3
  <2>10. CASE (~up[c] \/ rest = <<>>) /\ NextTarget /\ UNCHANGED toCli
    BY <1>1, <1>3, <2>3, <2>4, <2>6, <2>10
  <2> QED
    BY <2>7, <2>9, <2>10
<1> QED
  BY <1>2, <1>3

-----------------------------------------------------------------------------
LEMMA InitInv == Init => FfwdInv
<1> SUFFICES ASSUME Init PROVE FfwdInv
  OBVIOUS
<1>1. \A S : <<>> \in Seq(S) /\ Len(<<>>) = 0 /\ DOMAIN <<>> = {}
  BY EmptySeq
<1>2. TypeOK
  <2>1. /\ conn \in [Conn -> {"none", "waiting", "accepted"}] /\ up \in [Conn -> BOOLEAN]
        /\ toSrv \in [Conn -> Seq(Bytes)] /\ toCli \in [Conn -> Seq(Bytes)]
        /\ \A c \in Conn : Len(toSrv[c]) <= CapSrv /\ Len(toCli[c]) <= CapCli
        /\ heard \in [Conn -> 0 .. MaxSaid]
    BY <1>1, ConnFacts DEF Init
  <2>2. /\ fd \in [Conn -> Fd \cup {0}] /\ client_fds \in [{"msg", "ctl"} -> Seq(Fd)]
        /\ cbs \in [Fd -> {"none", "accept", "msg", "ctl"}]
        /\ active \subseteq Fd /\ targets \in Seq(Fd)
        /\ {pending, buffer, rest} \subseteq Seq(Bytes)
    BY <1>1 DEF Init
  <2>3. said \in 0 .. MaxSaid /\ left \in [sends : 0 .. MaxSends, connects : 0 .. MaxConnects]
    BY ConnFacts DEF Init
  <2> QED
    BY <2>1, <2>2, <2>3 DEF Init, TypeOK
<1>3. DescriptorsInv
  <2>1. \A p \in Ports : Once(client_fds[p]) /\ \A f : ~In(client_fds[p], f)
    BY <1>1 DEF Init, Ports, Once, In
  <2>2. \A c \in Conn : ~Accepted(c) /\ fd[c] = 0
    BY DEF Init, Accepted
  <2>3. \A f \in Fd : cbs[f] = "none" /\ f # 0
    BY ConnFacts DEF Init
  <2> QED
    BY <2>1, <2>2, <2>3, ConnFacts DEF DescriptorsInv
<1>4. OwnInv
  <2>1. \A c \in Own : conn[c] = "none" /\ ~up[c] /\ toSrv[c] = <<>>
    BY ConnFacts DEF Init
  <2> QED
    BY <2>1, ConnFacts DEF Init, OwnInv
<1>5. QuietInv
  BY DEF Init, QuietInv
<1>6. TargetsInv
  BY <1>1 DEF Init, TargetsInv, Once
<1>7. SpeakersInv /\ PortsApart
  <2>1. toSrv["ownctl"] = <<>> /\ \A c \in Conn : toSrv[c] = <<>> /\ toCli[c] = <<>> /\ heard[c] = 0
    BY ConnFacts DEF Init
  <2>2. targets = <<>> /\ rest = <<>> /\ buffer = <<>> /\ Client \subseteq Conn
    BY ConnFacts DEF Init
  <2>3. SpeakersInv
    BY <1>1, <2>1, <2>2 DEF SpeakersInv, SpokenInv, BufferInv, In
  <2> QED
    BY <1>1, <2>1, <2>3 DEF PortsApart
<1>8. PortInv
  <2>1. toSrv["ownmsg"] = <<>> /\ pending = <<>> /\ said = 0
    BY ConnFacts DEF Init
  <2> QED
    BY <1>1, <2>1 DEF PortInv, Unread, NextNr
<1>9. OrderInv
  <2>1. \A c \in Client : InOrder(toCli[c], heard[c]) /\ \A n : Told(c, n)
    BY ToldNone, ConnFacts DEF Init, Told
  <2>2. Silent(buffer) /\ ~Run(buffer)
    BY <1>1 DEF Init, Silent, Run
  <2> QED
    BY <2>1, <2>2 DEF OrderInv, RunInv, Ready
<1> QED
  BY <1>2, <1>3, <1>4, <1>5, <1>6, <1>7, <1>8, <1>9 DEF FfwdInv

(* The steps, one by one.                                                  *)
LEMMA NextIs ==
  ASSUME [Next]_vars
  PROVE  \/ startSrv \/ setup_socket \/ Forward \/ ReadCtl \/ EndLoop \/ stopSrv \/ CloseOwn
         \/ DestroyEpoll \/ Finish \/ PortSays \/ UseDestroyed \/ EpollWait \/ NextEvent \/ Send
         \/ deadly_handler
         \/ \E c \in Client : Connect(c) \/ Say(c) \/ Hear(c) \/ Disconnect(c)
         \/ UNCHANGED vars
BY DEF Next, MainStep, Server, Clients

LEMMA DescriptorsKept ==
  ASSUME DescriptorsInv, UNCHANGED <<fd, client_fds, cbs>>,
         \A c \in Conn : Accepted(c) <=> Accepted(c)'
  PROVE  DescriptorsInv'
BY DEF DescriptorsInv

LEMMA DescriptorsAccept ==
  ASSUME TypeOK, DescriptorsInv, NEW c \in Conn, acceptClient(c)
  PROVE  DescriptorsInv'
<1> DEFINE p == Port(c)
<1>1. PICK f \in Fd \ {1, 2} :
           /\ \A d \in Conn : fd[d] # f
           /\ conn[c] = "waiting"
           /\ conn' = [conn EXCEPT ![c] = "accepted"]
           /\ fd' = [fd EXCEPT ![c] = f]
           /\ client_fds' = [client_fds EXCEPT ![p] = Append(client_fds[p], f)]
           /\ cbs' = [cbs EXCEPT ![f] = p]
  BY AcceptIs
<1>2. p \in Ports /\ client_fds[p] \in Seq(Fd) /\ ~In(client_fds[p], f)
  <2>1. p \in Ports
    BY ConnFacts
  <2>2. client_fds[p] \in Seq(Fd)
    BY <2>1, TypeFacts
  <2>3. In(client_fds[p], f) <=> \E d \in Conn : Accepted(d) /\ Port(d) = p /\ fd[d] = f
    BY <2>1 DEF DescriptorsInv
  <2> QED
    BY <1>1, <2>1, <2>2, <2>3
<1>3. Accepted(c)' /\ ~Accepted(c) /\ fd'[c] = f
      /\ \A d \in Conn \ {c} : (Accepted(d)' <=> Accepted(d)) /\ fd'[d] = fd[d]
  BY <1>1 DEF TypeOK, Accepted
<1>4. client_fds'[p] = Append(client_fds[p], f) /\ \A q \in Ports \ {p} : client_fds'[q] = client_fds[q]
  BY <1>1, <1>2 DEF TypeOK, Ports
<1>5. cbs'[f] = p /\ \A g \in Fd \ {f} : cbs'[g] = cbs[g]
  BY <1>1 DEF TypeOK
<1>6. (\A g : In(Append(client_fds[p], f), g) <=> In(client_fds[p], g) \/ g = f)
      /\ (Once(client_fds[p]) => Once(Append(client_fds[p], f)))
  BY <1>2, AppendIs
<1> HIDE DEF p
<1>7. \A d \in Conn : IF Accepted(d)' THEN fd'[d] \in Fd \ {1, 2} ELSE fd'[d] = 0
  BY <1>3 DEF DescriptorsInv
<1>8. \A d, e \in Conn : Accepted(d)' /\ fd'[d] = fd'[e] => d = e
  BY <1>1, <1>3 DEF DescriptorsInv
<1>9. \A q \in Ports : Once(client_fds'[q])
  BY <1>4, <1>6 DEF DescriptorsInv
<1>10. \A q \in Ports, g \in Fd :
         In(client_fds'[q], g) <=> \E d \in Conn : Accepted(d)' /\ Port(d) = q /\ fd'[d] = g
  <2> TAKE q \in Ports, g \in Fd
  <2>1. In(client_fds'[q], g) <=> In(client_fds[q], g) \/ (q = p /\ g = f)
    BY <1>4, <1>6
  <2>2. In(client_fds[q], g) <=> \E d \in Conn : Accepted(d) /\ Port(d) = q /\ fd[d] = g
    BY DEF DescriptorsInv
  <2> QED
    BY <1>3, <2>1, <2>2 DEF p
<1>11. \A g \in Fd \ {1, 2} :
         \/ cbs'[g] = "none" /\ \A d \in Conn : fd'[d] # g
         \/ \E d \in Conn : Accepted(d)' /\ fd'[d] = g /\ cbs'[g] = Port(d)
  <2> TAKE g \in Fd \ {1, 2}
  <2>1. CASE g = f
    BY <1>3, <1>5, <2>1 DEF p
  <2>2. CASE g # f
    BY <1>3, <1>5, <2>2 DEF DescriptorsInv
  <2> QED
    BY <2>1, <2>2
<1>12. \A g \in {1, 2} : cbs'[g] \in {"none", "accept"}
  BY <1>1, <1>5, ConnFacts DEF DescriptorsInv
<1> QED
  BY <1>7, <1>8, <1>9, <1>10, <1>11, <1>12 DEF DescriptorsInv

LEMMA DescriptorsCallback ==
  ASSUME TypeOK, DescriptorsInv, NEW c \in Conn, fd[c] \in Fd, EpollCallback(c)
  PROVE  DescriptorsInv'
<1> DEFINE p == Port(c)
           f == fd[c]
<1>1. Accepted(c) /\ f \in Fd \ {1, 2}
      /\ \/ UNCHANGED <<conn, fd, client_fds, cbs>>
         \/ /\ conn' = [conn EXCEPT ![c] = "none"]
            /\ fd' = [fd EXCEPT ![c] = 0]
            /\ client_fds' = [client_fds EXCEPT ![p] = Without(client_fds[p], f)]
            /\ cbs' = [cbs EXCEPT ![f] = "none"]
  BY CallbackIs
<1>2. CASE UNCHANGED <<conn, fd, client_fds, cbs>>
  BY <1>2, DescriptorsKept DEF Accepted
<1>3. CASE /\ conn' = [conn EXCEPT ![c] = "none"]
           /\ fd' = [fd EXCEPT ![c] = 0]
           /\ client_fds' = [client_fds EXCEPT ![p] = Without(client_fds[p], f)]
           /\ cbs' = [cbs EXCEPT ![f] = "none"]
  <2>1. p \in Ports /\ client_fds[p] \in Seq(Fd)
    BY ConnFacts, TypeFacts
  <2>2. ~Accepted(c)' /\ fd'[c] = 0
        /\ \A d \in Conn \ {c} : (Accepted(d)' <=> Accepted(d)) /\ fd'[d] = fd[d] /\ fd[d] # f
    BY <1>1, <1>3 DEF TypeOK, Accepted, DescriptorsInv
  <2>3. client_fds'[p] = Without(client_fds[p], f) /\ \A q \in Ports \ {p} : client_fds'[q] = client_fds[q]
    BY <1>3, <2>1 DEF TypeOK, Ports
  <2>4. cbs'[f] = "none" /\ \A g \in Fd \ {f} : cbs'[g] = cbs[g]
    BY <1>1, <1>3 DEF TypeOK
  <2>5. (\A g : In(Without(client_fds[p], f), g) <=> In(client_fds[p], g) /\ g # f)
        /\ (Once(client_fds[p]) => Once(Without(client_fds[p], f)))
    BY <2>1, WithoutIs
  <2>6. 0 \notin Fd
    BY ConnFacts
  <2> HIDE DEF p, f
  <2>7. \A d \in Conn : IF Accepted(d)' THEN fd'[d] \in Fd \ {1, 2} ELSE fd'[d] = 0
    BY <2>2 DEF DescriptorsInv
  <2>8. \A d, e \in Conn : Accepted(d)' /\ fd'[d] = fd'[e] => d = e
    BY <2>2, <2>6, <2>7 DEF DescriptorsInv
  <2>9. \A q \in Ports : Once(client_fds'[q])
    BY <2>3, <2>5 DEF DescriptorsInv
  <2>10. \A q \in Ports, g \in Fd :
           In(client_fds'[q], g) <=> \E d \in Conn : Accepted(d)' /\ Port(d) = q /\ fd'[d] = g
    <3> TAKE q \in Ports, g \in Fd
    <3>1. In(client_fds'[q], g) <=> In(client_fds[q], g) /\ ~(q = p /\ g = f)
      BY <2>3, <2>5
    <3>2. In(client_fds[q], g) <=> \E d \in Conn : Accepted(d) /\ Port(d) = q /\ fd[d] = g
      BY DEF DescriptorsInv
    <3> QED
      BY <1>1, <2>2, <3>1, <3>2 DEF p, f
  <2>11. \A g \in Fd \ {1, 2} :
           \/ cbs'[g] = "none" /\ \A d \in Conn : fd'[d] # g
           \/ \E d \in Conn : Accepted(d)' /\ fd'[d] = g /\ cbs'[g] = Port(d)
    <3> TAKE g \in Fd \ {1, 2}
    <3>1. CASE g = f
      BY <2>2, <2>4, <2>6, <3>1
    <3>2. CASE g # f
      BY <2>2, <2>4, <2>6, <3>2 DEF DescriptorsInv, f
    <3> QED
      BY <3>1, <3>2
  <2>12. \A g \in {1, 2} : cbs'[g] \in {"none", "accept"}
    BY <1>1, <2>4, ConnFacts DEF DescriptorsInv
  <2> QED
    BY <2>7, <2>8, <2>9, <2>10, <2>11, <2>12 DEF DescriptorsInv
<1> QED
  BY <1>1, <1>2, <1>3

(* ppcom connects to itself, or goes on without.                           *)
LEMMA SetupIs ==
  ASSUME TypeOK, OwnInv, setup_socket
  PROVE  /\ main \in Own /\ main \in Conn /\ conn[main] = "none" /\ ~up[main] /\ pending = <<>>
         /\ main' = IF main = "ownmsg" THEN "ownctl" ELSE "loop"
         /\ UNCHANGED <<how, sig_exit, pending, said, tables, turn, srv, listening, epollOpen, left>>
         /\ Reach(main) \/ UNCHANGED conns
BY ConnFacts DEF setup_socket, OwnInv

(* It writes to msgfd, or to the standard output.                          *)
LEMMA ForwardIs ==
  ASSUME Forward
  PROVE  /\ main = "forward" /\ main' = AfterWrite(pending')
         /\ UNCHANGED <<how, sig_exit, said, conn, up, toCli, heard, tables, turn, srv, listening,
                        epollOpen, left>>
         /\ \/ /\ up["ownmsg"] /\ Len(toSrv["ownmsg"]) < CapSrv
               /\ LET k == Least(CapSrv - Len(toSrv["ownmsg"]), Len(pending))
                  IN  /\ toSrv' = [toSrv EXCEPT !["ownmsg"] = @ \o Front(pending, k)]
                      /\ pending' = After(pending, k)
            \/ ~up["ownmsg"] /\ pending' = <<>> /\ toSrv' = toSrv
BY DEF Forward, ToMsgfd, ToStdout, Unwritten

(* Each part of the invariant is kept by every step.                       *)
LEMMA DescriptorsStep ==
  ASSUME TypeOK, DescriptorsInv, OwnInv, [Next]_vars
  PROVE  DescriptorsInv'
<1>1. ASSUME UNCHANGED <<conn, fd, client_fds, cbs>> PROVE DescriptorsInv'
  BY <1>1, DescriptorsKept DEF Accepted
<1>2. ASSUME NEW c \in Conn, conn[c] = "none", conn' = [conn EXCEPT ![c] = "waiting"],
             UNCHANGED <<fd, client_fds, cbs>>
      PROVE  DescriptorsInv'
  <2>1. \A d \in Conn : Accepted(d) <=> Accepted(d)'
    BY <1>2 DEF TypeOK, Accepted
  <2> QED
    BY <1>2, <2>1, DescriptorsKept
<1>3. CASE startSrv
  <2>1. UNCHANGED <<conn, fd, client_fds>>
    BY <1>3 DEF startSrv, conns
  <2>2. /\ \A f \in Fd \ {1, 2} : cbs'[f] = cbs[f]
        /\ \A f \in {1, 2} : cbs'[f] = cbs[f] \/ cbs'[f] = "accept"
    <3>1. cbs' = cbs \/ cbs' = [cbs EXCEPT ![1] = "accept", ![2] = "accept"]
      BY <1>3 DEF startSrv
    <3> QED
      BY <3>1, ConnFacts DEF TypeOK
  <2> QED
    BY <2>1, <2>2, ConnFacts DEF DescriptorsInv, Accepted
<1>4. CASE setup_socket
  <2>1. CASE Reach(main)
    BY <1>2, <1>4, <2>1, SetupIs DEF Reach, tables
  <2>2. CASE UNCHANGED conns
    BY <1>1, <1>4, <2>2, SetupIs DEF conns, tables
  <2> QED
    BY <1>4, <2>1, <2>2, SetupIs
<1>5. CASE stopSrv
  <2>1. \A c \in Conn : Accepted(c) <=> Accepted(c)'
    BY <1>5 DEF stopSrv, Accepted
  <2> QED
    BY <1>5, <2>1, DescriptorsKept DEF stopSrv, tables
<1>6. CASE NextEvent
  <2>1. CASE \E c \in Conn : acceptClient(c)
    BY <2>1, DescriptorsAccept
  <2>2. CASE \E c \in Conn : fd[c] \in Fd /\ EpollCallback(c)
    BY <2>2, DescriptorsCallback
  <2>3. CASE UNCHANGED <<conn, fd, client_fds, cbs>>
    BY <1>1, <2>3
  <2> QED
    BY <1>6, <2>1, <2>2, <2>3, EventIs
<1>7. ASSUME NEW c \in Client, Connect(c) PROVE DescriptorsInv'
  <2>1. c \in Conn /\ conn[c] = "none" /\ conn' = [conn EXCEPT ![c] = "waiting"]
        /\ UNCHANGED <<fd, client_fds, cbs>>
    BY <1>7, ConnFacts DEF Connect, Reach, tables
  <2> QED
    BY <1>2, <2>1
<1>8. ASSUME NEW c \in Client, Say(c) \/ Hear(c) \/ Disconnect(c) PROVE DescriptorsInv'
  BY <1>1, <1>8 DEF Say, Hear, Disconnect, tables
<1>9. CASE Forward \/ ReadCtl \/ EndLoop \/ CloseOwn \/ DestroyEpoll \/ Finish \/ PortSays
  <2>1. UNCHANGED <<conn, tables>>
    BY <1>9 DEF Forward, ReadCtl, EndLoop, CloseOwn, DestroyEpoll, Finish, PortSays, conns
  <2> QED
    BY <1>1, <2>1 DEF tables
<1>10. CASE UseDestroyed \/ EpollWait \/ Send \/ deadly_handler \/ UNCHANGED vars
  <2>1. UNCHANGED <<conn, tables>>
    BY <1>10 DEF UseDestroyed, EpollWait, Send, deadly_handler, vars, conns
  <2> QED
    BY <1>1, <2>1 DEF tables
<1> QED
  BY <1>3, <1>4, <1>5, <1>6, <1>7, <1>8, <1>9, <1>10, NextIs

LEMMA OwnStep ==
  ASSUME TypeOK, DescriptorsInv, OwnInv, [Next]_vars
  PROVE  OwnInv'
<1>1. ASSUME main' = main \/ main' \notin {"start", "loop", "forward"} \cup Own,
             main' = "start" => srv' = srv, pending' = pending,
             \A c \in Own : conn[c] = "none" /\ ~up[c] => conn'[c] = "none" /\ ~up'[c],
             toSrv["ownmsg"] = <<>> => toSrv'["ownmsg"] = <<>>, up'["ownmsg"] = up["ownmsg"]
      PROVE  OwnInv'
  BY <1>1, ConnFacts DEF OwnInv
<1>2. CASE startSrv
  BY <1>2 DEF startSrv, OwnInv, Own, conns
<1>3. CASE setup_socket
  <2>1. CASE main = "ownmsg"
    <3>1. main' = "ownctl" /\ conn'["ownctl"] = conn["ownctl"] /\ up'["ownctl"] = up["ownctl"]
          /\ pending' = pending /\ toSrv["ownmsg"] = <<>> /\ toSrv'["ownmsg"] = <<>>
      <4>1. CASE Reach(main)
        BY <1>3, <2>1, <4>1, SetupIs, ConnFacts DEF Reach, TypeOK, OwnInv
      <4>2. CASE UNCHANGED conns
        BY <1>3, <2>1, <4>2, SetupIs, ConnFacts DEF conns, OwnInv
      <4> QED
        BY <1>3, <4>1, <4>2, SetupIs
    <3> QED
      BY <2>1, <3>1, ConnFacts DEF OwnInv
  <2>2. CASE main = "ownctl"
    <3>1. main' = "loop" /\ toSrv'["ownmsg"] = toSrv["ownmsg"] /\ up'["ownmsg"] = up["ownmsg"]
      <4>1. CASE Reach(main)
        BY <1>3, <2>2, <4>1, SetupIs, ConnFacts DEF Reach, TypeOK
      <4>2. CASE UNCHANGED conns
        BY <1>3, <2>2, <4>2, SetupIs DEF conns
      <4> QED
        BY <1>3, <4>1, <4>2, SetupIs
    <3> QED
      BY <2>2, <3>1, ConnFacts DEF OwnInv
  <2> QED
    BY <1>3, <2>1, <2>2, SetupIs, ConnFacts
<1>4. CASE Forward
  <2>1. /\ main = "forward" /\ main' \in {"loop", "forward"} /\ up' = up
        /\ ~up["ownmsg"] => toSrv' = toSrv
    BY <1>4, ForwardIs DEF AfterWrite
  <2> QED
    BY <2>1, ConnFacts DEF OwnInv
<1>5. CASE stopSrv
  BY <1>5, ConnFacts DEF stopSrv, OwnInv
<1>6. CASE NextEvent
  <2>1. main' = main /\ srv = "events" /\ up' = up /\ pending' = pending
    BY <1>6, EventIs DEF acceptClient, EpollCallback
  <2>2. main # "start"
    BY <2>1 DEF OwnInv
  <2>3. ASSUME NEW c \in Conn, acceptClient(c)
        PROVE  /\ conn[c] = "waiting" /\ toSrv' = toSrv
               /\ \A d \in Conn : d # c => conn'[d] = conn[d]
    BY <2>3 DEF acceptClient, TypeOK
  <2>4. ASSUME NEW c \in Conn, fd[c] \in Fd, EpollCallback(c)
        PROVE  /\ conn[c] # "none" /\ \A d \in Conn : d # c => conn'[d] = conn[d]
               /\ \A d \in Conn : toSrv[d] = <<>> => toSrv'[d] = <<>>
    <3>1. /\ Accepted(c)
          /\ \/ toSrv[c] # <<>> /\ toSrv' = [toSrv EXCEPT ![c] = After(toSrv[c], ReadSize)] /\ conn' = conn
             \/ toSrv' = toSrv /\ conn' = [conn EXCEPT ![c] = "none"]
      BY <2>4, CallbackIs
    <3> QED
      BY <3>1 DEF Accepted, TypeOK
  <2>5. CASE \E c \in Conn : acceptClient(c)
    BY <1>1, <2>1, <2>2, <2>3, <2>5, ConnFacts
  <2>6. CASE \E c \in Conn : fd[c] \in Fd /\ EpollCallback(c)
    BY <1>1, <2>1, <2>2, <2>4, <2>6, ConnFacts
  <2>7. CASE UNCHANGED <<conn, up, toSrv>>
    BY <1>1, <2>1, <2>2, <2>7
  <2> QED
    BY <1>6, <2>5, <2>6, <2>7, EventIs
<1>7. ASSUME NEW c \in Client, Connect(c) \/ Say(c) \/ Hear(c) \/ Disconnect(c) PROVE OwnInv'
  <2>1. main' = main /\ srv' = srv /\ pending' = pending
    BY <1>7 DEF Connect, Say, Hear, Disconnect, mainvars
  <2>2. c \notin Own /\ Own \subseteq Conn /\ "ownmsg" \in Own
    BY ConnFacts
  <2>3. \A d \in Own : conn'[d] = conn[d] /\ up'[d] = up[d] /\ toSrv'[d] = toSrv[d]
    <3>1. CASE Connect(c)
      BY <2>2, <3>1 DEF Connect, Reach, TypeOK
    <3>2. CASE Say(c) \/ Hear(c)
      BY <2>2, <3>2 DEF Say, Hear, TypeOK
    <3>3. CASE Disconnect(c)
      BY <2>2, <3>3 DEF Disconnect, HangUp, TypeOK
    <3> QED
      BY <1>7, <3>1, <3>2, <3>3
  <2> QED
    BY <1>1, <2>1, <2>2, <2>3
<1>4a. CASE PortSays
  <2>1. main = "loop" /\ main' = "forward" /\ UNCHANGED <<up, toSrv>>
    BY <1>4a DEF PortSays, conns
  <2> QED
    BY <2>1, ConnFacts DEF OwnInv
<1>8. CASE EndLoop \/ CloseOwn \/ DestroyEpoll \/ Finish \/ UseDestroyed
  <2>1. main' \in {"stop", "cleanup", "destroy", "done", "aborted"}
    BY <1>8 DEF EndLoop, CloseOwn, DestroyEpoll, Finish, UseDestroyed
  <2> QED
    BY <2>1, ConnFacts DEF OwnInv
<1>9. CASE ReadCtl \/ EpollWait \/ Send \/ UNCHANGED vars
  <2>1. main' = main /\ UNCHANGED <<conn, up, toSrv, pending>>
    BY <1>9 DEF ReadCtl, EpollWait, Send, vars, mainvars, conns
  <2>2. srv' = srv \/ srv \in {"wait", "send"}
    BY <1>9 DEF ReadCtl, EpollWait, Send, vars
  <2> QED
    BY <2>1, <2>2 DEF OwnInv
<1>10. CASE deadly_handler
  <2>1. (main' = main \/ main' = "aborted") /\ UNCHANGED <<srv, conn, up, toSrv, pending>>
    BY <1>10 DEF deadly_handler, conns
  <2> QED
    BY <2>1, ConnFacts DEF OwnInv
<1> QED
  BY <1>2, <1>3, <1>4, <1>4a, <1>5, <1>6, <1>7, <1>8, <1>9, <1>10, NextIs

(* What a connection keeps for the next one is nothing.                    *)
LEMMA HangUpIs ==
  ASSUME TypeOK, NEW C, HangUp(C), NEW c \in Conn
  PROVE  /\ up'[c] = (up[c] /\ c \notin C)
         /\ heard'[c] = IF c \in C THEN 0 ELSE heard[c]
         /\ toCli'[c] = IF c \in C THEN <<>> ELSE toCli[c]
         /\ toSrv'[c] = toSrv[c] \/ (c \in C /\ toSrv'[c] = <<>>)
<1>1. /\ heard'[c] = IF c \in C THEN 0 ELSE heard[c]
      /\ toCli'[c] = IF c \in C THEN <<>> ELSE toCli[c]
      /\ toSrv'[c] = toSrv[c] \/ (c \in C /\ toSrv'[c] = <<>>)
  BY DEF HangUp
<1>2. up'[c] = (up[c] /\ c \notin C)
  BY DEF HangUp
<1> QED
  BY <1>1, <1>2

LEMMA HearIs ==
  ASSUME TypeOK, NEW c \in Client, Hear(c)
  PROVE  /\ up[c] /\ toCli[c] # <<>> /\ toCli' = [toCli EXCEPT ![c] = <<>>]
         /\ \E n \in 0 .. Len(toCli[c]) :
              /\ LastIn(toCli[c], heard[c], n) /\ (n > 0 => NrIn(toCli[c], heard[c], n) > 0)
              /\ heard' = [heard EXCEPT ![c] = NrIn(toCli[c], heard[c], n)]
         /\ UNCHANGED <<main, how, sig_exit, pending, said, conn, up, toSrv, fd, client_fds, cbs,
                        active, buffer, rest, targets, srv, listening, epollOpen, left>>
<1>1. PICK n \in Places(c) : /\ IsLast(c, n) /\ (n > 0 => Nr(c, n) > 0)
                             /\ heard' = [heard EXCEPT ![c] = Nr(c, n)]
  BY DEF Hear
<1>2. n \in 0 .. Len(toCli[c]) /\ Nr(c, n) = NrIn(toCli[c], heard[c], n)
  BY DEF Places, Nr, NrIn
<1>3. LastIn(toCli[c], heard[c], n)
  BY <1>1 DEF IsLast, LastIn, Places, Nr, NrIn
<1>4. /\ up[c] /\ toCli[c] # <<>> /\ toCli' = [toCli EXCEPT ![c] = <<>>]
      /\ UNCHANGED <<main, how, sig_exit, pending, said, conn, up, toSrv, fd, client_fds, cbs,
                     active, buffer, rest, targets, srv, listening, epollOpen, left>>
  BY DEF Hear, mainvars, tables, turn
<1> QED
  BY <1>1, <1>2, <1>3, <1>4

LEMMA QuietStep ==
  ASSUME TypeOK, DescriptorsInv, OwnInv, QuietInv, TargetsInv, [Next]_vars
  PROVE  QuietInv'
<1>1. ASSUME \A c \in Conn :
               /\ ~up'[c] => \/ toCli'[c] = <<>> /\ heard'[c] = 0
                             \/ ~up[c] /\ (toCli'[c] = toCli[c] \/ toCli'[c] = <<>>) /\ heard'[c] = heard[c]
               /\ conn'[c] # "accepted" =>
                    toCli'[c] = <<>> \/ (conn[c] # "accepted" /\ toCli'[c] = toCli[c])
               /\ conn'[c] = "waiting" =>
                    heard'[c] = 0 \/ (conn[c] = "waiting" /\ heard'[c] = heard[c])
      PROVE  QuietInv'
  BY <1>1 DEF QuietInv, Accepted
<1>2. CASE UNCHANGED <<conn, up, toCli, heard>>
  BY <1>2 DEF QuietInv, Accepted
<1>3. ASSUME NEW d \in Conn, ~up[d], conn[d] = "none", Reach(d) PROVE QuietInv'
  <2>1. heard[d] = 0 /\ toCli[d] = <<>>
    BY <1>3 DEF QuietInv
  <2>2. \A c \in Conn : /\ toCli'[c] = toCli[c] /\ heard'[c] = heard[c]
                        /\ c # d => conn'[c] = conn[c] /\ up'[c] = up[c]
    BY <1>3 DEF Reach, TypeOK
  <2> QED
    BY <1>1, <2>1, <2>2
<1>4. CASE setup_socket
  <2>1. CASE Reach(main)
    BY <1>3, <1>4, <2>1, SetupIs
  <2>2. CASE UNCHANGED conns
    BY <1>2, <2>2 DEF conns
  <2> QED
    BY <1>4, <2>1, <2>2, SetupIs
<1>5. CASE ReadCtl
  <2>1. UNCHANGED <<conn, up, heard>> /\ toCli["ownctl"] # <<>>
        /\ \A c \in Conn : c # "ownctl" => toCli'[c] = toCli[c]
    BY <1>5, ConnFacts DEF ReadCtl, TypeOK
  <2>2. up["ownctl"] /\ Accepted("ownctl")
    BY <2>1, ConnFacts DEF QuietInv
  <2> QED
    BY <1>1, <2>1, <2>2 DEF Accepted
<1>6. CASE stopSrv
  <2>1. \A c \in Conn : conn'[c] = IF conn[c] = "waiting" THEN "none" ELSE conn[c]
    BY <1>6 DEF stopSrv
  <2>2. \A c \in Conn : up'[c] = (up[c] /\ conn[c] # "waiting")
    BY <1>6 DEF stopSrv
  <2>3. UNCHANGED <<toCli, heard>>
    BY <1>6 DEF stopSrv
  <2>4. \A c \in Conn : conn[c] = "waiting" => toCli[c] = <<>> /\ heard[c] = 0
    BY DEF QuietInv, Accepted
  <2> QED
    BY <1>1, <2>1, <2>2, <2>3, <2>4
<1>7. ASSUME NEW C, HangUp(C), conn' = conn PROVE QuietInv'
  <2>1. \A c \in Conn : /\ up'[c] = (up[c] /\ c \notin C)
                        /\ heard'[c] = IF c \in C THEN 0 ELSE heard[c]
                        /\ toCli'[c] = IF c \in C THEN <<>> ELSE toCli[c]
    BY <1>7, HangUpIs
  <2> QED
    BY <1>1, <1>7, <2>1
<1>8. CASE NextEvent
  <2>1. ASSUME NEW c \in Conn, acceptClient(c) PROVE QuietInv'
    <3>1. conn' = [conn EXCEPT ![c] = "accepted"] /\ UNCHANGED <<up, toCli, heard>>
      BY <2>1 DEF acceptClient
    <3> QED
      BY <1>1, <3>1 DEF TypeOK
  <2>2. ASSUME NEW c \in Conn, fd[c] \in Fd, EpollCallback(c) PROVE QuietInv'
    <3>1. \/ UNCHANGED <<conn, toCli>>
          \/ conn' = [conn EXCEPT ![c] = "none"] /\ toCli' = [toCli EXCEPT ![c] = <<>>]
      BY <2>2, CallbackIs
    <3>2. UNCHANGED <<up, heard>>
      BY <2>2, CallbackIs
    <3>3. CASE conn' = [conn EXCEPT ![c] = "none"] /\ toCli' = [toCli EXCEPT ![c] = <<>>]
      BY <1>1, <3>2, <3>3 DEF TypeOK
    <3> QED
      BY <1>2, <3>1, <3>2, <3>3
  <2> QED
    BY <1>2, <1>8, <2>1, <2>2, EventIs
<1>9. CASE Send
  <2>1. UNCHANGED <<conn, up, heard>>
    BY <1>9, SendIs
  <2>2. toCli' = toCli \/ \E c \in Conn : /\ Accepted(c) /\ up[c]
                                          /\ \E s : toCli' = [toCli EXCEPT ![c] = s]
    BY <1>9, SendIs
  <2>3. \A c \in Conn : toCli'[c] = toCli[c] \/ (Accepted(c) /\ up[c])
    BY <2>2 DEF TypeOK
  <2> QED
    BY <1>1, <2>1, <2>3 DEF Accepted
<1>10. ASSUME NEW c \in Client, Connect(c) PROVE QuietInv'
  BY <1>3, <1>10, ConnFacts DEF Connect
<1>11. ASSUME NEW c \in Client, Say(c) PROVE QuietInv'
  BY <1>2, <1>11 DEF Say
<1>12. ASSUME NEW c \in Client, Hear(c) PROVE QuietInv'
  <2>1. up[c] /\ toCli[c] # <<>> /\ UNCHANGED <<conn, up>>
        /\ \A d \in Conn : d # c => toCli'[d] = toCli[d] /\ heard'[d] = heard[d]
    BY <1>12, HearIs DEF TypeOK
  <2>2. Accepted(c) /\ c \in Conn
    BY <2>1, ConnFacts DEF QuietInv
  <2> QED
    BY <1>1, <2>1, <2>2 DEF Accepted
<1>13. ASSUME NEW c \in Client, Disconnect(c) PROVE QuietInv'
  BY <1>7, <1>13 DEF Disconnect
<1>14. CASE CloseOwn
  BY <1>7, <1>14 DEF CloseOwn
<1>15. CASE startSrv \/ Forward \/ EndLoop \/ DestroyEpoll \/ Finish \/ PortSays \/ UseDestroyed
            \/ EpollWait \/ deadly_handler \/ UNCHANGED vars
  <2>1. UNCHANGED <<conn, up, toCli, heard>>
    BY <1>15 DEF startSrv, Forward, EndLoop, DestroyEpoll, Finish, PortSays, UseDestroyed, EpollWait,
                 deadly_handler, vars, conns
  <2> QED
    BY <1>2, <2>1
<1> QED
  BY <1>4, <1>5, <1>6, <1>8, <1>9, <1>10, <1>11, <1>12, <1>13, <1>14, <1>15, NextIs

(* The next target.                                                        *)
LEMMA TailIs ==
  ASSUME TypeOK, targets # <<>>, Once(targets)
  PROVE  /\ Once(Tail(targets)) /\ ~In(Tail(targets), Head(targets))
         /\ \A f : In(targets, f) <=> f = Head(targets) \/ In(Tail(targets), f)
<1>1. /\ Len(targets) \in Nat \ {0} /\ DOMAIN targets = 1 .. Len(targets) /\ Head(targets) = targets[1]
      /\ Tail(targets) \in Seq(Fd) /\ Len(Tail(targets)) = Len(targets) - 1
      /\ \A i \in 1 .. Len(targets) - 1 : Tail(targets)[i] = targets[i + 1]
  BY TypeFacts
<1>2. DOMAIN Tail(targets) = 1 .. Len(targets) - 1
  BY <1>1, LenProperties
<1> DEFINE t == Tail(targets)
<1>3. DOMAIN t = 1 .. Len(targets) - 1 /\ \A i \in 1 .. Len(targets) - 1 : t[i] = targets[i + 1]
  BY <1>1, <1>2
<1>4. Once(t)
  <2>1. SUFFICES ASSUME NEW i \in DOMAIN t, NEW j \in DOMAIN t, t[i] = t[j] PROVE i = j
    BY DEF Once
  <2> HIDE DEF t
  <2>2. i + 1 \in DOMAIN targets /\ j + 1 \in DOMAIN targets /\ targets[i + 1] = targets[j + 1]
    BY <1>1, <1>3, <2>1
  <2>3. i + 1 = j + 1
    BY <2>2 DEF Once
  <2> QED
    BY <1>1, <1>3, <2>3
<1>5. ~In(t, Head(targets))
  <2>1. SUFFICES ASSUME NEW i \in DOMAIN t, t[i] = targets[1] PROVE FALSE
    BY <1>1 DEF In
  <2> HIDE DEF t
  <2>2. i + 1 \in DOMAIN targets /\ 1 \in DOMAIN targets /\ targets[i + 1] = targets[1] /\ i + 1 # 1
    BY <1>1, <1>3, <2>1
  <2> QED
    BY <2>2 DEF Once
<1>6. \A f : In(targets, f) <=> f = Head(targets) \/ In(t, f)
  <2> TAKE f
  <2> HIDE DEF t
  <2>1. ASSUME NEW i \in DOMAIN targets, targets[i] = f PROVE f = Head(targets) \/ In(t, f)
    <3>1. CASE i = 1
      BY <1>1, <2>1, <3>1
    <3>2. CASE i # 1
      <4>1. i - 1 \in DOMAIN t /\ (i - 1) + 1 = i
        BY <1>1, <1>3, <3>2
      <4>2. t[i - 1] = targets[i]
        BY <1>3, <4>1
      <4> QED
        BY <2>1, <4>1, <4>2 DEF In
    <3> QED
      BY <3>1, <3>2
  <2>2. ASSUME NEW i \in DOMAIN t, t[i] = f PROVE In(targets, f)
    <3>1. i + 1 \in DOMAIN targets /\ targets[i + 1] = f
      BY <1>1, <1>3, <2>2
    <3> QED
      BY <3>1 DEF In
  <2>3. In(targets, Head(targets))
    BY <1>1 DEF In
  <2> QED
    BY <2>1, <2>2, <2>3 DEF In
<1> QED
  BY <1>4, <1>5, <1>6

LEMMA TargetsStep ==
  ASSUME TypeOK, DescriptorsInv, OwnInv, TargetsInv, DescriptorsInv', [Next]_vars
  PROVE  TargetsInv'
<1>1. ASSUME targets' = targets, targets # <<>> => srv' = srv,
             \A c \in Conn : Accepted(c) => Accepted(c)' /\ fd'[c] = fd[c]
      PROVE  TargetsInv'
  BY <1>1 DEF TargetsInv
<1>2. ASSUME targets # <<>>, NextTarget, srv' = srv, UNCHANGED <<conn, fd>>
      PROVE  TargetsInv'
  <2>1. Once(Tail(targets)) /\ \A f : In(Tail(targets), f) => In(targets, f)
    BY <1>2, TailIs DEF TargetsInv
  <2>2. targets' = Tail(targets) /\ srv' = "send"
    BY <1>2 DEF NextTarget, TargetsInv
  <2>3. \A i \in DOMAIN targets' : \E c \in Conn : Accepted(c)' /\ fd'[c] = targets'[i]
    BY <1>2, <2>1, <2>2 DEF TargetsInv, In, Accepted
  <2> QED
    BY <2>1, <2>2, <2>3 DEF TargetsInv
<1>3. CASE startSrv
  <2>1. UNCHANGED <<conn, fd, targets>> /\ targets = <<>>
    BY <1>3 DEF startSrv, OwnInv, TargetsInv, conns, turn
  <2> QED
    BY <1>1, <2>1 DEF Accepted
<1>4. ASSUME NEW c \in Conn, conn[c] # "accepted", Reach(c), UNCHANGED <<tables, turn, srv>>
      PROVE  TargetsInv'
  <2>1. \A d \in Conn : Accepted(d) => Accepted(d)'
    BY <1>4 DEF Reach, TypeOK, Accepted
  <2> QED
    BY <1>1, <1>4, <2>1 DEF tables, turn
<1>5. CASE setup_socket
  <2>1. CASE Reach(main)
    BY <1>4, <1>5, <2>1, SetupIs
  <2>2. CASE UNCHANGED conns
    BY <1>1, <1>5, <2>2, SetupIs DEF conns, tables, turn, Accepted
  <2> QED
    BY <1>5, <2>1, <2>2, SetupIs
<1>6. CASE stopSrv
  <2>1. \A c \in Conn : Accepted(c) => Accepted(c)'
    BY <1>6 DEF stopSrv, Accepted
  <2> QED
    BY <1>1, <1>6, <2>1 DEF stopSrv, tables, turn
<1>7. CASE NextEvent
  <2>1. srv = "events" /\ targets = <<>>
    BY <1>7, EventIs DEF TargetsInv
  <2>2. CASE targets' = targets
    BY <2>1, <2>2, EmptySeq DEF TargetsInv
  <2>3. ASSUME NEW c \in Conn, fd[c] \in Fd, EpollCallback(c) PROVE TargetsInv'
    <3> DEFINE p == Port(c)
               list == client_fds'[p]
    <3>1. targets' = Without(list, fd[c]) /\ srv' = "send"
      BY <2>3, CallbackIs
    <3>2. p \in Ports /\ Once(list)
      BY ConnFacts DEF DescriptorsInv
    <3>3. list \in Seq(Fd)
      <4>1. client_fds[p] \in Seq(Fd) /\ Without(client_fds[p], fd[c]) \in Seq(Fd)
        BY <3>2, TypeFacts, WithoutIs
      <4>2. \/ client_fds' = client_fds
            \/ client_fds' = [client_fds EXCEPT ![p] = Without(client_fds[p], fd[c])]
        BY <2>3, CallbackIs
      <4> QED
        BY <3>2, <4>1, <4>2 DEF TypeOK, Ports
    <3>4. Once(targets') /\ targets' \in Seq(Fd) /\ \A f : In(targets', f) => In(list, f)
      <4> HIDE DEF list
      <4> QED
        BY <3>1, <3>2, <3>3, WithoutIs
    <3>5. \A i \in DOMAIN targets' : \E d \in Conn : Accepted(d)' /\ fd'[d] = targets'[i]
      <4> TAKE i \in DOMAIN targets'
      <4>1. targets'[i] \in Fd
        BY <3>4, LenProperties, ElementOfSeq
      <4>2. In(list, targets'[i])
        BY <3>4 DEF In
      <4> QED
        BY <3>2, <4>1, <4>2 DEF DescriptorsInv
    <3> QED
      BY <3>1, <3>4, <3>5 DEF TargetsInv
  <2>4. \A c \in Conn : acceptClient(c) => targets' = targets
    BY DEF acceptClient
  <2> QED
    BY <1>7, <2>2, <2>3, <2>4, EventIs
<1>8. CASE Send
  <2>1. UNCHANGED <<conn, fd>>
    BY <1>8, SendIs
  <2>2. CASE targets = <<>> /\ targets' = targets
    BY <1>1, <2>1, <2>2 DEF Accepted
  <2>3. CASE targets # <<>> /\ srv' = srv /\ NextTarget
    BY <1>2, <2>1, <2>3
  <2>4. CASE targets # <<>> /\ srv' = srv /\ targets' = targets
    BY <1>1, <2>1, <2>4 DEF Accepted
  <2> QED
    BY <1>8, <2>2, <2>3, <2>4, SendIs
<1>9. CASE deadly_handler
  <2>1. UNCHANGED <<conn, fd, srv>>
    BY <1>9 DEF deadly_handler, conns, tables
  <2>2. CASE targets' = targets
    BY <1>1, <2>1, <2>2 DEF Accepted
  <2>3. CASE targets # <<>> /\ NextTarget
    BY <1>2, <2>1, <2>3
  <2> QED
    BY <1>9, <2>2, <2>3 DEF deadly_handler
<1>10. ASSUME NEW c \in Client, Connect(c) PROVE TargetsInv'
  BY <1>4, <1>10, ConnFacts DEF Connect
<1>11. ASSUME NEW c \in Client, Say(c) \/ Hear(c) \/ Disconnect(c) PROVE TargetsInv'
  <2>1. UNCHANGED <<conn, tables, turn, srv>>
    BY <1>11 DEF Say, Hear, Disconnect
  <2> QED
    BY <1>1, <2>1 DEF tables, turn, Accepted
<1>12. CASE EpollWait
  <2>1. srv = "wait" /\ UNCHANGED <<conn, fd, targets>>
    BY <1>12 DEF EpollWait, conns, tables
  <2> QED
    BY <1>1, <2>1 DEF Accepted, TargetsInv
<1>13. CASE Forward \/ ReadCtl \/ EndLoop \/ CloseOwn \/ DestroyEpoll \/ Finish \/ PortSays
            \/ UseDestroyed \/ UNCHANGED vars
  <2>1. UNCHANGED <<conn, fd, targets, srv>>
    BY <1>13 DEF Forward, ReadCtl, EndLoop, CloseOwn, DestroyEpoll, Finish, PortSays, UseDestroyed,
                 vars, conns, tables, turn
  <2> QED
    BY <1>1, <2>1 DEF Accepted
<1> QED
  BY <1>3, <1>5, <1>6, <1>7, <1>8, <1>9, <1>10, <1>11, <1>12, <1>13, NextIs

LEMMA TypeStep ==
  ASSUME TypeOK, DescriptorsInv, OwnInv, TargetsInv, [Next]_vars
  PROVE  TypeOK'
<1> USE DEF mainvars, conns, tables, turn
<1>1. ASSUME NEW d \in Conn, Reach(d),
             UNCHANGED <<srv, how, sig_exit, pending, said, tables, turn, listening, epollOpen>>,
             main' \in {"ownctl", "loop", main}, main' = "loop" => pending = <<>>,
             left' \in [sends : 0 .. MaxSends, connects : 0 .. MaxConnects]
      PROVE  TypeOK'
  <2>1. <<>> \in Seq(Bytes) /\ Len(<<>>) = 0
    BY EmptySeq
  <2>2. toSrv' \in [Conn -> Seq(Bytes)] /\ \A c \in Conn : Len(toSrv'[c]) <= CapSrv
    <3>1. toSrv' = [toSrv EXCEPT ![d] = <<>>] \/ toSrv' = toSrv
      BY <1>1 DEF Reach
    <3>2. \A c \in Conn : Len(toSrv[c]) <= CapSrv /\ Len(<<>>) <= CapSrv
      BY <2>1, TypeFacts, ConnFacts
    <3> QED
      BY <2>1, <3>1, <3>2, TypeFacts
  <2>3. conn' \in [Conn -> {"none", "waiting", "accepted"}] /\ up' \in [Conn -> BOOLEAN]
    BY <1>1 DEF Reach, TypeOK
  <2>4. /\ toCli' = toCli /\ heard' = heard
        /\ UNCHANGED <<srv, how, sig_exit, pending, said, fd, client_fds, cbs, active, buffer, rest,
                       targets, listening, epollOpen>>
    BY <1>1 DEF Reach
  <2>5. /\ main' = "loop" => pending' = <<>>
        /\ main' = "forward" => pending' # <<>>
        /\ main' \in Own \cup {"start", "loop", "forward", "stop", "close", "destroy", "cleanup", "done",
                               "aborted"}
    BY <1>1, ConnFacts DEF TypeOK
  <2> QED
    BY <1>1, <2>2, <2>3, <2>4, <2>5, SMTT(30) DEF TypeOK
<1>2. ASSUME NEW C, HangUp(C), UNCHANGED <<srv, how, sig_exit, pending, said, conn, tables, turn, listening,
                                          epollOpen, left>>,
             main' \in {main, "destroy"}
      PROVE  TypeOK'
  <2>1. <<>> \in Seq(Bytes) /\ Len(<<>>) = 0
    BY EmptySeq
  <2>2. up' \in [Conn -> BOOLEAN]
    BY <1>2 DEF HangUp, TypeOK
  <2>3. heard' \in [Conn -> 0 .. MaxSaid]
    BY <1>2, ConnFacts DEF HangUp, TypeOK
  <2>4. toCli' \in [Conn -> Seq(Bytes)] /\ \A c \in Conn : Len(toCli'[c]) <= CapCli
    BY <1>2, <2>1, TypeFacts, ConnFacts, SMTT(30) DEF HangUp
  <2>5. toSrv' \in [Conn -> Seq(Bytes)] /\ \A c \in Conn : Len(toSrv'[c]) <= CapSrv
    <3>1. toSrv' = toSrv \/ toSrv' = [c \in Conn |-> IF c \in C /\ toCli[c] # <<>> THEN <<>> ELSE toSrv[c]]
      BY <1>2 DEF HangUp
    <3>2. /\ toSrv' = [c \in Conn |-> toSrv'[c]]
          /\ \A c \in Conn : toSrv'[c] = toSrv[c] \/ toSrv'[c] = <<>>
      BY <3>1 DEF TypeOK
    <3>3. \A c \in Conn : toSrv[c] \in Seq(Bytes) /\ Len(toSrv[c]) <= CapSrv
      BY TypeFacts
    <3>4. 0 <= CapSrv
      BY ConnFacts
    <3>5. \A c \in Conn : toSrv'[c] \in Seq(Bytes) /\ Len(toSrv'[c]) <= CapSrv
      BY <2>1, <3>2, <3>3, <3>4
    <3> QED
      BY <3>2, <3>5
  <2> QED
    BY <1>2, <2>2, <2>3, <2>4, <2>5 DEF TypeOK
<1>3. ASSUME targets # <<>>, NextTarget PROVE targets' \in Seq(Fd) /\ rest' \in Seq(Bytes)
  BY <1>3, TypeFacts DEF NextTarget
<1>4. CASE startSrv
  <2>1. cbs' \in [Fd -> {"none", "accept", "msg", "ctl"}] /\ main' \in {"ownmsg", "aborted"}
        /\ srv' \in {"wait", srv} /\ listening' \in {TRUE, listening}
    BY <1>4 DEF startSrv, TypeOK
  <2>2. UNCHANGED <<how, sig_exit, pending, said, conns, fd, client_fds, turn, epollOpen, left>>
    BY <1>4 DEF startSrv
  <2> QED
    BY <2>1, <2>2, ConnFacts DEF TypeOK
<1>5. CASE setup_socket
  <2>1. CASE Reach(main)
    BY <1>1, <1>5, <2>1, SetupIs DEF TypeOK
  <2>2. CASE UNCHANGED conns
    BY <1>5, <2>2, SetupIs, ConnFacts DEF TypeOK
  <2> QED
    BY <1>5, <2>1, <2>2, SetupIs
<1>6. CASE PortSays
  <2>1. PICK k \in 1 .. MaxSaid - said : /\ pending' = [i \in 1 .. k |-> FromPort(said + i)]
                                         /\ said' = said + k
    BY <1>6 DEF PortSays
  <2>2. k \in Nat \ {0} /\ said' \in 0 .. MaxSaid /\ \A i \in 1 .. k : said + i \in 1 .. MaxSaid
    <3>1. said \in 0 .. MaxSaid /\ MaxSaid \in Nat
      BY ConnFacts DEF TypeOK
    <3> QED
      BY <2>1, <3>1
  <2>3. \A i \in 1 .. k : FromPort(said + i) \in Bytes
    BY <2>2, BytesFacts
  <2>4. pending' \in Seq(Bytes) /\ Len(pending') = k
    BY <2>1, <2>2, <2>3, IsASeq, LenProperties
  <2>5. pending' # <<>>
    BY <2>2, <2>4, EmptySeq
  <2>6. main' = "forward" /\ UNCHANGED <<how, sig_exit, conns, tables, turn, srv, listening, epollOpen, left>>
    BY <1>6 DEF PortSays
  <2> QED
    BY <2>2, <2>4, <2>5, <2>6 DEF TypeOK
<1>7. CASE Forward
  <2>1. CASE /\ up["ownmsg"] /\ Len(toSrv["ownmsg"]) < CapSrv
             /\ LET k == Least(CapSrv - Len(toSrv["ownmsg"]), Len(pending))
                IN  /\ toSrv' = [toSrv EXCEPT !["ownmsg"] = @ \o Front(pending, k)]
                    /\ pending' = After(pending, k)
    <3> DEFINE s == toSrv["ownmsg"]
               k == Least(CapSrv - Len(s), Len(pending))
    <3>1. s \in Seq(Bytes) /\ pending \in Seq(Bytes) /\ Len(s) \in Nat /\ Len(pending) \in Nat
          /\ Len(s) < CapSrv /\ CapSrv \in Nat
      BY <2>1, ConnFacts, TypeFacts
    <3>2. toSrv' = [toSrv EXCEPT !["ownmsg"] = s \o Front(pending, k)] /\ pending' = After(pending, k)
      BY <2>1
    <3> HIDE DEF s
    <3>3. k \in Nat /\ k <= CapSrv - Len(s) /\ k <= Len(pending)
      BY <3>1, LeastIs
    <3> HIDE DEF k
    <3>4. After(pending, k) \in Seq(Bytes) /\ Front(pending, k) \in Seq(Bytes) /\ Len(Front(pending, k)) = k
      <4>1. After(pending, k) \in Seq(Bytes) /\ Front(pending, k) \in Seq(Bytes)
        BY <3>1, <3>3, AfterIs, FrontIs
      <4>2. Len(Front(pending, k)) = Least(k, Len(pending))
        BY <3>1, <3>3, FrontIs
      <4>3. Least(k, Len(pending)) = k
        BY <3>1, <3>3 DEF Least
      <4> QED
        BY <4>1, <4>2, <4>3
    <3>5. s \o Front(pending, k) \in Seq(Bytes) /\ Len(s \o Front(pending, k)) <= CapSrv
      BY <3>1, <3>3, <3>4, ConcatProperties
    <3>6. toSrv' \in [Conn -> Seq(Bytes)] /\ \A c \in Conn : Len(toSrv'[c]) <= CapSrv
      BY <3>2, <3>5, TypeFacts
    <3>7. pending' \in Seq(Bytes)
      BY <3>2, <3>4
    <3> HIDE DEF s
    <3>8. main' \in {"loop", "forward"} /\ (main' = "loop" <=> pending' = <<>>)
      BY <1>7, ForwardIs DEF AfterWrite
    <3> QED
      BY <1>7, <3>6, <3>7, <3>8, ForwardIs DEF TypeOK
  <2>2. CASE ~up["ownmsg"] /\ pending' = <<>> /\ toSrv' = toSrv
    <3>1. main' = "loop" /\ <<>> \in Seq(Bytes)
      BY <1>7, <2>2, ForwardIs, EmptySeq DEF AfterWrite
    <3> QED
      BY <1>7, <2>2, <3>1, ForwardIs DEF TypeOK
  <2> QED
    BY <1>7, <2>1, <2>2, ForwardIs
<1>8. CASE ReadCtl
  <2> DEFINE s == After(toCli["ownctl"], ReadSize)
  <2>1. s \in Seq(Bytes) /\ Len(s) <= CapCli
    <3> DEFINE t == toCli["ownctl"]
    <3>1. t \in Seq(Bytes) /\ Len(t) \in Nat /\ Len(t) <= CapCli /\ ReadSize \in Nat /\ CapCli \in Nat
      BY ConnFacts, TypeFacts
    <3> HIDE DEF t
    <3>2. /\ After(t, ReadSize) \in Seq(Bytes)
          /\ Len(After(t, ReadSize)) = IF ReadSize < Len(t) THEN Len(t) - ReadSize ELSE 0
      BY <3>1, AfterIs
    <3>3. Len(After(t, ReadSize)) <= Len(t)
      BY <3>1, <3>2
    <3> QED
      BY <3>1, <3>2, <3>3, LenProperties DEF t
  <2>2. toCli' = [toCli EXCEPT !["ownctl"] = s]
    BY <1>8 DEF ReadCtl
  <2> HIDE DEF s
  <2>3. toCli' \in [Conn -> Seq(Bytes)] /\ \A c \in Conn : Len(toCli'[c]) <= CapCli
    BY <2>1, <2>2, TypeFacts
  <2>4. UNCHANGED <<main, how, sig_exit, pending, said, conn, up, toSrv, heard, tables, turn, srv, listening,
                    epollOpen, left>>
    BY <1>8 DEF ReadCtl
  <2> QED
    BY <2>3, <2>4 DEF TypeOK
<1>9. CASE EndLoop
  <2>1. main' \in {"stop", "cleanup"} /\ how' \in {how, "LE_SIGNAL", "LE_CMD", "FATAL"}
        /\ UNCHANGED <<sig_exit, pending, said, conns, tables, turn, srv, listening, epollOpen, left>>
    BY <1>9 DEF EndLoop
  <2> QED
    BY <2>1 DEF TypeOK
<1>10. CASE stopSrv
  <2>1. conn' \in [Conn -> {"none", "waiting", "accepted"}] /\ up' \in [Conn -> BOOLEAN]
    BY <1>10 DEF stopSrv, TypeOK
  <2>2. main' = "close" /\ listening' = FALSE
        /\ UNCHANGED <<how, sig_exit, pending, said, toSrv, toCli, heard, tables, turn, srv, epollOpen, left>>
    BY <1>10 DEF stopSrv
  <2> QED
    BY <2>1, <2>2 DEF TypeOK
<1>11. CASE CloseOwn
  BY <1>2, <1>11 DEF CloseOwn
<1>12. CASE DestroyEpoll \/ Finish \/ UseDestroyed
  <2>1. main' \in {"cleanup", "done", "aborted"} /\ epollOpen' \in {epollOpen, FALSE}
        /\ UNCHANGED <<how, sig_exit, pending, said, conns, tables, turn, srv, listening, left>>
    BY <1>12 DEF DestroyEpoll, Finish, UseDestroyed
  <2> QED
    BY <2>1 DEF TypeOK
<1>13. CASE EpollWait
  <2>1. active' \subseteq Fd
    <3>1. \A c \in Conn : Listener(Port(c)) \in Fd
      BY ConnFacts DEF Listener
    <3>2. \A c \in Conn : conn[c] = "accepted" => fd[c] \in Fd
      BY DEF DescriptorsInv, Accepted
    <3> QED
      BY <1>13, <3>1, <3>2 DEF EpollWait, ReadyFds
  <2>2. srv' \in {"events", "wait"}
        /\ UNCHANGED <<main, how, sig_exit, pending, said, conns, tables, buffer, rest, targets, listening,
                       epollOpen, left>>
    BY <1>13 DEF EpollWait, Idle
  <2> QED
    BY <2>1, <2>2 DEF TypeOK
<1>14. CASE NextEvent
  <2>1. UNCHANGED <<main, how, sig_exit, pending, said, listening, epollOpen, left>> /\ active' \subseteq Fd
    BY <1>14, EventIs DEF TypeOK
  <2>2. ASSUME NEW c \in Conn, acceptClient(c) PROVE TypeOK'
    <3>1. PICK f \in Fd \ {1, 2} :
             /\ conn' = [conn EXCEPT ![c] = "accepted"]
             /\ fd' = [fd EXCEPT ![c] = f]
             /\ client_fds' = [client_fds EXCEPT ![Port(c)] = Append(@, f)]
             /\ cbs' = [cbs EXCEPT ![f] = Port(c)]
             /\ srv' = "events"
             /\ UNCHANGED <<up, toSrv, toCli, heard, buffer, rest, targets>>
      BY <2>2, AcceptIs
    <3>2. Port(c) \in Ports /\ Append(client_fds[Port(c)], f) \in Seq(Fd)
      BY ConnFacts, TypeFacts, AppendProperties
    <3>3. /\ conn' \in [Conn -> {"none", "waiting", "accepted"}] /\ fd' \in [Conn -> Fd \cup {0}]
          /\ client_fds' \in [{"msg", "ctl"} -> Seq(Fd)]
          /\ cbs' \in [Fd -> {"none", "accept", "msg", "ctl"}]
      BY <3>1, <3>2 DEF TypeOK, Ports
    <3> QED
      BY <2>1, <3>1, <3>3 DEF TypeOK
  <2>3. ASSUME NEW c \in Conn, fd[c] \in Fd, EpollCallback(c) PROVE TypeOK'
    <3> DEFINE p == Port(c)
    <3>1. p \in Ports /\ client_fds[p] \in Seq(Fd) /\ ReadSize \in Nat
      BY ConnFacts, TypeFacts
    <3>2. Without(client_fds[p], fd[c]) \in Seq(Fd)
      BY <3>1, WithoutIs
    <3>3. /\ conn' \in [Conn -> {"none", "waiting", "accepted"}] /\ fd' \in [Conn -> Fd \cup {0}]
          /\ cbs' \in [Fd -> {"none", "accept", "msg", "ctl"}]
      <4>1. CASE UNCHANGED <<conn, fd, cbs>>
        BY <4>1 DEF TypeOK
      <4>2. CASE /\ conn' = [conn EXCEPT ![c] = "none"] /\ fd' = [fd EXCEPT ![c] = 0]
                 /\ cbs' = [cbs EXCEPT ![fd[c]] = "none"]
        BY <4>2 DEF TypeOK
      <4> QED
        BY <2>3, <4>1, <4>2, CallbackIs
    <3>4. client_fds' \in [{"msg", "ctl"} -> Seq(Fd)]
      <4>1. \/ client_fds' = client_fds
            \/ client_fds' = [client_fds EXCEPT ![p] = Without(client_fds[p], fd[c])]
        BY <2>3, CallbackIs
      <4> QED
        BY <3>1, <3>2, <4>1 DEF TypeOK, Ports
    <3>5. targets' \in Seq(Fd)
      <4>1. targets' = Without(client_fds'[p], fd[c]) /\ client_fds'[p] \in Seq(Fd)
        BY <2>3, <3>1, <3>4, CallbackIs DEF Ports
      <4> QED
        BY <4>1, WithoutIs
    <3>6. /\ toSrv' \in [Conn -> Seq(Bytes)] /\ buffer' \in Seq(Bytes)
          /\ \A d \in Conn : Len(toSrv'[d]) <= CapSrv
      <4> DEFINE t == toSrv[c]
      <4>1. t \in Seq(Bytes) /\ Len(t) <= CapSrv /\ Len(t) \in Nat /\ CapSrv \in Nat
        BY ConnFacts, TypeFacts
      <4>2. CASE toSrv' = [toSrv EXCEPT ![c] = After(t, ReadSize)] /\ buffer' = Text(Front(t, ReadSize))
        <5> HIDE DEF t
        <5>1. /\ After(t, ReadSize) \in Seq(Bytes) /\ Front(t, ReadSize) \in Seq(Bytes)
              /\ Len(After(t, ReadSize)) = IF ReadSize < Len(t) THEN Len(t) - ReadSize ELSE 0
          BY <3>1, <4>1, AfterIs, FrontIs
        <5>2. Len(After(t, ReadSize)) <= CapSrv
          BY <3>1, <4>1, <5>1
        <5>3. Text(Front(t, ReadSize)) \in Seq(Bytes)
          BY <5>1, TextIs
        <5> QED
          BY <4>2, <5>1, <5>2, <5>3, TypeFacts
      <4>3. CASE toSrv' = toSrv /\ (buffer' = <<>> \/ buffer' = <<<<p, 0>>>>)
        <5>1. <<>> \in Seq(Bytes) /\ <<<<p, 0>>>> \in Seq(Bytes)
          BY <3>1, BytesFacts, EmptySeq
        <5> QED
          BY <4>3, <5>1, TypeFacts
      <4> QED
        BY <2>3, <4>2, <4>3, CallbackIs
    <3>7. toCli' \in [Conn -> Seq(Bytes)] /\ \A d \in Conn : Len(toCli'[d]) <= CapCli
      <4>1. toCli' = toCli \/ toCli' = [toCli EXCEPT ![c] = <<>>]
        BY <2>3, CallbackIs
      <4>2. <<>> \in Seq(Bytes) /\ Len(<<>>) <= CapCli
        BY ConnFacts, EmptySeq
      <4> QED
        BY <4>1, <4>2, TypeFacts
    <3>8. rest' = buffer' /\ srv' = "send" /\ UNCHANGED <<up, heard>>
      BY <2>3, CallbackIs
    <3> QED
      BY <2>1, <3>3, <3>4, <3>5, <3>6, <3>7, <3>8 DEF TypeOK
  <2>4. CASE /\ srv' \in {"events", "wait"}
             /\ UNCHANGED <<conn, up, toSrv, toCli, heard, fd, client_fds, cbs, buffer, rest, targets>>
    BY <2>1, <2>4 DEF TypeOK
  <2> QED
    BY <1>14, <2>2, <2>3, <2>4, EventIs
<1>15. CASE Send
  <2>1. UNCHANGED <<main, how, sig_exit, pending, said, conn, up, toSrv, heard, fd, client_fds,
                    cbs, active, buffer, listening, epollOpen, left>>
    BY <1>15, SendIs
  <2>2. srv' \in {"send", "events"}
    BY <1>15, SendIs
  <2>3. targets' \in Seq(Fd) /\ rest' \in Seq(Bytes)
    <3>1. CASE targets' = targets /\ (rest' = rest \/ \E k \in 1 .. Len(rest) : rest' = After(rest, k))
      <4>1. rest \in Seq(Bytes) /\ targets \in Seq(Fd)
        BY TypeFacts
      <4>2. \A k \in 1 .. Len(rest) : After(rest, k) \in Seq(Bytes)
        BY <4>1, AfterIs
      <4> QED
        BY <3>1, <4>1, <4>2
    <3> QED
      BY <1>3, <1>15, <3>1, SendIs
  <2>4. toCli' \in [Conn -> Seq(Bytes)] /\ \A c \in Conn : Len(toCli'[c]) <= CapCli
    <3>1. CASE toCli' = toCli
      BY <3>1, TypeFacts
    <3>2. ASSUME NEW c \in Conn, NEW k \in 1 .. Len(rest), Len(toCli[c]) + k <= CapCli,
                 toCli' = [toCli EXCEPT ![c] = toCli[c] \o Front(rest, k)]
          PROVE  toCli' \in [Conn -> Seq(Bytes)] /\ \A d \in Conn : Len(toCli'[d]) <= CapCli
      <4> DEFINE t == toCli[c]
      <4>1. t \in Seq(Bytes) /\ rest \in Seq(Bytes) /\ k \in Nat /\ Len(rest) \in Nat /\ k <= Len(rest)
        BY <3>2, TypeFacts
      <4> HIDE DEF t
      <4>2. Front(rest, k) \in Seq(Bytes) /\ Len(Front(rest, k)) = Least(k, Len(rest))
        BY <4>1, FrontIs
      <4>3. Least(k, Len(rest)) = k
        BY <4>1 DEF Least
      <4>4. t \o Front(rest, k) \in Seq(Bytes) /\ Len(t \o Front(rest, k)) = Len(t) + k
        <5>1. Len(Front(rest, k)) = k
          BY <4>2, <4>3
        <5> QED
          <6>1. Front(rest, k) \in Seq(Bytes) /\ t \in Seq(Bytes)
            BY <4>1, <4>2
          <6> HIDE DEF Front
          <6>2. t \o Front(rest, k) \in Seq(Bytes) /\ Len(t \o Front(rest, k)) = Len(t) + Len(Front(rest, k))
            BY <6>1, ConcatIs
          <6> QED
            BY <5>1, <6>2
      <4> QED
        BY <3>2, <4>4, TypeFacts DEF t
    <3> QED
      BY <1>15, <3>1, <3>2, SendIs
  <2> QED
    BY <2>1, <2>2, <2>3, <2>4 DEF TypeOK
<1>16. CASE deadly_handler
  <2>1. (main' = main \/ main' = "aborted") /\ sig_exit' = TRUE
        /\ UNCHANGED <<how, pending, said, conns, tables, active, buffer, srv, listening, epollOpen, left>>
    BY <1>16 DEF deadly_handler
  <2>2. targets' \in Seq(Fd) /\ rest' \in Seq(Bytes)
    BY <1>3, <1>16, TypeFacts DEF deadly_handler
  <2> QED
    BY <2>1, <2>2 DEF TypeOK
<1>17. ASSUME NEW c \in Client, Connect(c) PROVE TypeOK'
  <2>1. left' \in [sends : 0 .. MaxSends, connects : 0 .. MaxConnects]
    <3>1. left' = [left EXCEPT !.connects = @ - 1] /\ left.connects > 0
      BY <1>17 DEF Connect
    <3>2. left \in [sends : 0 .. MaxSends, connects : 0 .. MaxConnects] /\ MaxSends \in Nat /\ MaxConnects \in Nat
      BY ConnFacts DEF TypeOK
    <3>3. left.connects - 1 \in 0 .. MaxConnects
      BY <3>1, <3>2
    <3> QED
      BY <3>1, <3>2, <3>3
  <2>2. c \in Conn /\ Reach(c) /\ UNCHANGED <<mainvars, tables, turn, srv, listening, epollOpen>>
    BY <1>17, ConnFacts DEF Connect
  <2> QED
    BY <1>1, <2>1, <2>2 DEF TypeOK
<1>18. ASSUME NEW c \in Client, Say(c) PROVE TypeOK'
  <2>1. left' \in [sends : 0 .. MaxSends, connects : 0 .. MaxConnects]
    <3>1. left' = [left EXCEPT !.sends = @ - 1] /\ left.sends > 0
      BY <1>18 DEF Say
    <3>2. left \in [sends : 0 .. MaxSends, connects : 0 .. MaxConnects] /\ MaxSends \in Nat /\ MaxConnects \in Nat
      BY ConnFacts DEF TypeOK
    <3>3. left.sends - 1 \in 0 .. MaxSends
      BY <3>1, <3>2
    <3> QED
      BY <3>1, <3>2, <3>3
  <2>2. toSrv[c] \in Seq(Bytes) /\ <<c, 0>> \in Bytes /\ c \in Conn /\ Len(toSrv[c]) \in Nat
        /\ CapSrv \in Nat
    BY ConnFacts, TypeFacts, BytesFacts
  <2>3. Append(toSrv[c], <<c, 0>>) \in Seq(Bytes) /\ Len(Append(toSrv[c], <<c, 0>>)) = Len(toSrv[c]) + 1
    BY <2>2, AppendProperties
  <2>4. Len(toSrv[c]) + 1 <= CapSrv /\ toSrv' = [toSrv EXCEPT ![c] = Append(toSrv[c], <<c, 0>>)]
    BY <1>18, <2>2 DEF Say
  <2>5. toSrv' \in [Conn -> Seq(Bytes)] /\ \A d \in Conn : Len(toSrv'[d]) <= CapSrv
    BY <2>3, <2>4, TypeFacts
  <2>6. UNCHANGED <<mainvars, conn, up, toCli, heard, tables, turn, srv, listening, epollOpen>>
    BY <1>18 DEF Say
  <2> QED
    BY <2>1, <2>5, <2>6 DEF TypeOK
<1>19. ASSUME NEW c \in Client, Hear(c) PROVE TypeOK'
  <2>1. PICK n \in 0 .. Len(toCli[c]) : heard' = [heard EXCEPT ![c] = NrIn(toCli[c], heard[c], n)]
    BY <1>19, HearIs
  <2>2. NrIn(toCli[c], heard[c], n) \in 0 .. MaxSaid
    <3>1. toCli[c] \in Seq(Bytes) /\ heard[c] \in 0 .. MaxSaid /\ MaxSaid \in Nat
      BY ConnFacts, TypeFacts DEF TypeOK
    <3>2. n # 0 => toCli[c][n] \in Bytes
      BY <3>1, ElementOfSeq
    <3> QED
      BY <3>1, <3>2, BytesFacts DEF NrIn
  <2>3. heard' \in [Conn -> 0 .. MaxSaid]
    BY <2>1, <2>2 DEF TypeOK
  <2>4. toCli' \in [Conn -> Seq(Bytes)] /\ \A d \in Conn : Len(toCli'[d]) <= CapCli
    <3>1. <<>> \in Seq(Bytes) /\ Len(<<>>) <= CapCli /\ toCli' = [toCli EXCEPT ![c] = <<>>]
      BY <1>19, ConnFacts, EmptySeq, HearIs
    <3> QED
      BY <3>1, TypeFacts
  <2>5. UNCHANGED <<main, how, sig_exit, pending, said, conn, up, toSrv, fd, client_fds, cbs,
                    active, buffer, rest, targets, srv, listening, epollOpen, left>>
    BY <1>19, HearIs
  <2> QED
    BY <2>3, <2>4, <2>5 DEF TypeOK
<1>20. ASSUME NEW c \in Client, Disconnect(c) PROVE TypeOK'
  BY <1>2, <1>20 DEF Disconnect
<1>21. CASE UNCHANGED vars
  BY <1>21 DEF TypeOK, vars
<1> QED
  BY <1>4, <1>5, <1>6, <1>7, <1>8, <1>9, <1>10, <1>11, <1>12, <1>13, <1>14, <1>15, <1>16, <1>17, <1>18,
     <1>19, <1>20, <1>21, NextIs

LEMMA PortStep ==
  ASSUME TypeOK, DescriptorsInv, OwnInv, TargetsInv, PortInv, [Next]_vars
  PROVE  PortInv'
<1> DEFINE s == toSrv["ownmsg"]
<1>a. /\ s \in Seq(Bytes) /\ Len(s) \in Nat /\ DOMAIN s = 1 .. Len(s) /\ ReadSize \in Nat /\ said \in Nat
      /\ pending \in Seq(Bytes) /\ Len(pending) \in Nat /\ DOMAIN pending = 1 .. Len(pending)
  BY ConnFacts, TypeFacts, LenProperties DEF TypeOK
<1> DEFINE ls == Len(s)
           lp == Len(pending)
<1>b. ls \in Nat /\ lp \in Nat /\ said \in Nat /\ ReadSize \in Nat /\ ls = Len(s) /\ lp = Len(pending)
  BY <1>a
<1> HIDE DEF ls, lp
<1>1. ASSUME toSrv'["ownmsg"] = s, UNCHANGED <<pending, said>> PROVE PortInv'
  BY <1>1 DEF PortInv, Unread, NextNr
<1>2. ASSUME toSrv'["ownmsg"] = <<>>, UNCHANGED <<pending, said>> PROVE PortInv'
  <2>1. Len(<<>>) = 0 /\ DOMAIN <<>> = {}
    BY EmptySeq
  <2> QED
    BY <1>a, <1>2, <2>1 DEF PortInv, Unread, NextNr
<1>3. CASE PortSays
  <2>1. PICK k \in 1 .. MaxSaid - said : /\ pending' = [i \in 1 .. k |-> FromPort(said + i)]
                                         /\ said' = said + k
    BY <1>3 DEF PortSays
  <2>2. k \in Nat /\ Len(pending') = k /\ DOMAIN pending' = 1 .. k
    BY <1>a, <2>1, ConnFacts
  <2>3. pending = <<>> /\ Len(<<>>) = 0
    BY <1>3, EmptySeq DEF PortSays, TypeOK
  <2>4. toSrv' = toSrv
    BY <1>3 DEF PortSays, conns
  <2>5. Unread' = Len(s) + k /\ Unread = Len(s) /\ NextNr' = NextNr
    BY <1>a, <2>1, <2>2, <2>3, <2>4 DEF Unread, NextNr
  <2>6. Unread' <= said'
    BY <1>a, <2>1, <2>2, <2>5 DEF PortInv
  <2>7. \A i \in DOMAIN pending' : pending'[i] = FromPort(said' - Len(pending') + i)
    BY <1>a, <2>1, <2>2
  <2>8. \A i \in DOMAIN s : s[i] = FromPort(NextNr' + i - 1)
    BY <2>5 DEF PortInv
  <2> QED
    BY <2>4, <2>6, <2>7, <2>8 DEF PortInv
<1>3a. CASE Forward /\ ~up["ownmsg"]
  <2>1. pending' = <<>> /\ said' = said /\ toSrv' = toSrv /\ main = "forward"
    BY <1>3a, ForwardIs
  <2>2. s = <<>>
    BY <1>3a, <2>1 DEF OwnInv
  <2>3. Len(<<>>) = 0 /\ DOMAIN <<>> = {}
    BY EmptySeq
  <2> QED
    BY <1>a, <2>1, <2>2, <2>3 DEF PortInv, Unread, NextNr
<1>4. CASE Forward /\ up["ownmsg"]
  <2> DEFINE k == Least(CapSrv - Len(s), Len(pending))
             u == Front(pending, k)
             v == After(pending, k)
  <2>1. Len(s) < CapSrv /\ CapSrv \in Nat /\ said' = said
    BY <1>4, ForwardIs, ConnFacts
  <2>2. toSrv'["ownmsg"] = s \o u /\ pending' = v
    BY <1>4, ForwardIs, ConnFacts DEF TypeOK
  <2> HIDE DEF s
  <2>3. k \in Nat /\ k <= CapSrv - Len(s) /\ k <= Len(pending)
    BY <1>a, <2>1, LeastIs
  <2> HIDE DEF k
  <2>4. Least(k, Len(pending)) = k
    <3>1. k \in Nat /\ k <= lp
      BY <1>b, <2>3
    <3> QED
      BY <1>b, <3>1 DEF Least
  <2>5. u \in Seq(Bytes) /\ Len(u) = k /\ \A i \in 1 .. k : u[i] = pending[i]
    BY <1>a, <2>3, <2>4, FrontIs
  <2>6. v \in Seq(Bytes) /\ Len(v) = (IF k < Len(pending) THEN Len(pending) - k ELSE 0)
        /\ \A i \in 1 .. Len(pending) - k : v[i] = pending[k + i]
    BY <1>a, <2>3, AfterIs
  <2> HIDE DEF u, v
  <2>7. Len(v) = Len(pending) - k /\ DOMAIN v = 1 .. Len(pending) - k
    <3>1. k \in Nat /\ k <= lp /\ Len(v) = IF k < lp THEN lp - k ELSE 0
      BY <1>b, <2>3, <2>6
    <3>2. Len(v) = lp - k
      BY <1>b, <3>1
    <3> QED
      BY <1>b, <2>6, <3>2, LenProperties
  <2>8. /\ s \o u \in Seq(Bytes) /\ Len(s \o u) = Len(s) + k
        /\ \A i \in 1 .. Len(s) + k : (s \o u)[i] = IF i <= Len(s) THEN s[i] ELSE u[i - Len(s)]
    BY <1>a, <2>5, ConcatProperties
  <2>9. DOMAIN (s \o u) = 1 .. Len(s) + k
    BY <2>8, LenProperties
  <2>10. Unread' = Unread /\ NextNr' = NextNr /\ NextNr = said + 1 - Len(s) - Len(pending)
    BY <1>a, <2>1, <2>2, <2>3, <2>7, <2>8 DEF Unread, NextNr, s
  <2>11. \A i \in DOMAIN v : v[i] = FromPort(said - Len(v) + i)
    <3> TAKE i \in DOMAIN v
    <3>1. k + i \in DOMAIN pending /\ said - Len(pending) + (k + i) = said - Len(v) + i
      BY <1>a, <2>3, <2>7
    <3> QED
      BY <2>6, <2>7, <3>1 DEF PortInv
  <2>12. \A i \in DOMAIN (s \o u) : (s \o u)[i] = FromPort(NextNr + i - 1)
    <3> TAKE i \in DOMAIN (s \o u)
    <3>1. CASE i <= Len(s)
      <4>1. i \in DOMAIN s /\ (s \o u)[i] = s[i]
        BY <1>a, <2>8, <2>9, <3>1
      <4> QED
        BY <4>1 DEF PortInv, s
    <3>2. CASE i > Len(s)
      <4>1. i - Len(s) \in 1 .. k /\ i - Len(s) \in DOMAIN pending /\ (s \o u)[i] = u[i - Len(s)]
        BY <1>a, <2>3, <2>8, <2>9, <3>2
      <4>2. u[i - Len(s)] = FromPort(said - Len(pending) + (i - Len(s)))
        BY <2>5, <4>1 DEF PortInv
      <4>3. said - Len(pending) + (i - Len(s)) = NextNr + i - 1
        BY <1>a, <2>9, <2>3, <2>10
      <4> QED
        BY <4>1, <4>2, <4>3
    <3> QED
      BY <1>a, <2>3, <2>9, <3>1, <3>2
  <2> QED
    BY <2>1, <2>2, <2>10, <2>11, <2>12 DEF PortInv
<1>5. CASE NextEvent
  <2>1. UNCHANGED <<pending, said>>
    BY <1>5, EventIs
  <2>2. ASSUME NEW c \in Conn, fd[c] \in Fd, EpollCallback(c) PROVE PortInv'
    <3>1. CASE c = "ownmsg" /\ toSrv' = [toSrv EXCEPT ![c] = After(toSrv[c], ReadSize)]
      <4> DEFINE v == After(s, ReadSize)
      <4>1. toSrv'["ownmsg"] = v
        BY <3>1, ConnFacts, TypeFacts, SMTT(30)
      <4> HIDE DEF s
      <4>2. v \in Seq(Bytes) /\ Len(v) = (IF ReadSize < Len(s) THEN Len(s) - ReadSize ELSE 0)
            /\ \A i \in 1 .. Len(s) - ReadSize : v[i] = s[ReadSize + i]
        BY <1>a, AfterIs
      <4> HIDE DEF v
      <4>3. DOMAIN v = 1 .. Len(v)
        BY <4>2, LenProperties
      <4>4. Len(v) \in Nat /\ Len(v) <= Len(s)
        <5>1. Len(v) = IF ReadSize < ls THEN ls - ReadSize ELSE 0
          BY <1>b, <4>2
        <5>2. Len(v) \in Nat /\ Len(v) <= ls
          BY <1>b, <5>1
        <5> QED
          BY <1>b, <5>2
      <4>5. Unread' = Len(v) + Len(pending) /\ NextNr' = said + 1 - (Len(v) + Len(pending))
            /\ Unread = Len(s) + Len(pending) /\ NextNr = said + 1 - (Len(s) + Len(pending))
        BY <2>1, <4>1 DEF Unread, NextNr, s
      <4>6. \A i \in DOMAIN v : v[i] = FromPort(NextNr' + i - 1)
        <5> TAKE i \in DOMAIN v
        <5>1. ReadSize + i \in DOMAIN s /\ i \in 1 .. Len(s) - ReadSize
              /\ NextNr + (ReadSize + i) - 1 = NextNr' + i - 1
          <6>1. Len(v) = (IF ReadSize < ls THEN ls - ReadSize ELSE 0) /\ i \in 1 .. Len(v)
            BY <1>b, <4>2, <4>3
          <6>2. i \in 1 .. ls - ReadSize /\ Len(v) = ls - ReadSize
            BY <1>b, <6>1
          <6>3. NextNr' = said + 1 - (Len(v) + lp) /\ NextNr = said + 1 - (ls + lp)
            BY <1>b, <4>5
          <6>4. NextNr + (ReadSize + i) - 1 = NextNr' + i - 1
            BY <1>b, <6>2, <6>3
          <6>5. ReadSize + i \in 1 .. ls
            BY <1>b, <6>2
          <6> QED
            BY <1>a, <1>b, <6>2, <6>4, <6>5
        <5>2. s[ReadSize + i] = FromPort(NextNr + (ReadSize + i) - 1)
          BY <5>1 DEF PortInv, s
        <5> QED
          BY <4>2, <5>1, <5>2
      <4>7. Unread' <= said'
        BY <1>a, <2>1, <4>4, <4>5 DEF PortInv
      <4> QED
        BY <2>1, <4>1, <4>6, <4>7 DEF PortInv
    <3>2. CASE c # "ownmsg" /\ toSrv' = [toSrv EXCEPT ![c] = After(toSrv[c], ReadSize)]
      BY <1>1, <2>1, <3>2
    <3>3. CASE toSrv' = toSrv
      BY <1>1, <2>1, <3>3
    <3> QED
      BY <2>2, <3>1, <3>2, <3>3, CallbackIs
  <2>3. ASSUME NEW c \in Conn, acceptClient(c) PROVE PortInv'
    BY <1>1, <2>1, <2>3 DEF acceptClient
  <2> QED
    BY <1>1, <1>5, <2>1, <2>2, <2>3, EventIs
<1>6. CASE setup_socket
  <2>1. UNCHANGED <<pending, said>> /\ (Reach(main) \/ UNCHANGED conns)
    BY <1>6, SetupIs
  <2>2. toSrv'["ownmsg"] \in {s, <<>>}
    BY <2>1, ConnFacts DEF Reach, TypeOK, conns
  <2> QED
    BY <1>1, <1>2, <2>1, <2>2
<1>7. CASE CloseOwn
  <2>1. UNCHANGED <<pending, said>> /\ HangUp(Own)
    BY <1>7 DEF CloseOwn
  <2>2. toSrv'["ownmsg"] \in {s, <<>>}
    BY <2>1, ConnFacts, HangUpIs
  <2> QED
    BY <1>1, <1>2, <2>1, <2>2
<1>8. ASSUME NEW c \in Client, Connect(c) \/ Say(c) \/ Hear(c) \/ Disconnect(c) PROVE PortInv'
  <2>1. UNCHANGED <<pending, said>>
    BY <1>8 DEF Connect, Say, Hear, Disconnect, mainvars
  <2>2. c # "ownmsg" /\ "ownmsg" \in Conn
    BY ConnFacts
  <2>3. toSrv'["ownmsg"] = s
    <3>1. CASE Connect(c)
      BY <2>2, <3>1 DEF Connect, Reach, TypeOK
    <3>2. CASE Say(c) \/ Hear(c)
      BY <2>2, <3>2 DEF Say, Hear, TypeOK
    <3>3. CASE Disconnect(c)
      BY <2>2, <3>3, HangUpIs DEF Disconnect
    <3> QED
      BY <1>8, <3>1, <3>2, <3>3
  <2> QED
    BY <1>1, <2>1, <2>3
<1>9. CASE startSrv \/ ReadCtl \/ EndLoop \/ stopSrv \/ DestroyEpoll \/ Finish
  <2>1. UNCHANGED <<toSrv, pending, said>>
    BY <1>9 DEF startSrv, ReadCtl, EndLoop, stopSrv, DestroyEpoll, Finish, conns, mainvars
  <2> QED
    BY <1>1, <2>1
<1>10. CASE UseDestroyed \/ EpollWait \/ Send \/ deadly_handler \/ UNCHANGED vars
  <2>1. UNCHANGED <<toSrv, pending, said>>
    BY <1>10 DEF UseDestroyed, EpollWait, Send, deadly_handler, vars, conns, mainvars
  <2> QED
    BY <1>1, <2>1
<1> QED
  BY <1>3, <1>3a, <1>4, <1>5, <1>6, <1>7, <1>8, <1>9, <1>10, NextIs

LEMMA SpokenStep ==
  ASSUME TypeOK, DescriptorsInv, SpokenInv, [Next]_vars
  PROVE  SpokenInv'
<1> DEFINE Fine(c, s) == IF c = "ownctl" THEN s = <<>>
                         ELSE c \in Client => \A i \in DOMAIN s : s[i][1] = c
<1>1. \A c \in Conn : Fine(c, toSrv[c]) /\ Fine(c, <<>>)
  BY EmptySeq DEF SpokenInv
<1>2. SUFFICES \A c \in Conn : Fine(c, toSrv'[c])
  <2>1. \A c \in Client : c # "ownctl" /\ c \in Conn
    BY ConnFacts
  <2>2. "ownctl" \in Conn
    BY ConnFacts
  <2> QED
    BY <1>2, <2>1, <2>2 DEF SpokenInv
<1>3. ASSUME \A c \in Conn : toSrv'[c] = toSrv[c] \/ toSrv'[c] = <<>> PROVE \A c \in Conn : Fine(c, toSrv'[c])
  <2> HIDE DEF Fine
  <2> QED
    BY <1>1, <1>3
<1>4. ASSUME NEW d \in Conn, Fine(d, toSrv'[d]), \A c \in Conn : c # d => toSrv'[c] = toSrv[c]
      PROVE  \A c \in Conn : Fine(c, toSrv'[c])
  <2> HIDE DEF Fine
  <2> QED
    BY <1>1, <1>4
<1>5. CASE Forward
  <2>1. \A c \in Conn : c # "ownmsg" => toSrv'[c] = toSrv[c]
    BY <1>5, ForwardIs DEF TypeOK
  <2>2. Fine("ownmsg", toSrv'["ownmsg"])
    BY ConnFacts
  <2> QED
    BY <1>4, <2>1, <2>2, ConnFacts
<1>6. CASE setup_socket
  <2>1. toSrv' = [toSrv EXCEPT ![main] = <<>>] \/ toSrv' = toSrv
    BY <1>6 DEF setup_socket, Reach, conns
  <2> QED
    BY <1>3, <2>1, TypeFacts
<1>7. CASE CloseOwn
  <2>1. \A c \in Conn : toSrv'[c] = toSrv[c] \/ toSrv'[c] = <<>>
    BY <1>7, HangUpIs DEF CloseOwn
  <2> QED
    BY <1>3, <2>1
<1>8. CASE NextEvent
  <2>1. ASSUME NEW c \in Conn, fd[c] \in Fd, EpollCallback(c) PROVE \A d \in Conn : Fine(d, toSrv'[d])
    <3>1. CASE toSrv' = toSrv
      BY <1>3, <3>1
    <3>2. CASE toSrv[c] # <<>> /\ toSrv' = [toSrv EXCEPT ![c] = After(toSrv[c], ReadSize)]
      <4> DEFINE s == toSrv[c]
                 v == After(s, ReadSize)
      <4>1. s \in Seq(Bytes) /\ ReadSize \in Nat /\ Len(s) \in Nat /\ DOMAIN s = 1 .. Len(s) /\ c # "ownctl"
        BY <3>2, ConnFacts, TypeFacts, LenProperties DEF SpokenInv
      <4>2. toSrv'[c] = v /\ \A d \in Conn : d # c => toSrv'[d] = toSrv[d]
        BY <3>2 DEF TypeOK
      <4>3. Fine(c, v)
        <5>1. SUFFICES ASSUME c \in Client, NEW i \in DOMAIN v PROVE v[i][1] = c
          BY <4>1
        <5> HIDE DEF s
        <5>2. v \in Seq(Bytes) /\ Len(v) = (IF ReadSize < Len(s) THEN Len(s) - ReadSize ELSE 0)
              /\ \A j \in 1 .. Len(s) - ReadSize : v[j] = s[ReadSize + j]
          BY <4>1, AfterIs
        <5> HIDE DEF v
        <5>3. i \in 1 .. Len(v)
          BY <5>1, <5>2, LenProperties
        <5>4. i \in 1 .. Len(s) - ReadSize /\ ReadSize + i \in 1 .. Len(s)
          BY <4>1, <5>2, <5>3
        <5>5. v[i] = s[ReadSize + i]
          BY <5>2, <5>4
        <5>6. s[ReadSize + i][1] = c
          BY <4>1, <5>1, <5>4 DEF SpokenInv, s
        <5> QED
          BY <5>5, <5>6
      <4> QED
        BY <1>4, <4>2, <4>3
    <3> QED
      BY <2>1, <3>1, <3>2, CallbackIs
  <2>2. CASE toSrv' = toSrv
    BY <1>3, <2>2
  <2>3. \A c \in Conn : acceptClient(c) => toSrv' = toSrv
    BY DEF acceptClient
  <2> QED
    BY <1>8, <2>1, <2>2, <2>3, EventIs
<1>9. ASSUME NEW c \in Client, Connect(c) \/ Hear(c) \/ Disconnect(c) PROVE \A d \in Conn : Fine(d, toSrv'[d])
  <2>1. \A d \in Conn : toSrv'[d] = toSrv[d] \/ toSrv'[d] = <<>>
    <3>1. CASE Connect(c)
      BY <3>1, TypeFacts DEF Connect, Reach
    <3>2. CASE Hear(c)
      BY <3>2 DEF Hear
    <3>3. CASE Disconnect(c)
      BY <3>3, HangUpIs DEF Disconnect
    <3> QED
      BY <1>9, <3>1, <3>2, <3>3
  <2> QED
    BY <1>3, <2>1
<1>10. ASSUME NEW c \in Client, Say(c) PROVE \A d \in Conn : Fine(d, toSrv'[d])
  <2> DEFINE s == toSrv[c]
             v == Append(s, <<c, 0>>)
  <2>1. s \in Seq(Bytes) /\ <<c, 0>> \in Bytes /\ c \in Conn /\ Len(s) \in Nat /\ DOMAIN s = 1 .. Len(s)
        /\ c # "ownctl"
    BY ConnFacts, TypeFacts, BytesFacts, LenProperties
  <2>2. toSrv'[c] = v /\ \A d \in Conn : d # c => toSrv'[d] = toSrv[d]
    BY <1>10, <2>1 DEF Say, TypeOK
  <2>3. Fine(c, v)
    <3>1. \A i \in DOMAIN s : s[i][1] = c
      BY DEF SpokenInv
    <3> HIDE DEF s
    <3>2. v \in Seq(Bytes) /\ Len(v) = Len(s) + 1 /\ v[Len(s) + 1] = <<c, 0>>
          /\ \A i \in 1 .. Len(s) : v[i] = s[i]
      BY <2>1, AppendProperties
    <3>3. DOMAIN v = 1 .. Len(s) + 1
      BY <3>2, LenProperties
    <3> HIDE DEF v
    <3>4. \A i \in DOMAIN v : v[i][1] = c
      BY <2>1, <3>1, <3>2, <3>3
    <3> QED
      BY <2>1, <3>4
  <2> HIDE DEF Fine, v
  <2> QED
    BY <1>4, <2>1, <2>2, <2>3
<1>11. CASE startSrv \/ ReadCtl \/ EndLoop \/ stopSrv \/ DestroyEpoll \/ Finish \/ PortSays
            \/ UseDestroyed \/ EpollWait \/ Send \/ deadly_handler \/ UNCHANGED vars
  <2>1. toSrv' = toSrv
    BY <1>11 DEF startSrv, ReadCtl, EndLoop, stopSrv, DestroyEpoll, Finish, PortSays, UseDestroyed,
                 EpollWait, Send, deadly_handler, vars, conns
  <2> QED
    BY <1>3, <2>1
<1> QED
  BY <1>5, <1>6, <1>7, <1>8, <1>9, <1>10, <1>11, NextIs

LEMMA CallbackTargets ==
  ASSUME TypeOK, TypeOK', DescriptorsInv, DescriptorsInv', NEW c \in Conn, fd[c] \in Fd, EpollCallback(c)
  PROVE  /\ \A d \in Conn : In(targets', fd'[d]) <=> d # c /\ Accepted(d) /\ Port(d) = Port(c)
         /\ \A d \in Conn \ {c} : fd'[d] = fd[d] /\ (Accepted(d)' <=> Accepted(d)) /\ fd[d] # fd[c]
<1> DEFINE p == Port(c)
           list == client_fds'[p]
<1>1. Accepted(c) /\ targets' = Without(list, fd[c])
  BY CallbackIs
<1>2. p \in Ports /\ list \in Seq(Fd)
  BY ConnFacts DEF TypeOK, Ports
<1>3. \A g : In(targets', g) <=> In(list, g) /\ g # fd[c]
  <2> HIDE DEF list
  <2> QED
    BY <1>1, <1>2, WithoutIs
<1>4. \A d \in Conn \ {c} : fd'[d] = fd[d] /\ (Accepted(d)' <=> Accepted(d))
  <2>1. \/ UNCHANGED <<conn, fd>>
        \/ conn' = [conn EXCEPT ![c] = "none"] /\ fd' = [fd EXCEPT ![c] = 0]
    BY CallbackIs
  <2> QED
    BY <2>1 DEF Accepted, TypeOK
<1>5. \A g \in Fd : In(list, g) <=> \E d \in Conn : Accepted(d)' /\ Port(d) = p /\ fd'[d] = g
  BY <1>2 DEF DescriptorsInv
<1>6. fd'[c] = fd[c] \/ fd'[c] = 0
  <2>1. fd' = fd \/ fd' = [fd EXCEPT ![c] = 0]
    BY CallbackIs
  <2> QED
    BY <2>1 DEF TypeOK
<1>7. ~In(targets', 0) /\ 0 \notin Fd
  <2>1. targets' \in Seq(Fd) /\ 0 \notin Fd
    BY ConnFacts DEF TypeOK
  <2> QED
    BY <2>1, LenProperties, ElementOfSeq DEF In
<1>8. ~In(targets', fd'[c])
  BY <1>3, <1>6, <1>7
<1>9. ASSUME NEW d \in Conn, d # c
      PROVE  In(targets', fd'[d]) <=> Accepted(d) /\ Port(d) = p
  <2>1. CASE Accepted(d)
    <3>1. fd'[d] \in Fd /\ fd'[d] # fd[c] /\ Accepted(d)'
      BY <1>1, <1>4, <1>9, <2>1 DEF DescriptorsInv
    <3>2. In(list, fd'[d]) <=> Port(d) = p
      BY <1>5, <3>1 DEF DescriptorsInv
    <3> QED
      BY <1>3, <2>1, <3>1, <3>2
  <2>2. CASE ~Accepted(d)
    <3>1. fd'[d] = 0
      BY <1>4, <1>9, <2>2 DEF DescriptorsInv
    <3> QED
      BY <1>7, <2>2, <3>1
  <2> QED
    BY <2>1, <2>2
<1>10. \A d \in Conn \ {c} : fd[d] # fd[c]
  BY <1>1 DEF DescriptorsInv
<1> QED
  BY <1>4, <1>8, <1>9, <1>10

(* The buffer is what was read, up to a zero byte.                         *)
LEMMA ReadIs ==
  ASSUME NEW s \in Seq(Bytes)
  PROVE  LET t == Text(Front(s, ReadSize))
             k == Least(ReadSize, Len(s))
         IN  /\ t \in Seq(Bytes) /\ DOMAIN t = 1 .. Len(t) /\ Len(t) \in Nat /\ k \in Nat
             /\ Len(t) <= k /\ k <= Len(s)
             /\ \A i \in 1 .. Len(t) : t[i] = s[i]
             /\ Len(t) < k => IsZero(s[Len(t) + 1])
<1> DEFINE r == Front(s, ReadSize)
           t == Text(r)
           k == Least(ReadSize, Len(s))
<1>1. Len(s) \in Nat /\ ReadSize \in Nat
  BY ConnFacts
<1>2. k \in Nat /\ k <= Len(s)
  BY <1>1 DEF Least
<1>3. r \in Seq(Bytes) /\ Len(r) = k /\ \A i \in 1 .. k : r[i] = s[i]
  BY <1>1, FrontIs
<1> HIDE DEF r, k
<1>4. t \in Seq(Bytes) /\ Len(t) <= Len(r) /\ (\A i \in 1 .. Len(t) : t[i] = r[i])
      /\ (Len(t) < Len(r) => IsZero(r[Len(t) + 1]))
  BY <1>3, TextIs
<1> HIDE DEF t
<1>5. DOMAIN t = 1 .. Len(t) /\ Len(t) \in Nat
  BY <1>4, LenProperties
<1>6. Len(t) <= k /\ \A i \in 1 .. Len(t) : t[i] = s[i]
  BY <1>2, <1>3, <1>4, <1>5
<1>7. Len(t) < k => IsZero(s[Len(t) + 1])
  <2>1. Len(t) < k => Len(t) + 1 \in 1 .. k
    BY <1>2, <1>5
  <2> QED
    BY <1>3, <1>4, <2>1
<1> QED
  BY <1>2, <1>4, <1>5, <1>6, <1>7 DEF r, t, k

LEMMA BufferStep ==
  ASSUME TypeOK, TypeOK', DescriptorsInv, DescriptorsInv', OwnInv, TargetsInv, SpokenInv, BufferInv,
         PortInv, [Next]_vars
  PROVE  BufferInv'
<1>1. ASSUME buffer' = buffer, rest' = rest \/ rest' = buffer \/ \E k \in 1 .. Len(rest) : rest' = After(rest, k),
             \A c \in Conn : In(targets', fd'[c]) => In(targets, fd[c])
      PROVE  BufferInv'
  <2>1. buffer \in Seq(Bytes) /\ Len(buffer) \in Nat /\ rest \in Seq(Bytes) /\ Len(rest) \in Nat
        /\ DOMAIN rest = 1 .. Len(rest)
    BY TypeFacts, LenProperties
  <2>2. \A c \in Conn : In(targets', fd'[c]) => \A i \in DOMAIN buffer' : MayHear(c, buffer'[i][1])
    BY <1>1 DEF BufferInv
  <2>3. CASE rest' = rest
    BY <1>1, <2>2, <2>3 DEF BufferInv
  <2>4. CASE rest' = buffer
    <3>1. \A i \in DOMAIN buffer : Len(buffer) - Len(buffer) + i = i
      BY <2>1, LenProperties
    <3> QED
      BY <1>1, <2>1, <2>2, <2>4, <3>1 DEF BufferInv
  <2>5. ASSUME NEW k \in 1 .. Len(rest), rest' = After(rest, k) PROVE BufferInv'
    <3> DEFINE v == After(rest, k)
    <3>1. k \in 0 .. Len(rest) /\ rest \in Seq(Bytes)
      BY <2>1
    <3>2. Len(v) = Len(rest) - k /\ DOMAIN v = 1 .. Len(rest) - k /\ \A i \in 1 .. Len(rest) - k : v[i] = rest[k + i]
      <4>1. Len(v) = Len(rest) - k
        BY <3>1, SplitIs
      <4>2. DOMAIN v = 1 .. Len(rest) - k
        BY <3>1, SplitIs
      <4>3. \A i \in 1 .. Len(rest) - k : v[i] = rest[k + i]
        BY <3>1, SplitIs
      <4> QED
        BY <4>1, <4>2, <4>3
    <3> HIDE DEF v
    <3>3. Len(v) <= Len(buffer)
      BY <2>1, <3>2 DEF BufferInv
    <3>4. \A i \in DOMAIN v : v[i] = buffer[Len(buffer) - Len(v) + i]
      <4> TAKE i \in DOMAIN v
      <4>1. k + i \in DOMAIN rest /\ i \in 1 .. Len(rest) - k
            /\ Len(buffer) - Len(rest) + (k + i) = Len(buffer) - Len(v) + i
        BY <2>1, <3>2
      <4>2. rest[k + i] = buffer[Len(buffer) - Len(rest) + (k + i)]
        BY <4>1 DEF BufferInv
      <4> QED
        BY <3>2, <4>1, <4>2
    <3> QED
      BY <1>1, <2>2, <2>5, <3>3, <3>4 DEF BufferInv, v
  <2> QED
    BY <1>1, <2>3, <2>4, <2>5
<1>2. ASSUME UNCHANGED <<buffer, rest, targets, fd>> PROVE BufferInv'
  BY <1>1, <1>2
<1>3. ASSUME targets # <<>>, NextTarget, UNCHANGED <<buffer, fd>> PROVE BufferInv'
  <2>1. \A f : In(targets', f) => In(targets, f)
    BY <1>3, TailIs DEF NextTarget, TargetsInv
  <2> QED
    BY <1>1, <1>3, <2>1 DEF NextTarget
<1>4. CASE NextEvent
  <2>1. ASSUME NEW c \in Conn, acceptClient(c) PROVE BufferInv'
    <3>1. targets = <<>> /\ UNCHANGED <<buffer, rest, targets>>
      BY <1>4, <2>1, EventIs DEF TargetsInv, acceptClient
    <3>2. \A f : ~In(targets', f)
      BY <3>1, EmptySeq DEF In
    <3> QED
      BY <1>1, <3>1, <3>2
  <2>2. ASSUME NEW c \in Conn, fd[c] \in Fd, EpollCallback(c) PROVE BufferInv'
    <3>1. rest' = buffer' /\ buffer' \in Seq(Bytes) /\ rest' \in Seq(Bytes)
      BY <2>2, CallbackIs DEF TypeOK
    <3>2. Len(rest') <= Len(buffer') /\ \A i \in DOMAIN rest' : rest'[i] = buffer'[Len(buffer') - Len(rest') + i]
      <4>1. Len(buffer') \in Nat /\ DOMAIN buffer' = 1 .. Len(buffer')
        BY <3>1, LenProperties
      <4>2. \A i \in DOMAIN buffer' : Len(buffer') - Len(buffer') + i = i
        BY <4>1
      <4> QED
        BY <3>1, <4>1, <4>2
    <3>3. ASSUME NEW d \in Conn, d # c, Port(d) = Port(c), NEW i \in DOMAIN buffer' PROVE MayHear(d, buffer'[i][1])
      <4>1. CASE toSrv[c] # <<>> /\ buffer' = Text(Front(toSrv[c], ReadSize))
        <5>1. toSrv[c] \in Seq(Bytes) /\ DOMAIN toSrv[c] = 1 .. Len(toSrv[c]) /\ Len(toSrv[c]) \in Nat
          BY TypeFacts, LenProperties
        <5> DEFINE t == Text(Front(toSrv[c], ReadSize))
                   k == Least(ReadSize, Len(toSrv[c]))
        <5>6. /\ DOMAIN t = 1 .. Len(t) /\ Len(t) \in Nat /\ k \in Nat /\ Len(t) <= k /\ k <= Len(toSrv[c])
              /\ \A j \in 1 .. Len(t) : t[j] = toSrv[c][j]
          BY <5>1, ReadIs
        <5>7. i \in DOMAIN t /\ buffer' = t
          BY <3>3, <4>1
        <5> HIDE DEF t, k
        <5>2. i \in DOMAIN toSrv[c] /\ buffer'[i] = toSrv[c][i]
          BY <5>1, <5>6, <5>7
        <5>3. CASE c \in Client
          <6>1. buffer'[i][1] = c
            BY <5>2, <5>3 DEF SpokenInv
          <6> QED
            BY <3>3, <5>3, <6>1 DEF MayHear
        <5>4. CASE c = "ownmsg"
          <6>1. buffer'[i][1] = "port" /\ Port(d) = "msg"
            BY <3>3, <5>2, <5>4, ConnFacts, BytesFacts DEF PortInv
          <6> QED
            BY <6>1 DEF MayHear
        <5>5. CASE c = "ownctl"
          BY <4>1, <5>5 DEF SpokenInv
        <5> QED
          BY <5>3, <5>4, <5>5, ConnFacts
      <4>2. CASE buffer' = <<>>
        BY <3>3, <4>2, EmptySeq
      <4>3. CASE buffer' = <<<<Port(c), 0>>>>
        <5>1. buffer'[i] = <<Port(c), 0>>
          BY <3>3, <4>3
        <5> QED
          BY <3>3, <5>1 DEF MayHear
      <4> QED
        BY <2>2, <4>1, <4>2, <4>3, CallbackIs
    <3> QED
      BY <2>2, <3>2, <3>3, CallbackTargets DEF BufferInv
  <2>3. CASE UNCHANGED <<buffer, rest, targets, fd>>
    BY <1>2, <2>3
  <2> QED
    BY <1>4, <2>1, <2>2, <2>3, EventIs
<1>5. CASE Send
  <2>1. UNCHANGED <<buffer, fd>>
    BY <1>5, SendIs
  <2>2. CASE UNCHANGED <<rest, targets>>
    BY <1>2, <2>1, <2>2
  <2>3. CASE targets # <<>> /\ NextTarget
    BY <1>3, <2>1, <2>3
  <2>4. CASE targets' = targets /\ \E k \in 1 .. Len(rest) : rest' = After(rest, k)
    BY <1>1, <2>1, <2>4
  <2> QED
    BY <1>5, <2>2, <2>3, <2>4, SendIs
<1>6. CASE deadly_handler
  <2>1. UNCHANGED <<buffer, fd>>
    BY <1>6 DEF deadly_handler, tables
  <2>2. CASE UNCHANGED <<rest, targets>>
    BY <1>2, <2>1, <2>2
  <2>3. CASE targets # <<>> /\ NextTarget
    BY <1>3, <2>1, <2>3
  <2> QED
    BY <1>6, <2>2, <2>3 DEF deadly_handler
<1>7. ASSUME NEW c \in Client, Connect(c) \/ Say(c) \/ Hear(c) \/ Disconnect(c) PROVE BufferInv'
  <2>1. UNCHANGED <<buffer, rest, targets, fd>>
    BY <1>7 DEF Connect, Say, Hear, Disconnect, turn, tables
  <2> QED
    BY <1>2, <2>1
<1>8. CASE startSrv \/ setup_socket \/ Forward \/ ReadCtl \/ EndLoop \/ stopSrv \/ CloseOwn
  <2>1. UNCHANGED <<buffer, rest, targets, fd>>
    BY <1>8 DEF startSrv, setup_socket, Forward, ReadCtl, EndLoop, stopSrv, CloseOwn, turn, tables
  <2> QED
    BY <1>2, <2>1
<1>9. CASE DestroyEpoll \/ Finish \/ PortSays \/ UseDestroyed \/ EpollWait \/ UNCHANGED vars
  <2>1. UNCHANGED <<buffer, rest, targets, fd>>
    BY <1>9 DEF DestroyEpoll, Finish, PortSays, UseDestroyed, EpollWait, vars, turn, tables
  <2> QED
    BY <1>2, <2>1
<1> QED
  BY <1>4, <1>5, <1>6, <1>7, <1>8, <1>9, NextIs

(* What is on its way to a connection it may hear, and a client of the     *)
(* control port has read nothing of the port.                              *)
LEMMA NoNumbers ==
  ASSUME TypeOK, SpeakersInv, PortsApart, NEW c \in Conn, Port(c) = "ctl"
  PROVE  \A n \in 0 .. Len(toCli[c]) : NrIn(toCli[c], heard[c], n) = 0
<1> TAKE n \in 0 .. Len(toCli[c])
<1>1. CASE n = 0
  BY <1>1 DEF SpeakersInv, NrIn
<1>2. CASE n # 0
  <2>1. n \in DOMAIN toCli[c]
    BY <1>2, TypeFacts, LenProperties
  <2>2. MayHear(c, toCli[c][n][1])
    BY <2>1 DEF PortsApart, MayHear
  <2>3. toCli[c][n][1] # "port"
    BY <2>2, ConnFacts DEF MayHear
  <2> QED
    BY <1>2, <2>3 DEF NrIn
<1> QED
  BY <1>1, <1>2

LEMMA ApartStep ==
  ASSUME TypeOK, DescriptorsInv, TargetsInv, SpeakersInv, PortsApart, [Next]_vars
  PROVE  PortsApart' /\ \A c \in Conn : Port(c) = "ctl" => heard'[c] = 0
<1> DEFINE Fine(c, t, h) == /\ \A i \in DOMAIN t : MayHear(c, t[i][1])
                            /\ Port(c) = "ctl" => h = 0
<1>1. \A c \in Conn : Fine(c, toCli[c], heard[c]) /\ Fine(c, <<>>, heard[c]) /\ Fine(c, <<>>, 0)
  BY EmptySeq DEF PortsApart, MayHear, SpeakersInv
<1>2. SUFFICES \A c \in Conn : Fine(c, toCli'[c], heard'[c])
  BY <1>2 DEF PortsApart, MayHear
<1>3. ASSUME \A c \in Conn : \/ toCli'[c] = toCli[c] /\ heard'[c] = heard[c]
                             \/ (toCli'[c] = <<>> /\ heard'[c] \in {0, heard[c]})
      PROVE  \A c \in Conn : Fine(c, toCli'[c], heard'[c])
  <2> HIDE DEF Fine
  <2> QED
    BY <1>1, <1>3
<1>4. CASE ReadCtl
  <2> DEFINE t == toCli["ownctl"]
             v == After(t, ReadSize)
  <2>1. t \in Seq(Bytes) /\ ReadSize \in Nat /\ Len(t) \in Nat /\ DOMAIN t = 1 .. Len(t)
    BY ConnFacts, TypeFacts, LenProperties
  <2>2. heard' = heard /\ toCli'["ownctl"] = v /\ \A c \in Conn : c # "ownctl" => toCli'[c] = toCli[c]
    BY <1>4, ConnFacts DEF ReadCtl, TypeOK
  <2>3. \A i \in DOMAIN t : MayHear("ownctl", t[i][1])
    BY <1>1, ConnFacts, SMTT(30)
  <2> HIDE DEF t
  <2>4. v \in Seq(Bytes) /\ Len(v) = (IF ReadSize < Len(t) THEN Len(t) - ReadSize ELSE 0)
        /\ \A i \in 1 .. Len(t) - ReadSize : v[i] = t[ReadSize + i]
    BY <2>1, AfterIs
  <2> HIDE DEF v
  <2>5. \A i \in DOMAIN v : i \in 1 .. Len(t) - ReadSize /\ ReadSize + i \in DOMAIN t
    BY <2>1, <2>4, LenProperties
  <2>6. \A i \in DOMAIN v : MayHear("ownctl", v[i][1])
    BY <2>3, <2>4, <2>5
  <2>7. Fine("ownctl", toCli'["ownctl"], heard'["ownctl"])
    BY <1>1, <2>2, <2>6, ConnFacts
  <2> HIDE DEF Fine
  <2> QED
    BY <1>1, <2>2, <2>7
<1>5. CASE CloseOwn
  BY <1>3, <1>5, HangUpIs DEF CloseOwn
<1>6. CASE NextEvent
  <2>1. CASE UNCHANGED <<toCli, heard>>
    BY <1>3, <2>1
  <2>2. \A c \in Conn : acceptClient(c) => UNCHANGED <<toCli, heard>>
    BY DEF acceptClient
  <2>3. ASSUME NEW c \in Conn, fd[c] \in Fd, EpollCallback(c) PROVE \A d \in Conn : Fine(d, toCli'[d], heard'[d])
    <3>1. heard' = heard /\ (toCli' = toCli \/ toCli' = [toCli EXCEPT ![c] = <<>>])
      BY <2>3, CallbackIs
    <3> QED
      BY <1>3, <3>1, TypeFacts
  <2> QED
    BY <1>6, <2>1, <2>2, <2>3, EventIs
<1>7. CASE Send
  <2>1. heard' = heard
    BY <1>7, SendIs
  <2>2. CASE toCli' = toCli
    BY <1>3, <2>1, <2>2
  <2>3. ASSUME NEW c \in Conn, targets # <<>>, fd[c] = Head(targets), NEW k \in 1 .. Len(rest),
               toCli' = [toCli EXCEPT ![c] = toCli[c] \o Front(rest, k)]
        PROVE  \A d \in Conn : Fine(d, toCli'[d], heard'[d])
    <3> DEFINE t == toCli[c]
               u == Front(rest, k)
    <3>1. t \in Seq(Bytes) /\ Len(t) \in Nat /\ DOMAIN t = 1 .. Len(t)
          /\ rest \in Seq(Bytes) /\ Len(rest) \in Nat /\ DOMAIN rest = 1 .. Len(rest) /\ k \in Nat
          /\ buffer \in Seq(Bytes) /\ Len(buffer) \in Nat /\ DOMAIN buffer = 1 .. Len(buffer)
      BY <2>3, TypeFacts, LenProperties
    <3>2. toCli'[c] = t \o u /\ \A d \in Conn : d # c => toCli'[d] = toCli[d]
      BY <2>3 DEF TypeOK
    <3>3. \A i \in DOMAIN buffer : MayHear(c, buffer[i][1])
      <4>1. targets[1] = fd[c] /\ 1 \in DOMAIN targets
        BY <2>3, TypeFacts
      <4>2. In(targets, fd[c])
        BY <4>1 DEF In
      <4> QED
        BY <4>2 DEF SpeakersInv, BufferInv
    <3>4. \A i \in DOMAIN rest : MayHear(c, rest[i][1])
      <4> TAKE i \in DOMAIN rest
      <4>1. Len(buffer) - Len(rest) + i \in DOMAIN buffer
        BY <3>1 DEF SpeakersInv, BufferInv
      <4>2. rest[i] = buffer[Len(buffer) - Len(rest) + i]
        BY DEF SpeakersInv, BufferInv
      <4> QED
        BY <3>3, <4>1, <4>2
    <3>5. \A i \in DOMAIN t : MayHear(c, t[i][1])
      BY <1>1
    <3> HIDE DEF t
    <3>6. u \in Seq(Bytes) /\ Len(u) = k /\ \A i \in 1 .. k : u[i] = rest[i]
      <4>1. k \in 0 .. Len(rest)
        BY <2>3, <3>1
      <4> QED
        BY <3>1, <4>1, SplitIs
    <3> HIDE DEF u
    <3>7. DOMAIN (t \o u) = 1 .. Len(t) + k
          /\ \A i \in 1 .. Len(t) + k : (t \o u)[i] = IF i <= Len(t) THEN t[i] ELSE u[i - Len(t)]
      <4>1. Len(t) + Len(u) = Len(t) + k
        BY <3>6
      <4> QED
        BY <3>1, <3>6, <4>1, ConcatIs
    <3>8. \A i \in DOMAIN (t \o u) : MayHear(c, (t \o u)[i][1])
      <4> TAKE i \in DOMAIN (t \o u)
      <4>1. CASE i <= Len(t)
        BY <3>1, <3>5, <3>7, <4>1
      <4>2. CASE i > Len(t)
        <5>1. i - Len(t) \in 1 .. k /\ i - Len(t) \in DOMAIN rest
          BY <3>1, <3>7, <4>2
        <5>2. (t \o u)[i] = rest[i - Len(t)]
          BY <3>1, <3>6, <3>7, <4>2, <5>1
        <5> QED
          BY <3>4, <5>1, <5>2
      <4> QED
        BY <3>1, <3>7, <4>1, <4>2
    <3>9. Fine(c, toCli'[c], heard'[c])
      BY <1>1, <2>1, <3>2, <3>8
    <3> HIDE DEF Fine
    <3> QED
      BY <1>1, <2>1, <3>2, <3>9
  <2> QED
    BY <1>7, <2>2, <2>3, SendIs
<1>8. ASSUME NEW c \in Client, Hear(c) PROVE \A d \in Conn : Fine(d, toCli'[d], heard'[d])
  <2>1. PICK n \in 0 .. Len(toCli[c]) : heard' = [heard EXCEPT ![c] = NrIn(toCli[c], heard[c], n)]
    BY <1>8, HearIs
  <2>2. toCli' = [toCli EXCEPT ![c] = <<>>] /\ c \in Conn
    BY <1>8, HearIs, ConnFacts
  <2>3. Port(c) = "ctl" => heard'[c] = 0
    BY <2>1, <2>2, NoNumbers DEF TypeOK
  <2>4. Fine(c, toCli'[c], heard'[c])
    BY <2>2, <2>3, EmptySeq, TypeFacts
  <2>5. \A d \in Conn : d # c => toCli'[d] = toCli[d] /\ heard'[d] = heard[d]
    BY <2>1, <2>2 DEF TypeOK
  <2> HIDE DEF Fine
  <2> QED
    BY <1>1, <2>4, <2>5
<1>9. ASSUME NEW c \in Client, Disconnect(c) PROVE \A d \in Conn : Fine(d, toCli'[d], heard'[d])
  BY <1>3, <1>9, HangUpIs DEF Disconnect
<1>10. ASSUME NEW c \in Client, Connect(c) \/ Say(c) PROVE \A d \in Conn : Fine(d, toCli'[d], heard'[d])
  <2>1. UNCHANGED <<toCli, heard>>
    BY <1>10 DEF Connect, Reach, Say
  <2> QED
    BY <1>3, <2>1
<1>11. CASE startSrv \/ setup_socket \/ Forward \/ EndLoop \/ stopSrv \/ DestroyEpoll \/ Finish
            \/ PortSays \/ UseDestroyed \/ EpollWait \/ deadly_handler \/ UNCHANGED vars
  <2>1. UNCHANGED <<toCli, heard>>
    BY <1>11 DEF startSrv, setup_socket, Reach, Forward, EndLoop, stopSrv, DestroyEpoll, Finish, PortSays,
                 UseDestroyed, EpollWait, deadly_handler, vars, conns
  <2> QED
    BY <1>3, <2>1
<1> QED
  BY <1>4, <1>5, <1>6, <1>7, <1>8, <1>9, <1>10, <1>11, NextIs

(* Steps that leave the server's buffer and targets alone.                 *)
LEMMA OrderKept ==
  ASSUME OrderInv, ~sig_exit, UNCHANGED <<buffer, rest, targets>>,
         Flowing' => Flowing /\ NextNr' = NextNr,
         \A c \in Client : InOrder(toCli[c], heard[c]) => InOrder(toCli'[c], heard'[c]),
         \A c \in Client : Accepted(c)' =>
           \/ \A n : ToldIn(toCli'[c], heard'[c], n)
           \/ /\ Accepted(c) /\ fd'[c] = fd[c]
              /\ \A n : ToldIn(toCli[c], heard[c], n) => ToldIn(toCli'[c], heard'[c], n)
  PROVE  OrderInv'
<1>1. \A c \in Client : InOrder(toCli'[c], heard'[c])
  BY DEF OrderInv
<1>2. RunInv'
  BY DEF OrderInv, RunInv
<1>3. ASSUME NEW c \in Client, Accepted(c)' PROVE Ready(c)'
  <2>1. CASE \A n : ToldIn(toCli'[c], heard'[c], n)
    BY <2>1 DEF Ready, Told
  <2>2. CASE /\ Accepted(c) /\ fd'[c] = fd[c]
             /\ \A n : ToldIn(toCli[c], heard[c], n) => ToldIn(toCli'[c], heard'[c], n)
    <3>1. Ready(c)
      BY <2>2 DEF OrderInv
    <3> QED
      BY <2>2, <3>1 DEF Ready, Told
  <2> QED
    BY <1>3, <2>1, <2>2
<1> QED
  BY <1>1, <1>2, <1>3 DEF OrderInv

(* What loop() does with the wire leaves its next byte where it was.       *)
LEMMA WireKept ==
  ASSUME TypeOK, TypeOK', OwnInv, PortSays \/ Forward
  PROVE  Flowing' => Flowing /\ NextNr' = NextNr
<1> DEFINE s == toSrv["ownmsg"]
<1>1. /\ s \in Seq(Bytes) /\ Len(s) \in Nat /\ said \in Nat
      /\ pending \in Seq(Bytes) /\ Len(pending) \in Nat
  <2>1. said \in Nat
    BY ConnFacts DEF TypeOK
  <2> QED
    BY <2>1, ConnFacts, TypeFacts
<1>2. Flowing' => up["ownmsg"] /\ Flowing
  <2>1. main \in {"loop", "forward"} /\ main' \in {"loop", "forward"} /\ up' = up
        /\ (~up["ownmsg"] => toSrv' = toSrv)
    BY ForwardIs DEF PortSays, AfterWrite, conns
  <2> QED
    BY <2>1 DEF Flowing, OwnInv
<1>3. CASE PortSays
  <2>1. PICK k \in 1 .. MaxSaid - said : /\ pending' = [i \in 1 .. k |-> FromPort(said + i)]
                                         /\ said' = said + k
    BY <1>3 DEF PortSays
  <2>2. k \in Nat /\ Len(pending') = k
    BY <1>1, <2>1, ConnFacts
  <2>3. pending = <<>> /\ Len(<<>>) = 0
    BY <1>3, EmptySeq DEF PortSays, TypeOK
  <2>4. toSrv' = toSrv
    BY <1>3 DEF PortSays, conns
  <2> QED
    BY <1>1, <1>2, <2>1, <2>2, <2>3, <2>4 DEF Unread, NextNr
<1>4. CASE Forward /\ up["ownmsg"]
  <2> DEFINE k == Least(CapSrv - Len(s), Len(pending))
  <2>1. Len(s) < CapSrv /\ CapSrv \in Nat /\ said' = said
    BY <1>4, ForwardIs, ConnFacts
  <2>2. toSrv'["ownmsg"] = s \o Front(pending, k) /\ pending' = After(pending, k)
    BY <1>4, ForwardIs, ConnFacts DEF TypeOK
  <2> HIDE DEF s
  <2>3. k \in 0 .. Len(pending)
    BY <1>1, <2>1 DEF Least
  <2> HIDE DEF k
  <2>4. /\ Front(pending, k) \in Seq(Bytes) /\ Len(Front(pending, k)) = k
        /\ Len(After(pending, k)) = Len(pending) - k
    BY <1>1, <2>3, SplitIs
  <2>5. Len(s \o Front(pending, k)) = Len(s) + k
    BY <1>1, <2>4, ConcatIs
  <2>6. Unread' = Len(s) + k + (Len(pending) - k) /\ Unread = Len(s) + Len(pending)
    BY <2>2, <2>4, <2>5 DEF Unread, s
  <2>7. Unread' = Unread
    BY <1>1, <2>3, <2>6
  <2> QED
    BY <1>2, <2>1, <2>7 DEF NextNr
<1> QED
  BY <1>2, <1>3, <1>4

(* A byte that is lost after a zero byte.                                  *)
LEMMA FollowsZero ==
  ASSUME NEW t \in Seq(Bytes), NEW h \in Nat, NEW n \in Int, n \in ZeroAt, NEW k \in Nat, k > 0,
         ToldIn(t, h, n)
  PROVE  ToldIn(t, h, n + k)
<1>1. \A m \in 0 .. Len(t) : NrIn(t, h, m) \in Nat
  BY NrInIs
<1>2. \A x \in Nat : Follows(x, n) => Follows(x, n + k)
  BY DEF Follows
<1> QED
  BY <1>1, <1>2 DEF ToldIn

LEMMA RunOrSilent ==
  ASSUME NEW s
  PROVE  ~(Run(s) /\ Silent(s) /\ s \in Seq(Bytes))
<1> SUFFICES ASSUME Run(s), Silent(s), s \in Seq(Bytes) PROVE FALSE
  OBVIOUS
<1>1. 1 \in DOMAIN s
  BY EmptySeq, LenProperties DEF Run
<1>2. s[1] = FromPort(s[1][2] + 1 - 1)
  BY <1>1 DEF Run
<1> QED
  BY <1>1, <1>2, BytesFacts DEF Silent

LEMMA OrderCallback ==
  ASSUME FfwdInv, TypeOK', DescriptorsInv', ~sig_exit, srv = "events", NEW c \in Conn, fd[c] \in Fd,
         EpollCallback(c), UNCHANGED <<main, pending, said, sig_exit>>
  PROVE  OrderInv'
<1> USE DEF FfwdInv
<1>1. \A d \in Client : Accepted(d) => (Flowing => Told(d, NextNr))
  <2>1. \A f : ~In(targets, f)
    BY EmptySeq DEF TargetsInv, In
  <2> QED
    BY <2>1 DEF OrderInv, Ready
<1>2. \A d \in Client : InOrder(toCli'[d], heard'[d])
  <2>1. heard' = heard /\ (toCli' = toCli \/ toCli' = [toCli EXCEPT ![c] = <<>>])
    BY CallbackIs
  <2>2. \A d \in Client : toCli'[d] = toCli[d] \/ toCli'[d] = <<>>
    BY <2>1, ConnFacts, TypeFacts
  <2> QED
    BY <2>1, <2>2, ToldNone DEF OrderInv
<1>3. \A d \in Client : Accepted(d)' => Accepted(d) /\ toCli'[d] = toCli[d] /\ heard'[d] = heard[d]
  <2>1. heard' = heard /\ \/ UNCHANGED <<conn, toCli>>
                          \/ /\ conn' = [conn EXCEPT ![c] = "none"]
                             /\ toCli' = [toCli EXCEPT ![c] = <<>>]
    BY CallbackIs
  <2> QED
    BY <2>1, ConnFacts DEF TypeOK, Accepted
<1>4. rest' = buffer' /\ buffer' \in Seq(Bytes)
  BY CallbackIs DEF TypeOK
<1>5. CASE c = "ownmsg" /\ toSrv[c] # <<>>
  <2> DEFINE s == toSrv["ownmsg"]
             t == Text(Front(s, ReadSize))
             k == Least(ReadSize, Len(s))
  <2>1. toSrv' = [toSrv EXCEPT ![c] = After(s, ReadSize)] /\ buffer' = t
    BY <1>5, CallbackIs
  <2>2. s \in Seq(Bytes) /\ Len(s) \in Nat \ {0} /\ DOMAIN s = 1 .. Len(s) /\ ReadSize \in Nat \ {0}
    BY <1>5, ConnFacts, TypeFacts, LenProperties, EmptySeq
  <2>3. /\ t \in Seq(Bytes) /\ DOMAIN t = 1 .. Len(t) /\ Len(t) \in Nat /\ k \in Nat
        /\ Len(t) <= k /\ k <= Len(s)
        /\ \A i \in 1 .. Len(t) : t[i] = s[i]
        /\ Len(t) < k => IsZero(s[Len(t) + 1])
    BY <2>2, ReadIs
  <2>4. k > 0 /\ Len(After(s, ReadSize)) = Len(s) - k
    <3>1. Len(After(s, ReadSize)) = IF ReadSize < Len(s) THEN Len(s) - ReadSize ELSE 0
      BY <2>2, AfterIs
    <3> QED
      BY <2>2, <3>1 DEF Least
  <2>5. Flowing /\ NextNr \in Int
    <3>1. said \in Nat /\ Len(pending) \in Nat
      BY TypeFacts, ConnFacts DEF TypeOK
    <3> QED
      BY <1>5, <2>2, <3>1 DEF Flowing, NextNr, Unread
  <2>6. NextNr' = NextNr + k
    <3>1. toSrv'["ownmsg"] = After(s, ReadSize)
      BY <1>5, <2>1 DEF TypeOK
    <3>2. said \in Nat /\ Len(pending) \in Nat
      BY TypeFacts, ConnFacts DEF TypeOK
    <3>3. NextNr' = said + 1 - (Len(s) - k + Len(pending)) /\ NextNr = said + 1 - (Len(s) + Len(pending))
      BY <2>4, <3>1 DEF NextNr, Unread
    <3> HIDE DEF k, s
    <3> QED
      BY <2>2, <2>3, <3>2, <3>3
  <2>7. \A i \in 1 .. Len(s) : s[i] = FromPort(NextNr + i - 1)
    BY <2>2 DEF PortInv
  <2> HIDE DEF s, t, k
  <2>8. \A i \in DOMAIN t : t[i] = FromPort(NextNr + i - 1)
    BY <2>2, <2>3, <2>7
  <2>9. Len(t) < k => NextNr + Len(t) \in ZeroAt
    <3> HAVE Len(t) < k
    <3>1. Len(t) + 1 \in 1 .. Len(s) /\ NextNr + (Len(t) + 1) - 1 = NextNr + Len(t)
      BY <2>2, <2>3, <2>5
    <3>2. s[Len(t) + 1] = FromPort(NextNr + Len(t))
      BY <2>7, <3>1
    <3>3. IsZero(FromPort(NextNr + Len(t)))
      BY <2>3, <3>2
    <3> QED
      BY <3>3, BytesFacts DEF IsZero
  <2>10. CASE t = <<>>
    <3>1. Silent(t) /\ ~Run(t) /\ Len(t) = 0
      BY <2>10, EmptySeq DEF Silent, Run
    <3>2. NextNr \in ZeroAt
      BY <2>4, <2>5, <2>9, <3>1
    <3>3. ASSUME NEW d \in Client, Accepted(d)' PROVE ToldIn(toCli'[d], heard'[d], NextNr')
      <4>1. ToldIn(toCli[d], heard[d], NextNr) /\ toCli[d] \in Seq(Bytes) /\ heard[d] \in Nat
        BY <1>1, <1>3, <2>5, <3>3, ConnFacts, TypeFacts DEF Told
      <4>2. ToldIn(toCli[d], heard[d], NextNr + k)
        BY <2>3, <2>4, <2>5, <3>2, <4>1, FollowsZero
      <4> QED
        BY <1>3, <2>6, <3>3, <4>2
    <3> QED
      BY <1>2, <2>1, <3>1, <3>3 DEF OrderInv, RunInv, Ready, Told
  <2>11. CASE t # <<>>
    <3>1. Len(t) # 0 /\ t[1][2] = NextNr /\ t[Len(t)][2] = NextNr + Len(t) - 1
      <4>1. Len(t) # 0
        BY <2>3, <2>11, EmptySeq
      <4>2. t[1] = FromPort(NextNr + 1 - 1) /\ t[Len(t)] = FromPort(NextNr + Len(t) - 1)
        BY <2>3, <2>8, <4>1
      <4> QED
        BY <2>5, <4>1, <4>2, BytesFacts
    <3>2. Run(t)
      BY <2>8, <2>11, <3>1 DEF Run
    <3>3. Follows(t[Len(t)][2], NextNr + k)
      <4>1. NextNr + k > NextNr + Len(t) - 1
        BY <2>3, <2>5
      <4>2. NextNr + k # NextNr + Len(t) - 1 + 1 => Len(t) < k
        BY <2>3, <2>5
      <4>3. NextNr + Len(t) - 1 + 1 = NextNr + Len(t)
        BY <2>3, <2>5
      <4> QED
        BY <2>9, <3>1, <4>1, <4>2, <4>3 DEF Follows
    <3>4. RunInv'
      BY <1>4, <2>1, <2>6, <2>11, <3>2, <3>3 DEF RunInv
    <3>5. ASSUME NEW d \in Client, Accepted(d)' PROVE Ready(d)'
      <4>1. d \in Conn /\ d # c /\ Port(c) = "msg" /\ Port(d) \in Ports
        BY <1>5, ConnFacts
      <4>2. CASE Port(d) = "msg"
        <5>1. In(targets', fd'[d])
          BY <1>3, <3>5, <4>1, <4>2, CallbackTargets
        <5>2. ToldIn(toCli'[d], heard'[d], NextNr)
          BY <1>1, <1>3, <2>5, <3>5 DEF Told
        <5> QED
          BY <1>4, <2>1, <3>1, <3>2, <5>1, <5>2 DEF Ready, Told
      <4>3. CASE Port(d) = "ctl"
        <5>1. ~In(targets', fd'[d])
          BY <4>1, <4>3, CallbackTargets
        <5>2. \A n : ToldIn(toCli[d], heard[d], n)
          BY <4>1, <4>3, NoNumbers DEF ToldIn
        <5> QED
          BY <1>3, <3>5, <5>1, <5>2 DEF Ready, Told
      <4> QED
        BY <4>1, <4>2, <4>3 DEF Ports
    <3> QED
      BY <1>2, <3>4, <3>5 DEF OrderInv
  <2> QED
    BY <2>10, <2>11
<1>6. CASE ~(c = "ownmsg" /\ toSrv[c] # <<>>)
  <2>1. toSrv'["ownmsg"] = toSrv["ownmsg"]
    <3>1. \/ toSrv[c] # <<>> /\ toSrv' = [toSrv EXCEPT ![c] = After(toSrv[c], ReadSize)]
          \/ toSrv' = toSrv
      BY CallbackIs
    <3>2. toSrv[c] # <<>> => c # "ownmsg"
      BY <1>6
    <3>3. CASE toSrv[c] # <<>> /\ toSrv' = [toSrv EXCEPT ![c] = After(toSrv[c], ReadSize)]
      <4>1. c # "ownmsg" /\ toSrv \in [Conn -> Seq(Bytes)] /\ "ownmsg" \in Conn
        BY <3>2, <3>3, ConnFacts, TypeFacts
      <4> QED
        BY <3>3, <4>1
    <3> QED
      BY <3>1, <3>3
  <2>2. Silent(buffer')
    <3>1. CASE toSrv[c] # <<>> /\ buffer' = Text(Front(toSrv[c], ReadSize))
      <4> DEFINE t == Text(Front(toSrv[c], ReadSize))
                 k == Least(ReadSize, Len(toSrv[c]))
      <4>1. c \in Client
        BY <1>6, <3>1, ConnFacts DEF SpeakersInv, SpokenInv
      <4>2. toSrv[c] \in Seq(Bytes) /\ DOMAIN toSrv[c] = 1 .. Len(toSrv[c]) /\ Len(toSrv[c]) \in Nat
        BY TypeFacts, LenProperties
      <4>3. /\ DOMAIN t = 1 .. Len(t) /\ Len(t) \in Nat /\ k \in Nat /\ Len(t) <= k /\ k <= Len(toSrv[c])
            /\ \A j \in 1 .. Len(t) : t[j] = toSrv[c][j]
        BY <4>2, ReadIs
      <4>4. buffer' = t
        BY <3>1
      <4> HIDE DEF t, k
      <4>5. \A i \in DOMAIN t : t[i][1] = c
        BY <4>1, <4>2, <4>3 DEF SpeakersInv, SpokenInv
      <4> QED
        BY <4>1, <4>4, <4>5, ConnFacts DEF Silent
    <3>2. CASE buffer' = <<>>
      BY <3>2, EmptySeq DEF Silent
    <3>3. CASE buffer' = <<<<Port(c), 0>>>>
      <4>1. Port(c) # "port"
        BY ConnFacts DEF Ports
      <4> QED
        BY <3>3, <4>1 DEF Silent
    <3> QED
      BY <3>1, <3>2, <3>3, CallbackIs
  <2>3. ~Run(buffer')
    BY <1>4, <2>2, RunOrSilent
  <2>4. Flowing' = Flowing /\ NextNr' = NextNr
    BY <2>1, CallbackIs DEF Flowing, NextNr, Unread
  <2>5. ASSUME NEW d \in Client, Accepted(d)' PROVE Ready(d)'
    BY <1>1, <1>3, <2>3, <2>4, <2>5 DEF Ready, Told
  <2> QED
    BY <1>2, <2>2, <2>3, <2>5 DEF OrderInv, RunInv
<1> QED
  BY <1>5, <1>6

LEMMA OrderSend ==
  ASSUME FfwdInv, ~sig_exit, UNCHANGED sig_exit, Send
  PROVE  OrderInv'
<1> USE DEF FfwdInv
<1>1. UNCHANGED <<main, pending, said, conn, up, toSrv, heard, fd, buffer>>
  BY SendIs
<1>2. UNCHANGED <<Flowing, NextNr>>
  BY <1>1 DEF Flowing, NextNr, Unread
<1>3. buffer \in Seq(Bytes) /\ rest \in Seq(Bytes) /\ Len(buffer) \in Nat /\ Len(rest) \in Nat
      /\ DOMAIN rest = 1 .. Len(rest) /\ DOMAIN buffer = 1 .. Len(buffer)
  BY TypeFacts, LenProperties
<1>4. \A c \in Client : InOrder(toCli[c], heard[c]) /\ (Accepted(c) => Ready(c))
  BY DEF OrderInv
<1>5. CASE UNCHANGED <<toCli, rest, targets>>
  BY <1>1, <1>2, <1>5, OrderKept DEF Accepted
<1>6. ASSUME NEW c \in Conn, targets # <<>>, Accepted(c), fd[c] = Head(targets), ~Run(buffer),
             \/ toCli' = toCli
             \/ \E k \in 1 .. Len(rest) : toCli' = [toCli EXCEPT ![c] = toCli[c] \o Front(rest, k)]
      PROVE  OrderInv'
  <2>1. Silent(buffer)
    BY <1>6 DEF OrderInv, RunInv
  <2>2. \A d \in Client : Accepted(d) => (Flowing => Told(d, NextNr))
    BY <1>4, <1>6 DEF Ready
  <2>3. ASSUME NEW d \in Client
        PROVE  /\ InOrder(toCli'[d], heard'[d])
               /\ \A n : ToldIn(toCli[d], heard[d], n) => ToldIn(toCli'[d], heard'[d], n)
    <3>1. CASE toCli'[d] = toCli[d]
      BY <1>1, <1>4, <3>1
    <3>2. CASE toCli'[d] # toCli[d]
      <4>1. PICK k \in 1 .. Len(rest) : toCli' = [toCli EXCEPT ![c] = toCli[c] \o Front(rest, k)]
        BY <1>6, <3>2
      <4>2. d = c /\ toCli'[d] = toCli[d] \o Front(rest, k)
        BY <3>2, <4>1, ConnFacts, TypeFacts
      <4>3. k \in 0 .. Len(rest) /\ rest \in Seq(Bytes)
        BY <1>3
      <4>4. Front(rest, k) \in Seq(Bytes) /\ DOMAIN Front(rest, k) = 1 .. k
            /\ \A i \in 1 .. k : Front(rest, k)[i] = rest[i]
        <5>1. Front(rest, k) \in Seq(Bytes) /\ Len(Front(rest, k)) = k
          BY <4>3, SplitIs
        <5>2. \A i \in 1 .. k : Front(rest, k)[i] = rest[i]
          BY <4>3, SplitIs
        <5>3. DOMAIN Front(rest, k) = 1 .. k
          BY <5>1, LenProperties
        <5> QED
          BY <5>1, <5>2, <5>3
      <4>5. \A i \in DOMAIN rest : rest[i][1] # "port"
        <5> TAKE i \in DOMAIN rest
        <5>1. Len(buffer) - Len(rest) + i \in DOMAIN buffer
          BY <1>3 DEF SpeakersInv, BufferInv
        <5>2. rest[i] = buffer[Len(buffer) - Len(rest) + i]
          BY DEF SpeakersInv, BufferInv
        <5> QED
          BY <2>1, <5>1, <5>2 DEF Silent
      <4>6. \A i \in 1 .. k : i \in DOMAIN rest
        BY <1>3
      <4>7. Silent(Front(rest, k))
        BY <4>4, <4>5, <4>6 DEF Silent
      <4>8. toCli[d] \in Seq(Bytes) /\ heard[d] \in Nat
        BY ConnFacts, TypeFacts
      <4> QED
        BY <1>1, <1>4, <4>2, <4>4, <4>7, <4>8, ToldSilent
    <3> QED
      BY <3>1, <3>2
  <2>4. RunInv'
    BY <1>1, <1>6, <2>1 DEF RunInv
  <2>5. ASSUME NEW d \in Client, Accepted(d)' PROVE Ready(d)'
    <3>1. Accepted(d) /\ ~Run(buffer')
      BY <1>1, <1>6, <2>5 DEF Accepted
    <3>2. Flowing' => ToldIn(toCli'[d], heard'[d], NextNr')
      BY <1>2, <2>2, <2>3, <3>1 DEF Told
    <3> QED
      BY <3>1, <3>2 DEF Ready, Told
  <2> QED
    BY <2>3, <2>4, <2>5 DEF OrderInv
<1>7. ASSUME NEW c \in Conn, targets # <<>>, Accepted(c), fd[c] = Head(targets), Run(buffer), NextTarget,
             \A d \in Client : d # c => toCli'[d] = toCli[d],
             c \in Client => InOrder(toCli'[c], heard'[c]),
             c \in Client => (Flowing => ToldIn(toCli'[c], heard'[c], NextNr))
      PROVE  OrderInv'
  <2>1. targets' = Tail(targets) /\ rest' = buffer
    BY <1>7 DEF NextTarget
  <2>2. ~In(targets', fd[c]) /\ \A f : In(targets, f) <=> f = fd[c] \/ In(targets', f)
    BY <1>7, <2>1, TailIs DEF TargetsInv
  <2>3. \A d \in Conn : d # c /\ Accepted(d) => fd[d] # fd[c]
    BY <1>7 DEF DescriptorsInv
  <2>4. RunInv'
    <3>1. buffer # <<>>
      BY <1>7 DEF Run
    <3>2. Flowing => Follows(buffer[Len(buffer)][2], NextNr)
      BY <1>7 DEF OrderInv, RunInv
    <3> QED
      BY <1>1, <1>2, <1>7, <2>1, <3>1, <3>2 DEF RunInv
  <2>5. ASSUME NEW d \in Client, Accepted(d)' PROVE Ready(d)'
    <3>1. Accepted(d) /\ d \in Conn
      BY <1>1, <2>5, ConnFacts DEF Accepted
    <3>2. CASE d = c
      BY <1>1, <1>2, <1>7, <2>2, <3>2 DEF Ready, Told
    <3>3. CASE d # c
      <4>1. fd[d] # Head(targets) /\ (In(targets', fd[d]) <=> In(targets, fd[d]))
        BY <1>7, <2>2, <2>3, <3>1, <3>3
      <4>2. IF In(targets, fd[d]) THEN Told(d, buffer[1][2]) ELSE Flowing => Told(d, NextNr)
        BY <1>4, <1>7, <3>1, <4>1 DEF Ready
      <4>3. toCli'[d] = toCli[d] /\ heard'[d] = heard[d] /\ fd'[d] = fd[d] /\ buffer' = buffer
        BY <1>1, <1>7, <3>3
      <4> QED
        BY <1>2, <1>7, <2>1, <4>1, <4>2, <4>3 DEF Ready, Told
    <3> QED
      BY <3>2, <3>3
  <2>6. \A d \in Client : InOrder(toCli'[d], heard'[d])
    BY <1>1, <1>4, <1>7
  <2> QED
    BY <2>4, <2>5, <2>6 DEF OrderInv
<1>8. ASSUME NEW c \in Conn, targets # <<>>, Accepted(c), fd[c] = Head(targets), Run(buffer),
             ~up[c] \/ rest = <<>>, NextTarget, UNCHANGED toCli
      PROVE  OrderInv'
  <2>1. rest # <<>>
    BY <1>8 DEF OrderInv, RunInv
  <2>2. toCli[c] = <<>> /\ heard[c] = 0
    BY <1>8, <2>1 DEF QuietInv
  <2>3. \A n : ToldIn(toCli'[c], heard'[c], n)
    BY <1>1, <1>8, <2>2, ToldNone
  <2>4. c \in Client => InOrder(toCli'[c], heard'[c])
    BY <1>1, <1>4, <1>8
  <2> QED
    BY <1>7, <1>8, <2>3, <2>4
<1>9. ASSUME NEW c \in Conn, targets # <<>>, Accepted(c), fd[c] = Head(targets), Run(buffer),
             NEW k \in 1 .. Len(rest),
             toCli' = [toCli EXCEPT ![c] = toCli[c] \o Front(rest, k)],
             \/ k = Len(rest) /\ NextTarget
             \/ k < Len(rest) /\ rest' = After(rest, k) /\ targets' = targets
      PROVE  OrderInv'
  <2> DEFINE u == Front(rest, k)
             b == buffer[1][2]
             j == Len(buffer) - Len(rest)
  <2>15. k \in 0 .. Len(rest) /\ rest \in Seq(Bytes)
    BY <1>3
  <2>1. k \in 0 .. Len(rest) /\ k \in Nat \ {0} /\ j \in Nat
    BY <1>3 DEF SpeakersInv, BufferInv
  <2>2. b \in 1 .. MaxSaid /\ MaxSaid \in Nat
    <3>1. 1 \in DOMAIN buffer /\ buffer[1] \in Bytes
      <4>1. buffer \in Seq(Bytes) /\ Len(buffer) \in Nat /\ DOMAIN buffer = 1 .. Len(buffer) /\ buffer # <<>>
        BY <1>3, <1>9 DEF Run
      <4>2. Len(buffer) # 0
        BY <4>1, EmptySeq
      <4>3. 1 \in 1 .. Len(buffer)
        BY <4>1, <4>2
      <4> QED
        BY <4>1, <4>3, ElementOfSeq
    <3>2. buffer[1] = FromPort(b + 1 - 1)
      BY <1>9, <3>1, SMTT(30) DEF Run
    <3> QED
      BY <3>1, <3>2, BytesFacts, ConnFacts
  <2>3. \A i \in 1 .. Len(buffer) : buffer[i] = FromPort(b + i - 1)
    BY <1>3, <1>9 DEF Run
  <2> HIDE DEF b
  <2>4. \A i \in 1 .. Len(rest) : rest[i] = FromPort(b + j + i - 1)
    <3> TAKE i \in 1 .. Len(rest)
    <3>1. j + i \in 1 .. Len(buffer) /\ b + (j + i) - 1 = b + j + i - 1
      BY <1>3, <2>1, <2>2
    <3>2. rest[i] = buffer[j + i]
      BY <1>3 DEF SpeakersInv, BufferInv
    <3> HIDE DEF j
    <3> QED
      BY <2>3, <3>1, <3>2
  <2>5. u \in Seq(Bytes) /\ Len(u) = k /\ DOMAIN u = 1 .. k /\ \A i \in 1 .. k : u[i] = rest[i]
    <3>1. u \in Seq(Bytes) /\ Len(u) = k
      BY <2>15, SplitIs
    <3>2. \A i \in 1 .. k : u[i] = rest[i]
      BY <2>15, SplitIs
    <3>3. DOMAIN u = 1 .. k
      BY <3>1, LenProperties
    <3> QED
      BY <3>1, <3>2, <3>3
  <2>6. k < Len(rest) => After(rest, k) # <<>> /\ After(rest, k)[1] = rest[k + 1]
    <3>1. /\ After(rest, k) \in Seq(Bytes) /\ Len(After(rest, k)) = Len(rest) - k
          /\ \A i \in 1 .. Len(rest) - k : After(rest, k)[i] = rest[k + i]
      BY <2>15, SplitIs
    <3>2. k < Len(rest) => 1 \in 1 .. Len(rest) - k /\ Len(rest) - k # 0
      BY <2>15
    <3> QED
      BY <3>1, <3>2, EmptySeq
  <2> HIDE DEF u, j
  <2>7. \A i \in 1 .. k : u[i] = FromPort(b + j + i - 1)
    BY <1>3, <2>1, <2>4, <2>5
  <2>8. u[1][2] = b + j /\ u[k][2] = b + j + k - 1 /\ rest[1][2] = b + j
    <3>1. 1 \in 1 .. k /\ k \in 1 .. k /\ b + j + 1 - 1 = b + j
      BY <2>1, <2>2
    <3>2. u[1] = FromPort(b + j + 1 - 1) /\ u[k] = FromPort(b + j + k - 1) /\ rest[1] = u[1]
      BY <2>5, <2>7, <3>1
    <3> QED
      BY <3>1, <3>2, BytesFacts
  <2>9. Run(u)
    <3>1. u # <<>>
      BY <2>1, <2>5, EmptySeq
    <3> QED
      BY <2>5, <2>7, <2>8, <3>1 DEF Run
  <2>10. \A d \in Client : d # c => toCli'[d] = toCli[d]
    BY <1>9, ConnFacts, TypeFacts
  <2>11. In(targets, fd[c])
    <3>1. targets[1] = fd[c] /\ 1 \in DOMAIN targets
      BY <1>9, TypeFacts
    <3> QED
      BY <3>1 DEF In
  <2>12. ASSUME c \in Client
         PROVE  /\ InOrder(toCli'[c], heard'[c])
                /\ \A n : Follows(b + j + k - 1, n) => ToldIn(toCli'[c], heard'[c], n)
    <3>1. InOrder(toCli[c], heard[c]) /\ ToldIn(toCli[c], heard[c], u[1][2])
      BY <1>4, <1>9, <2>8, <2>11, <2>12 DEF Ready, Told
    <3>2. toCli[c] \in Seq(Bytes) /\ heard[c] \in Nat /\ toCli'[c] = toCli[c] \o u /\ heard' = heard
      BY <1>1, <1>9, TypeFacts DEF u
    <3>3. /\ InOrder(toCli[c] \o u, heard[c])
          /\ \A n : Follows(u[Len(u)][2], n) => ToldIn(toCli[c] \o u, heard[c], n)
      BY <2>5, <2>9, <3>1, <3>2, ToldRun
    <3> QED
      BY <2>5, <2>8, <3>2, <3>3
  <2>13. CASE k = Len(rest) /\ NextTarget
    <3>1. buffer[Len(buffer)][2] = b + j + k - 1
      <4>1. Len(buffer) \in 1 .. Len(buffer) /\ b + Len(buffer) - 1 = b + j + k - 1
        BY <1>3, <2>1, <2>2, <2>13 DEF j
      <4> QED
        BY <2>3, <4>1, BytesFacts
    <3>2. Flowing => Follows(b + j + k - 1, NextNr)
      BY <1>9, <3>1 DEF OrderInv, RunInv
    <3> QED
      BY <1>7, <1>9, <2>10, <2>12, <2>13, <3>2
  <2>14. CASE k < Len(rest) /\ rest' = After(rest, k) /\ targets' = targets
    <3>1. rest'[1][2] = b + j + k
      <4>1. k + 1 \in 1 .. Len(rest) /\ b + j + (k + 1) - 1 = b + j + k
        BY <1>3, <2>1, <2>2, <2>14
      <4>2. rest'[1] = FromPort(b + j + (k + 1) - 1)
        BY <2>4, <2>6, <2>14, <4>1
      <4> QED
        BY <4>1, <4>2, BytesFacts
    <3>2. Follows(b + j + k - 1, b + j + k)
      BY <2>1, <2>2 DEF Follows
    <3>3. \A d \in Client : InOrder(toCli'[d], heard'[d])
      BY <1>1, <1>4, <2>10, <2>12
    <3>4. RunInv'
      <4>1. RunInv
        BY DEF OrderInv
      <4> QED
        BY <1>1, <1>2, <1>9, <2>6, <2>14, <4>1 DEF RunInv
    <3>5. ASSUME NEW d \in Client, Accepted(d)' PROVE Ready(d)'
      <4>1. Accepted(d) /\ d \in Conn
        BY <1>1, <3>5, ConnFacts DEF Accepted
      <4>2. CASE d = c
        <5>1. ToldIn(toCli'[c], heard'[c], b + j + k)
          BY <2>12, <3>2, <4>2
        <5> QED
          BY <1>1, <1>9, <2>11, <2>14, <3>1, <4>2, <5>1 DEF Ready, Told
      <4>3. CASE d # c
        <5>1. fd[d] # Head(targets)
          BY <1>9, <4>1, <4>3 DEF DescriptorsInv
        <5>2. IF In(targets, fd[d]) THEN Told(d, buffer[1][2]) ELSE Flowing => Told(d, NextNr)
          BY <1>4, <1>9, <4>1, <5>1 DEF Ready
        <5>3. toCli'[d] = toCli[d] /\ heard'[d] = heard[d] /\ fd'[d] = fd[d] /\ buffer' = buffer
          BY <1>1, <2>10, <4>3
        <5> QED
          BY <1>2, <1>9, <2>14, <5>1, <5>2, <5>3 DEF Ready, Told
      <4> QED
        BY <4>2, <4>3
    <3> QED
      BY <3>3, <3>4, <3>5 DEF OrderInv
  <2> QED
    BY <1>9, <2>13, <2>14
<1> QED
  BY <1>5, <1>6, <1>8, <1>9, SendIs

LEMMA OrderStep ==
  ASSUME FfwdInv, TypeOK', DescriptorsInv', [Next]_vars
  PROVE  OrderInv'
<1>1. SUFFICES ASSUME ~sig_exit' PROVE OrderInv'
  BY DEF OrderInv
<1>2. /\ TypeOK /\ DescriptorsInv /\ OwnInv /\ QuietInv /\ TargetsInv /\ SpeakersInv /\ PortsApart
      /\ PortInv /\ OrderInv
  BY DEF FfwdInv
<1>3. ASSUME UNCHANGED <<buffer, rest, targets, toCli, heard, conn, fd>>, ~sig_exit,
             Flowing' => Flowing /\ NextNr' = NextNr
      PROVE  OrderInv'
  BY <1>2, <1>3, OrderKept DEF Accepted
<1>4. CASE setup_socket
  <2>1. /\ UNCHANGED <<buffer, rest, targets, toCli, heard, fd, sig_exit, pending, said>>
        /\ conn' = [conn EXCEPT ![main] = "waiting"] \/ conn' = conn
        /\ toSrv' = [toSrv EXCEPT ![main] = <<>>] \/ toSrv' = toSrv
        /\ up' = [up EXCEPT ![main] = TRUE] \/ up' = up
        /\ main \in Own /\ main' = IF main = "ownmsg" THEN "ownctl" ELSE "loop"
    BY <1>2, <1>4, SetupIs DEF Reach, turn, tables, conns
  <2>2. toSrv'["ownmsg"] = toSrv["ownmsg"]
    <3>1. toSrv \in [Conn -> Seq(Bytes)] /\ "ownmsg" \in Conn /\ main \in {"ownmsg", "ownctl"}
      BY <1>2, <2>1, ConnFacts, TypeFacts
    <3>2. main = "ownmsg" => toSrv["ownmsg"] = <<>>
      BY <1>2 DEF OwnInv
    <3> QED
      BY <2>1, <3>1, <3>2
  <2>3. Flowing' => Flowing /\ NextNr' = NextNr
    <3>1. main = "ownctl" => up'["ownmsg"] = up["ownmsg"]
      BY <2>1, ConnFacts DEF TypeOK
    <3> QED
      BY <2>1, <2>2, <3>1, ConnFacts DEF Flowing, NextNr, Unread
  <2>4. \A c \in Client : Accepted(c)' => Accepted(c)
    BY <1>2, <2>1, ConnFacts DEF Accepted, TypeOK
  <2> QED
    BY <1>1, <1>2, <2>1, <2>3, <2>4, OrderKept
<1>5. CASE Forward \/ PortSays
  <2>1. UNCHANGED <<buffer, rest, targets, toCli, heard, conn, fd, sig_exit>>
    BY <1>5, ForwardIs DEF PortSays, turn, tables, conns
  <2>2. Flowing' => Flowing /\ NextNr' = NextNr
    BY <1>2, <1>5, WireKept
  <2> QED
    BY <1>1, <1>3, <2>1, <2>2
<1>6. CASE ReadCtl
  <2>1. /\ UNCHANGED <<main, buffer, rest, targets, up, toSrv, heard, conn, fd, sig_exit, pending, said>>
        /\ toCli' = [toCli EXCEPT !["ownctl"] = After(@, ReadSize)]
    BY <1>6 DEF ReadCtl, turn, tables, mainvars
  <2>2. Flowing' = Flowing /\ NextNr' = NextNr
    BY <2>1 DEF Flowing, NextNr, Unread
  <2>3. \A c \in Client : toCli'[c] = toCli[c] /\ heard'[c] = heard[c]
    BY <1>2, <2>1, ConnFacts, TypeFacts
  <2> QED
    BY <1>1, <1>2, <2>1, <2>2, <2>3, OrderKept DEF Accepted
<1>7. CASE stopSrv
  <2>1. /\ UNCHANGED <<buffer, rest, targets, toSrv, toCli, heard, fd, sig_exit, pending, said>>
        /\ main' = "close" /\ \A c \in Conn : Accepted(c)' => Accepted(c)
    BY <1>7 DEF stopSrv, turn, tables, Accepted
  <2>2. Flowing' => Flowing /\ NextNr' = NextNr
    BY <2>1, ConnFacts DEF Flowing, NextNr, Unread
  <2> QED
    BY <1>1, <1>2, <2>1, <2>2, ConnFacts, OrderKept
<1>8. CASE CloseOwn
  <2>1. /\ UNCHANGED <<buffer, rest, targets, conn, fd, sig_exit, pending, said>>
        /\ main' = "destroy" /\ HangUp(Own)
    BY <1>8 DEF CloseOwn, turn, tables
  <2>2. \A c \in Client : toCli'[c] = toCli[c] /\ heard'[c] = heard[c]
    BY <1>2, <2>1, ConnFacts, HangUpIs
  <2>3. toSrv'["ownmsg"] = toSrv["ownmsg"] \/ toSrv'["ownmsg"] = <<>>
    BY <1>2, <2>1, ConnFacts, HangUpIs
  <2>4. Flowing' => Flowing /\ NextNr' = NextNr
    BY <2>1, <2>3, ConnFacts DEF Flowing, NextNr, Unread
  <2> QED
    BY <1>1, <1>2, <2>1, <2>2, <2>4, OrderKept DEF Accepted
<1>9. CASE NextEvent
  <2>1. UNCHANGED <<main, pending, said, sig_exit>> /\ srv = "events"
    BY <1>2, <1>9, EventIs
  <2>2. ASSUME NEW c \in Conn, acceptClient(c) PROVE OrderInv'
    <3>1. PICK f \in Fd \ {1, 2} :
             /\ conn[c] = "waiting" /\ conn' = [conn EXCEPT ![c] = "accepted"]
             /\ fd' = [fd EXCEPT ![c] = f]
             /\ UNCHANGED <<up, toSrv, toCli, heard, buffer, rest, targets>>
      BY <1>2, <2>2, AcceptIs
    <3>2. Flowing' = Flowing /\ NextNr' = NextNr
      BY <2>1, <3>1 DEF Flowing, NextNr, Unread
    <3>3. toCli[c] = <<>> /\ heard[c] = 0
      BY <1>2, <3>1 DEF QuietInv, Accepted
    <3>4. \A n : ToldIn(toCli'[c], heard'[c], n)
      BY <3>1, <3>3, ToldNone
    <3>5. \A d \in Client : d # c => (Accepted(d)' => Accepted(d)) /\ fd'[d] = fd[d]
      BY <1>2, <3>1, ConnFacts DEF Accepted, TypeOK
    <3> QED
      BY <1>1, <1>2, <2>1, <3>1, <3>2, <3>4, <3>5, OrderKept
  <2>3. ASSUME NEW c \in Conn, fd[c] \in Fd, EpollCallback(c) PROVE OrderInv'
    BY <1>1, <2>1, <2>3, OrderCallback
  <2>4. CASE UNCHANGED <<conn, up, toSrv, toCli, heard, fd, buffer, rest, targets>>
    <3>1. Flowing' = Flowing /\ NextNr' = NextNr
      BY <2>1, <2>4 DEF Flowing, NextNr, Unread
    <3> QED
      BY <1>1, <1>3, <2>1, <2>4, <3>1
  <2> QED
    BY <1>2, <1>9, <2>2, <2>3, <2>4, EventIs
<1>10. CASE Send
  <2>1. UNCHANGED sig_exit
    BY <1>10 DEF Send, mainvars
  <2> QED
    BY <1>1, <1>10, <2>1, OrderSend
<1>11. CASE deadly_handler
  BY <1>1, <1>11 DEF deadly_handler
<1>12. ASSUME NEW c \in Client, Connect(c) PROVE OrderInv'
  <2>1. /\ UNCHANGED <<main, buffer, rest, targets, toCli, heard, fd, sig_exit, pending, said>>
        /\ conn' = [conn EXCEPT ![c] = "waiting"] /\ toSrv' = [toSrv EXCEPT ![c] = <<>>]
        /\ up' = [up EXCEPT ![c] = TRUE]
    BY <1>12 DEF Connect, Reach, turn, tables, mainvars
  <2>2. toSrv'["ownmsg"] = toSrv["ownmsg"] /\ up'["ownmsg"] = up["ownmsg"]
    BY <1>2, <2>1, ConnFacts, TypeFacts DEF TypeOK
  <2>3. Flowing' = Flowing /\ NextNr' = NextNr
    BY <2>1, <2>2 DEF Flowing, NextNr, Unread
  <2>4. \A d \in Client : Accepted(d)' => Accepted(d)
    BY <1>2, <2>1, ConnFacts DEF Accepted, TypeOK
  <2> QED
    BY <1>1, <1>2, <2>1, <2>3, <2>4, OrderKept
<1>13. ASSUME NEW c \in Client, Say(c) PROVE OrderInv'
  <2>1. /\ UNCHANGED <<main, buffer, rest, targets, up, toCli, heard, conn, fd, sig_exit, pending, said>>
        /\ toSrv' = [toSrv EXCEPT ![c] = Append(@, <<c, 0>>)]
    BY <1>13 DEF Say, turn, tables, mainvars
  <2>2. toSrv'["ownmsg"] = toSrv["ownmsg"]
    BY <1>2, <2>1, ConnFacts, TypeFacts
  <2>3. Flowing' = Flowing /\ NextNr' = NextNr
    BY <2>1, <2>2 DEF Flowing, NextNr, Unread
  <2> QED
    BY <1>1, <1>3, <2>1, <2>3
<1>14. ASSUME NEW c \in Client, Hear(c) PROVE OrderInv'
  <2>1. /\ UNCHANGED <<main, buffer, rest, targets, up, toSrv, conn, fd, sig_exit, pending, said>>
        /\ toCli' = [toCli EXCEPT ![c] = <<>>]
    BY <1>2, <1>14, HearIs
  <2>2. PICK n \in 0 .. Len(toCli[c]) :
             /\ LastIn(toCli[c], heard[c], n) /\ (n > 0 => NrIn(toCli[c], heard[c], n) > 0)
             /\ heard' = [heard EXCEPT ![c] = NrIn(toCli[c], heard[c], n)]
    BY <1>2, <1>14, HearIs
  <2>3. Flowing' = Flowing /\ NextNr' = NextNr
    BY <2>1 DEF Flowing, NextNr, Unread
  <2>4. c \in Conn /\ toCli[c] \in Seq(Bytes) /\ heard[c] \in Nat
    BY <1>2, ConnFacts, TypeFacts
  <2>5. toCli'[c] = <<>> /\ heard'[c] = NrIn(toCli[c], heard[c], n)
        /\ \A d \in Client : d # c => toCli'[d] = toCli[d] /\ heard'[d] = heard[d]
    BY <1>2, <2>1, <2>2, <2>4, ConnFacts DEF TypeOK
  <2>6. \A m : ToldIn(toCli[c], heard[c], m) => ToldIn(<<>>, NrIn(toCli[c], heard[c], n), m)
    <3> TAKE m
    <3> HAVE ToldIn(toCli[c], heard[c], m)
    <3>1. NrIn(toCli[c], heard[c], n) > 0 => Follows(NrIn(toCli[c], heard[c], n), m)
      BY <2>2 DEF ToldIn
    <3>2. \A l \in 0 .. Len(<<>>) : NrIn(<<>>, NrIn(toCli[c], heard[c], n), l) = NrIn(toCli[c], heard[c], n)
      BY EmptySeq DEF NrIn
    <3> QED
      BY <3>1, <3>2 DEF ToldIn
  <2>7. InOrder(<<>>, NrIn(toCli[c], heard[c], n))
    BY ToldNone
  <2>8. \A d \in Client : InOrder(toCli[d], heard[d]) => InOrder(toCli'[d], heard'[d])
    BY <2>5, <2>7
  <2>9. \A d \in Client : \A m : ToldIn(toCli[d], heard[d], m) => ToldIn(toCli'[d], heard'[d], m)
    BY <2>5, <2>6
  <2> QED
    BY <1>1, <1>2, <2>1, <2>3, <2>8, <2>9, OrderKept DEF Accepted
<1>15. ASSUME NEW c \in Client, Disconnect(c) PROVE OrderInv'
  <2>1. /\ UNCHANGED <<main, buffer, rest, targets, conn, fd, sig_exit, pending, said>>
        /\ HangUp({c})
    BY <1>15 DEF Disconnect, turn, tables, mainvars
  <2>2. toSrv'["ownmsg"] = toSrv["ownmsg"] /\ up'["ownmsg"] = up["ownmsg"]
    <3>1. "ownmsg" \in Conn /\ "ownmsg" \notin {c} /\ up["ownmsg"] \in BOOLEAN
      BY <1>2, ConnFacts DEF TypeOK
    <3>2. toSrv'["ownmsg"] = toSrv["ownmsg"]
      BY <1>2, <2>1, <3>1, HangUpIs
    <3>3. up'["ownmsg"] = (up["ownmsg"] /\ "ownmsg" \notin {c})
      BY <1>2, <2>1, <3>1, HangUpIs
    <3> QED
      BY <3>1, <3>2, <3>3, Zenon
  <2>3. Flowing' = Flowing /\ NextNr' = NextNr
    BY <2>1, <2>2 DEF Flowing, NextNr, Unread
  <2>4. \A d \in Client : \/ toCli'[d] = toCli[d] /\ heard'[d] = heard[d]
                          \/ toCli'[d] = <<>> /\ heard'[d] = 0
    BY <1>2, <2>1, ConnFacts, HangUpIs
  <2>5. \A d \in Client : InOrder(toCli[d], heard[d]) => InOrder(toCli'[d], heard'[d])
    BY <2>4, ToldNone
  <2>6. \A d \in Client : \A n : ToldIn(toCli[d], heard[d], n) => ToldIn(toCli'[d], heard'[d], n)
    BY <2>4, ToldNone
  <2> QED
    BY <1>1, <1>2, <2>1, <2>3, <2>5, <2>6, OrderKept DEF Accepted
<1>16. CASE startSrv \/ EndLoop \/ DestroyEpoll \/ Finish \/ UseDestroyed \/ EpollWait \/ UNCHANGED vars
  <2>1. UNCHANGED <<buffer, rest, targets, up, toSrv, toCli, heard, conn, fd, sig_exit, pending, said>>
    BY <1>16 DEF startSrv, EndLoop, DestroyEpoll, Finish, UseDestroyed, EpollWait, vars, mainvars, conns,
                 tables, turn
  <2>2. main' = main \/ main = "start" \/ main' \in {"stop", "cleanup", "done", "aborted"}
    BY <1>16 DEF startSrv, EndLoop, DestroyEpoll, Finish, UseDestroyed, EpollWait, vars, mainvars
  <2>3. Flowing' => Flowing /\ NextNr' = NextNr
    BY <2>1, <2>2, ConnFacts DEF Flowing, NextNr, Unread
  <2> QED
    BY <1>1, <1>3, <2>1, <2>3
<1> QED
  BY <1>4, <1>5, <1>6, <1>7, <1>8, <1>9, <1>10, <1>11, <1>12, <1>13, <1>14, <1>15, <1>16, NextIs

-----------------------------------------------------------------------------
(* FfwdInv is inductive.                                                   *)
THEOREM FfwdInvHolds == Spec => []FfwdInv
<1>1. FfwdInv /\ [Next]_vars => FfwdInv'
  <2> SUFFICES ASSUME FfwdInv, [Next]_vars PROVE FfwdInv'
    OBVIOUS
  <2>1. /\ TypeOK /\ DescriptorsInv /\ OwnInv /\ QuietInv /\ TargetsInv /\ SpeakersInv /\ PortsApart
        /\ PortInv /\ OrderInv
    BY DEF FfwdInv
  <2>2. SpokenInv /\ BufferInv
    BY <2>1 DEF SpeakersInv
  <2>3. TypeOK'
    BY <2>1, TypeStep
  <2>4. DescriptorsInv'
    BY <2>1, DescriptorsStep
  <2>5. OwnInv'
    BY <2>1, OwnStep
  <2>6. QuietInv'
    BY <2>1, QuietStep
  <2>7. TargetsInv'
    BY <2>1, <2>4, TargetsStep
  <2>8. SpokenInv'
    BY <2>1, <2>2, SpokenStep
  <2>9. BufferInv'
    BY <2>1, <2>2, <2>3, <2>4, BufferStep
  <2>10. PortsApart' /\ \A c \in Conn : Port(c) = "ctl" => heard'[c] = 0
    BY <2>1, ApartStep
  <2>11. PortInv'
    BY <2>1, PortStep
  <2>12. OrderInv'
    BY <2>3, <2>4, OrderStep
  <2>13. SpeakersInv'
    BY <2>8, <2>9, <2>10 DEF SpeakersInv
  <2> QED
    BY <2>3, <2>4, <2>5, <2>6, <2>7, <2>10, <2>11, <2>12, <2>13 DEF FfwdInv
<1> QED
  BY <1>1, InitInv, PTL DEF Spec

(* Of any clients and capacities: the state of both threads, what is in    *)
(* the sockets and never more than they hold, and the tables are of their  *)
(* types.                                                                  *)
THEOREM FfwdTypes == Spec => []TypeOK
<1>1. FfwdInv => TypeOK
  BY DEF FfwdInv
<1> QED
  BY <1>1, FfwdInvHolds, PTL

(* Epoll's callbacks, the lists of SocketServer and the open descriptors   *)
(* agree between two callbacks.                                            *)
THEOREM TablesAlwaysAgree == Spec => []TablesAgree
<1>1. FfwdInv => TablesAgree
  <2> SUFFICES ASSUME TypeOK, DescriptorsInv PROVE TablesAgree
    BY DEF FfwdInv
  <2>1. \A p \in Ports : \A i, j \in DOMAIN client_fds[p] : i # j => client_fds[p][i] # client_fds[p][j]
    BY DEF DescriptorsInv, Once
  <2>2. ASSUME NEW f \in Fd \ {1, 2}
        PROVE  cbs[f] # "none" <=> \E c \in Conn : /\ conn[c] = "accepted" /\ fd[c] = f
                                                   /\ Port(c) = cbs[f]
    <3>1. CASE cbs[f] = "none" /\ \A c \in Conn : fd[c] # f
      BY <3>1
    <3>2. CASE \E c \in Conn : Accepted(c) /\ fd[c] = f /\ cbs[f] = Port(c)
      BY <3>2, ConnFacts DEF Ports, Accepted
    <3> QED
      BY <3>1, <3>2 DEF DescriptorsInv
  <2>3. ASSUME NEW p \in Ports
        PROVE  {client_fds[p][i] : i \in DOMAIN client_fds[p]} = {f \in Fd : cbs[f] = p}
    <3>1. \A f \in Fd : In(client_fds[p], f) <=> \E c \in Conn : Accepted(c) /\ Port(c) = p /\ fd[c] = f
      BY DEF DescriptorsInv
    <3>2. \A f \in Fd : (\E c \in Conn : Accepted(c) /\ Port(c) = p /\ fd[c] = f) <=> cbs[f] = p
      <4> TAKE f \in Fd
      <4>1. CASE f \in {1, 2}
        <5>1. cbs[f] # p
          BY <4>1 DEF DescriptorsInv, Ports
        <5>2. \A c \in Conn : Accepted(c) => fd[c] # f
          BY <4>1 DEF DescriptorsInv
        <5> QED
          BY <5>1, <5>2
      <4>2. CASE f \notin {1, 2} /\ cbs[f] = "none" /\ \A c \in Conn : fd[c] # f
        BY <4>2 DEF Ports
      <4>3. CASE f \notin {1, 2} /\ \E c \in Conn : Accepted(c) /\ fd[c] = f /\ cbs[f] = Port(c)
        BY <4>3 DEF DescriptorsInv
      <4> QED
        BY <4>1, <4>2, <4>3 DEF DescriptorsInv
    <3>3. \A i \in DOMAIN client_fds[p] : client_fds[p][i] \in Fd
      BY TypeFacts, LenProperties, ElementOfSeq
    <3> QED
      BY <3>1, <3>2, <3>3 DEF In
  <2> QED
    BY <2>1, <2>2, <2>3 DEF TablesAgree, Ports
<1> QED
  BY <1>1, FfwdInvHolds, PTL

(* What the callbacks write reaches the other clients of the same port     *)
(* and, from the port of ppcom, those of the message port.                 *)
THEOREM PortsStayApart == Spec => []PortsApart
<1>1. FfwdInv => PortsApart
  BY DEF FfwdInv
<1> QED
  BY <1>1, FfwdInvHolds, PTL

(* What loop() forwards is heard in order, once and without a gap, over    *)
(* both sockets, short writes and the clients that come and go.            *)
THEOREM AlwaysHeardInOrder == Spec => []HeardInOrder
<1>1. FfwdInv => HeardInOrder
  BY HeardIs DEF FfwdInv, OrderInv
<1> QED
  BY <1>1, FfwdInvHolds, PTL
=============================================================================
