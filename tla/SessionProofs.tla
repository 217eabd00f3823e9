---------------------------- MODULE SessionProofs ----------------------------
(***************************************************************************)
(* Theorems about the main loop, for any bytes, keys, maps and sizes, any  *)
(* input and any mix of failing calls: the queue stays in its buffer and   *)
(* in order, and the end of the input does not lose what was accepted.     *)
(***************************************************************************)
EXTENDS Session, LeastElement, SequenceTheorems, FiniteSetTheorems

-----------------------------------------------------------------------------
(* A read, or a write, takes the front of a sequence and no more than it.  *)
LEMMA FrontTyped ==
  ASSUME NEW S, NEW s \in Seq(S), NEW n \in Int
  PROVE  /\ Front(s, n) \in Seq(S)
         /\ Len(Front(s, n)) <= Len(s)
<1> DEFINE k == Least(n, Len(s))
<1>1. k \in Int /\ k <= Len(s)
  BY DEF Least
<1>2. \A i \in 1 .. k : s[i] \in S
  BY <1>1, ElementOfSeq
<1> HIDE DEF k
<1>3. SubSeq(s, 1, k) \in Seq(S) /\ Len(SubSeq(s, 1, k)) = IF 1 <= k THEN k - 1 + 1 ELSE 0
  BY <1>1, <1>2, SubSeqProperties
<1> QED
  BY <1>1, <1>3 DEF Front, k

(* What a read or a write leaves.                                          *)
LEMMA AfterTyped ==
  ASSUME NEW S, NEW s \in Seq(S), NEW n \in Nat
  PROVE  /\ After(s, n) \in Seq(S)
         /\ Len(After(s, n)) <= Len(s)
<1>1. \A i \in n + 1 .. Len(s) : s[i] \in S
  BY ElementOfSeq
<1>2. /\ SubSeq(s, n + 1, Len(s)) \in Seq(S)
      /\ Len(SubSeq(s, n + 1, Len(s))) = IF n + 1 <= Len(s) THEN Len(s) - (n + 1) + 1 ELSE 0
  BY <1>1, SubSeqProperties
<1> QED
  BY <1>2 DEF After

(* Nothing is lost or doubled where a sequence is cut.                     *)
LEMMA CutInTwo ==
  ASSUME NEW S, NEW s \in Seq(S), NEW n \in 1 .. Len(s)
  PROVE  Front(s, n) \o After(s, n) = s
<1>1. Front(s, n) = SubSeq(s, 1, n)
  BY DEF Front, Least
<1>2. SubSeq(s, 1, n) \o SubSeq(s, n + 1, Len(s)) = SubSeq(s, 1, Len(s))
  <2>1. 1 \in 1 .. Len(s) + 1 /\ n \in 1 - 1 .. Len(s) /\ Len(s) \in n .. Len(s)
    OBVIOUS
  <2> QED
    BY <2>1, ConcatAdjacentSubSeq
<1> QED
  BY <1>1, <1>2, SubSeqFull DEF After

(* The next byte of a sequence of bytes, and those after it.               *)
LEMMA TailTyped ==
  ASSUME NEW S, NEW s \in Seq(S), s # <<>>
  PROVE  Head(s) \in S /\ Tail(s) \in Seq(S) /\ Len(Tail(s)) <= Len(s)
BY HeadTailProperties

(* The first line of what the control socket sent.                         *)
LEMMA FirstLineTyped ==
  ASSUME NEW s \in Seq(Byte)
  PROVE  FirstLine(s) \in Seq(Byte)
<1> DEFINE ends == {i \in DOMAIN s : s[i] \in Newline \cup Nul}
           i == CHOOSE i \in ends : \A j \in ends : i <= j
<1>1. ends \in SUBSET Nat
  OBVIOUS
<1>2. CASE ends = {}
  BY <1>2 DEF FirstLine
<1>3. CASE ends # {}
  <2>1. \E k \in ends : \A j \in ends : k <= j
    <3> HIDE DEF ends
    <3> QED
      BY <1>1, <1>3, LeastNat
  <2>2. i \in Int
    BY <1>1, <2>1
  <2>3. FirstLine(s) = Front(s, IF s[i] \in Nul THEN i - 1 ELSE i)
    BY <1>3 DEF FirstLine
  <2> HIDE DEF i
  <2> QED
    BY <2>2, <2>3, FrontTyped
<1> QED
  BY <1>2, <1>3
-----------------------------------------------------------------------------
(* The queue.                                                              *)
QueueInv == /\ buf \in Seq(Byte) /\ due \in Seq(Byte) /\ sent \in Seq(Byte)
            /\ size \in Nat /\ TTY_Q_SZ_MIN <= size
            /\ QueueInBounds
            /\ PortGetsWhatWasAccepted

(* What the assumptions say of the sizes.                                  *)
LEMMA Sizes ==
  /\ M_MAXMAP \in Nat /\ TTY_Q_SZ_MIN \in Nat /\ TTY_Q_SZ \in Nat
  /\ M_MAXMAP <= TTY_Q_SZ_MIN
  /\ TTY_Q_SZ # 0 => TTY_Q_SZ_MIN <= TTY_Q_SZ
  /\ Len(InitString) <= TTY_Q_SZ_MIN
BY SessionAssumption

(* A buffer that is too small for a mapped byte is not after doubling.     *)
LEMMA DoublingIsEnough ==
  ASSUME Len(buf) \in Nat, size \in Nat, TTY_Q_SZ_MIN <= size, Len(buf) <= size
  PROVE  Grown \in Nat /\ size <= Grown /\ Len(buf) + M_MAXMAP <= Grown
<1>1. CASE Fits(size)
  BY <1>1, Sizes DEF Fits, Grown
<1>2. CASE ~Fits(size)
  <2>1. Grown = 2 * size
    BY <1>2 DEF Grown
  <2> QED
    BY <2>1, Sizes
<1> QED
  BY <1>1, <1>2

(* Appending to the queue appends to what is due.                          *)
LEMMA Regroup ==
  ASSUME NEW s \in Seq(Byte), NEW t \in Seq(Byte), NEW u \in Seq(Byte)
  PROVE  s \o (t \o u) = (s \o t) \o u
BY ConcatAssociative

(* tty_q_push() of one byte, wherever it is called from.                   *)
LEMMA PushKeepsQueue ==
  ASSUME QueueInv, NEW b \in Byte, NEW place, tty_q_push(b, place), sent' = sent
  PROVE  QueueInv'
<1>0. /\ buf \in Seq(Byte) /\ due \in Seq(Byte) /\ sent \in Seq(Byte)
      /\ size \in Nat /\ TTY_Q_SZ_MIN <= size /\ Len(buf) <= size
      /\ TTY_Q_SZ # 0 => size <= TTY_Q_SZ
      /\ sent \o buf = due
  BY DEF QueueInv, QueueInBounds, PortGetsWhatWasAccepted
<1>1. OutMap[b] \in Seq(Byte) /\ Len(OutMap[b]) <= M_MAXMAP
  BY SessionAssumption
<1>2. CASE /\ Fits(size) \/ MayGrow
           /\ buf' = buf \o OutMap[b] /\ size' = Grown /\ due' = due \o OutMap[b]
  <2>1. buf' \in Seq(Byte) /\ due' \in Seq(Byte) /\ Len(buf') = Len(buf) + Len(OutMap[b])
    BY <1>0, <1>1, <1>2, ConcatProperties
  <2>2. sent' \o buf' = due'
    <3>1. sent \o (buf \o OutMap[b]) = (sent \o buf) \o OutMap[b]
      BY <1>0, <1>1, Regroup
    <3> QED
      BY <1>0, <1>2, <3>1
  <2>3. size' \in Nat /\ size <= size' /\ Len(buf) + M_MAXMAP <= size'
    <3>1. Len(buf) \in Nat
      BY <1>0
    <3> QED
      BY <1>0, <1>2, <3>1, DoublingIsEnough
  <2>4. TTY_Q_SZ # 0 => size' <= TTY_Q_SZ
    BY Sizes, <1>0, <1>2 DEF Grown, MayGrow
  <2>5. Len(buf') <= size' /\ TTY_Q_SZ_MIN <= size'
    <3>1. Len(buf) \in Nat /\ Len(OutMap[b]) \in Nat
      BY <1>0, <1>1
    <3> QED
      BY Sizes, <1>0, <1>1, <2>1, <2>3, <3>1
  <2> QED
    BY <1>0, <2>1, <2>2, <2>3, <2>4, <2>5 DEF QueueInv, QueueInBounds, PortGetsWhatWasAccepted
<1>3. CASE UNCHANGED <<buf, size, due>>
  BY <1>0, <1>3 DEF QueueInv, QueueInBounds, PortGetsWhatWasAccepted
<1> QED
  BY <1>2, <1>3 DEF tty_q_push

(* A change of the port settings empties it.                               *)
LEMMA DropKeepsQueue ==
  ASSUME QueueInv, DropQueue, size' = size
  PROVE  QueueInv'
<1>1. buf' = <<>> /\ sent' = <<>> /\ due' = <<>>
  BY DEF DropQueue
<1>2. <<>> \in Seq(Byte) /\ Len(<<>>) = 0 /\ <<>> \o <<>> = <<>>
  OBVIOUS
<1> QED
  BY <1>1, <1>2 DEF QueueInv, QueueInBounds, PortGetsWhatWasAccepted

(* Most steps leave the queue alone.                                       *)
LEMMA QueueUnchanged ==
  ASSUME QueueInv, UNCHANGED <<buf, size, due, sent>>
  PROVE  QueueInv'
BY DEF QueueInv, QueueInBounds, PortGetsWhatWasAccepted

(* A write(2), short or not, moves the front of the queue to the port.     *)
LEMMA WriteKeepsQueue ==
  ASSUME QueueInv, UNCHANGED <<size, due>>, NEW k \in 1 .. Len(buf),
         sent' = sent \o Front(buf, k), buf' = After(buf, k)
  PROVE  QueueInv'
<1>0. /\ buf \in Seq(Byte) /\ due \in Seq(Byte) /\ sent \in Seq(Byte)
      /\ size \in Nat /\ TTY_Q_SZ_MIN <= size /\ Len(buf) <= size
      /\ TTY_Q_SZ # 0 => size <= TTY_Q_SZ
      /\ sent \o buf = due
  BY DEF QueueInv, QueueInBounds, PortGetsWhatWasAccepted
<1>1. Front(buf, k) \in Seq(Byte)
  BY <1>0, FrontTyped
<1>2. After(buf, k) \in Seq(Byte) /\ Len(After(buf, k)) <= Len(buf)
  BY <1>0, AfterTyped
<1>3. sent' \in Seq(Byte)
  BY <1>0, <1>1, ConcatProperties
<1>4. sent' \o buf' = due
  <2>1. (sent \o Front(buf, k)) \o After(buf, k) = sent \o (Front(buf, k) \o After(buf, k))
    BY <1>0, <1>1, <1>2, Regroup
  <2>2. Front(buf, k) \o After(buf, k) = buf
    BY <1>0, CutInTwo
  <2> QED
    BY <1>0, <2>1, <2>2
<1>5. Len(buf') <= size
  BY <1>0, <1>2
<1> QED
  BY <1>0, <1>2, <1>3, <1>4, <1>5 DEF QueueInv, QueueInBounds, PortGetsWhatWasAccepted

-----------------------------------------------------------------------------
(* Every step of the loop and of its environment keeps it.                 *)
LEMMA QueueStep ==
  ASSUME QueueInv, TypeOK, Next
  PROVE  QueueInv'
<1>1. CASE Check \/ EnterSelect \/ Select \/ ReadStdin \/ PromptByte \/ PromptCancel \/ ReadPort
             \/ ReadCtl \/ Input \/ PeerResumes \/ deadly_handler
  <2>1. UNCHANGED <<buf, size, due, sent>>
    BY <1>1 DEF Check, EnterSelect, Select, ReadStdin, PromptByte, PromptCancel, ReadPort, ReadCtl,
             Input, PeerResumes, deadly_handler, history, loopvars
  <2> QED
    BY <2>1, QueueUnchanged
<1>2. CASE StdinByte
  <2>1. CASE rd = <<>>
    BY <1>2, <2>1, QueueUnchanged DEF StdinByte
  <2>2. CASE rd # <<>>
    <3>1. Head(rd) \in Byte
      BY <2>2, TailTyped DEF TypeOK
    <3>2. CASE IntoCommandMode(Head(rd))
      BY <3>2, QueueUnchanged DEF IntoCommandMode
    <3>3. CASE DataByte(Head(rd))
      BY <3>1, <3>3, PushKeepsQueue DEF DataByte
    <3>4. CASE do_command(Head(rd))
      <4>1. size' = size
        BY <3>4 DEF do_command
      <4>2. DropQueue \/ UNCHANGED <<buf, due, sent>>
        BY <3>4 DEF do_command
      <4> QED
        BY <4>1, <4>2, DropKeepsQueue, QueueUnchanged
    <3> QED
      BY <1>2, <2>2, <3>2, <3>3, <3>4 DEF StdinByte
  <2> QED
    BY <2>1, <2>2
<1>3. CASE PromptReturn
  <2>1. size' = size
    BY <1>3 DEF PromptReturn
  <2>2. DropQueue \/ UNCHANGED <<buf, due, sent>>
    BY <1>3 DEF PromptReturn
  <2> QED
    BY <2>1, <2>2, DropKeepsQueue, QueueUnchanged
<1>4. CASE HexByte
  <2>1. sent' = sent
    BY <1>4 DEF HexByte
  <2>2. CASE line = <<>>
    BY <1>4, <2>2, QueueUnchanged DEF HexByte
  <2>3. CASE line # <<>>
    <3>1. Head(line) \in Byte
      BY <2>3, TailTyped DEF TypeOK
    <3> QED
      BY <1>4, <2>1, <2>3, <3>1, PushKeepsQueue DEF HexByte
  <2> QED
    BY <2>2, <2>3
<1>5. CASE CtlByte
  <2>1. sent' = sent
    BY <1>5 DEF CtlByte
  <2>2. CASE rd = <<>>
    BY <1>5, <2>2, QueueUnchanged DEF CtlByte
  <2>3. CASE rd # <<>>
    <3>1. Head(rd) \in Byte
      BY <2>3, TailTyped DEF TypeOK
    <3> QED
      BY <1>5, <2>1, <2>3, <3>1, PushKeepsQueue DEF CtlByte
  <2> QED
    BY <2>2, <2>3
<1>6. CASE WritePort
  <2>1. UNCHANGED <<size, due>>
    BY <1>6 DEF WritePort
  <2>2. CASE UNCHANGED <<buf, sent>>
    BY <2>1, <2>2, QueueUnchanged
  <2>3. CASE ~UNCHANGED <<buf, sent>>
    <3>1. PICK k \in 1 .. Least(Len(buf), WriteSize) :
            sent' = sent \o Front(buf, k) /\ buf' = After(buf, k)
      BY <1>6, <2>3 DEF WritePort
    <3>2. k \in 1 .. Len(buf)
      BY SessionAssumption DEF Least, QueueInv
    <3> QED
      BY <2>1, <3>1, <3>2, WriteKeepsQueue
  <2> QED
    BY <2>2, <2>3
<1> QED
  BY <1>1, <1>2, <1>3, <1>4, <1>5, <1>6 DEF Next, Loop

-----------------------------------------------------------------------------
(* The bytes read and not handled, and those that wait to be read.         *)
BytesInv == /\ rd \in Seq(Byte) /\ typed \in Seq(Byte) /\ ctl \in Seq(Byte)
            /\ line \in Seq(Byte) /\ Len(line) <= MaxLine

(* Many steps read and handle nothing.                                     *)
LEMMA BytesUnchanged ==
  ASSUME BytesInv, UNCHANGED <<rd, typed, ctl, line>>
  PROVE  BytesInv'
BY DEF BytesInv

(* A prompt starts empty.                                                  *)
LEMMA EmptyLine == <<>> \in Seq(Byte) /\ Len(<<>>) <= MaxLine
BY SessionAssumption

(* A prompt holds MaxLine bytes.                                           *)
LEMMA EnteredTyped ==
  ASSUME BytesInv, NEW b \in Byte
  PROVE  Entered(b) \in Seq(Byte) /\ Len(Entered(b)) <= MaxLine
<1>0. line \in Seq(Byte) /\ Len(line) <= MaxLine /\ MaxLine \in Nat /\ Len(line) \in Nat
  BY SessionAssumption DEF BytesInv
<1>1. Front(line, Len(line) - 1) \in Seq(Byte) /\ Len(Front(line, Len(line) - 1)) <= Len(line)
  BY <1>0, FrontTyped
<1>1a. Len(Front(line, Len(line) - 1)) \in Nat
  BY <1>1
<1>2. Append(line, b) \in Seq(Byte) /\ Len(Append(line, b)) = Len(line) + 1
  BY <1>0, AppendProperties
<1> QED
  BY <1>0, <1>1, <1>1a, <1>2 DEF Entered

(* One more byte arrives.                                                  *)
LEMMA AppendTyped ==
  ASSUME NEW s \in Seq(Byte), NEW b \in Byte
  PROVE  Append(s, b) \in Seq(Byte) /\ Append(s, b) # <<>>
BY AppendProperties

(* Bytes come from the terminal and the control socket, and go one by one. *)
LEMMA BytesStep ==
  ASSUME BytesInv, Next
  PROVE  BytesInv'
<1>0. /\ rd \in Seq(Byte) /\ typed \in Seq(Byte) /\ ctl \in Seq(Byte)
      /\ line \in Seq(Byte) /\ Len(line) <= MaxLine
  BY DEF BytesInv
<1>1. CASE Check \/ EnterSelect \/ Select \/ ReadPort \/ WritePort \/ PeerResumes \/ deadly_handler
  BY <1>1, BytesUnchanged DEF Check, EnterSelect, Select, ReadPort, WritePort, PeerResumes,
     deadly_handler, envvars, loopvars
<1>2. CASE ReadStdin
  <2>1. UNCHANGED <<ctl, line>>
    BY <1>2 DEF ReadStdin
  <2>2. CASE UNCHANGED <<rd, typed>>
    BY <2>1, <2>2, BytesUnchanged
  <2>3. CASE rd' = Front(typed, STI_RD_SZ) /\ typed' = After(typed, STI_RD_SZ)
    <3>1. STI_RD_SZ \in Nat
      BY SessionAssumption
    <3> QED
      BY <1>0, <2>1, <2>3, <3>1, FrontTyped, AfterTyped DEF BytesInv
  <2> QED
    BY <1>2, <2>2, <2>3 DEF ReadStdin
<1>3. CASE StdinByte
  <2>1. UNCHANGED <<typed, ctl>>
    BY <1>3 DEF StdinByte, envvars
  <2>2. rd' = rd \/ (rd # <<>> /\ rd' = Tail(rd))
    BY <1>3 DEF StdinByte, IntoCommandMode, DataByte, do_command, Handled
  <2>3. line' = line \/ line' = <<>>
    BY <1>3 DEF StdinByte, IntoCommandMode, DataByte, do_command
  <2>4. rd' \in Seq(Byte)
    BY <1>0, <2>2, TailTyped
  <2> QED
    BY <1>0, <2>1, <2>3, <2>4, EmptyLine DEF BytesInv
<1>4. CASE PromptByte
  <2>1. UNCHANGED <<rd, ctl>> /\ typed # <<>> /\ typed' = Tail(typed) /\ line' = Entered(Head(typed))
    BY <1>4 DEF PromptByte
  <2>2. Head(typed) \in Byte /\ typed' \in Seq(Byte)
    BY <1>0, <2>1, TailTyped
  <2> QED
    BY <1>0, <2>1, <2>2, EnteredTyped DEF BytesInv
<1>5. CASE PromptCancel
  <2>1. UNCHANGED <<rd, ctl, line>>
    BY <1>5 DEF PromptCancel
  <2>2. typed' = typed \/ (typed # <<>> /\ typed' = Tail(typed))
    BY <1>5 DEF PromptCancel
  <2> QED
    BY <1>0, <2>1, <2>2, TailTyped DEF BytesInv
<1>6. CASE PromptReturn
  <2>1. UNCHANGED <<rd, ctl>> /\ typed # <<>> /\ typed' = Tail(typed)
    BY <1>6 DEF PromptReturn
  <2>2. line' = line \/ line' = <<>>
    BY <1>6 DEF PromptReturn
  <2> QED
    BY <1>0, <2>1, <2>2, TailTyped, EmptyLine DEF BytesInv
<1>7. CASE HexByte
  <2>1. UNCHANGED <<rd, typed, ctl>>
    BY <1>7 DEF HexByte, envvars
  <2>2. line' = line \/ line' = <<>> \/ (line # <<>> /\ line' = Tail(line))
    BY <1>7 DEF HexByte
  <2>3. line' \in Seq(Byte) /\ Len(line') <= MaxLine
    <3>1. CASE line' = line \/ line' = <<>>
      BY <1>0, <3>1, EmptyLine
    <3>2. CASE line # <<>> /\ line' = Tail(line)
      <4>1. line' \in Seq(Byte) /\ Len(line') = Len(line) - 1
        BY <1>0, <3>2, HeadTailProperties
      <4> QED
        BY <1>0, <4>1, SessionAssumption
    <3> QED
      BY <2>2, <3>1, <3>2
  <2> QED
    BY <1>0, <2>1, <2>3 DEF BytesInv
<1>8. CASE ReadCtl
  <2>1. UNCHANGED <<typed, line>>
    BY <1>8 DEF ReadCtl
  <2>2. CASE UNCHANGED <<rd, ctl>>
    BY <2>1, <2>2, BytesUnchanged
  <2>3. CASE rd' = FirstLine(Front(ctl, CtlReadSize)) /\ ctl' = After(ctl, CtlReadSize)
    <3>1. CtlReadSize \in Nat
      BY SessionAssumption
    <3>2. Front(ctl, CtlReadSize) \in Seq(Byte) /\ After(ctl, CtlReadSize) \in Seq(Byte)
      BY <1>0, <3>1, FrontTyped, AfterTyped
    <3> QED
      BY <1>0, <2>1, <2>3, <3>2, FirstLineTyped DEF BytesInv
  <2> QED
    BY <1>8, <2>2, <2>3 DEF ReadCtl
<1>9. CASE CtlByte
  <2>1. UNCHANGED <<typed, ctl, line>>
    BY <1>9 DEF CtlByte, envvars
  <2>2. rd' = rd \/ (rd # <<>> /\ rd' = Tail(rd))
    BY <1>9 DEF CtlByte
  <2> QED
    BY <1>0, <2>1, <2>2, TailTyped DEF BytesInv
<1>10. CASE Input
  <2>1. UNCHANGED <<rd, line>>
    BY <1>10 DEF Input, loopvars
  <2>2. typed' = typed \/ \E b \in Byte : typed' = Append(typed, b)
    BY <1>10 DEF Input
  <2>3. ctl' = ctl \/ \E b \in Byte : ctl' = Append(ctl, b)
    BY <1>10 DEF Input
  <2>4. typed' \in Seq(Byte)
    BY <1>0, <2>2, AppendTyped
  <2>5. ctl' \in Seq(Byte)
    BY <1>0, <2>3, AppendTyped
  <2> QED
    BY <1>0, <2>1, <2>4, <2>5 DEF BytesInv
<1> QED
  BY <1>1, <1>2, <1>3, <1>4, <1>5, <1>6, <1>7, <1>8, <1>9, <1>10 DEF Next, Loop

-----------------------------------------------------------------------------
(* What has been handled: two histories that only StdinByte appends to.    *)
HistoryInv == raw \in Seq(Byte) /\ did \in Seq({"data", "command"} \X Byte)

(* Handled() appends to both.                                              *)
LEMMA HistoryStep ==
  ASSUME HistoryInv, BytesInv, Next
  PROVE  HistoryInv'
<1> DEFINE Done == {"data", "command"} \X Byte
<1>1. CASE UNCHANGED <<raw, did>>
  BY <1>1 DEF HistoryInv
<1>2. ASSUME NEW b \in Byte, NEW what \in Seq(Done), Handled(b, what)
      PROVE  HistoryInv'
  <2>1. raw' \in Seq(Byte)
    BY <1>2, AppendTyped DEF Handled, HistoryInv
  <2>2. did' \in Seq(Done)
    <3>1. did \in Seq(Done) /\ did' = did \o what
      BY <1>2 DEF Handled, HistoryInv
    <3> HIDE DEF Done
    <3> QED
      BY <1>2, <3>1, ConcatProperties
  <2> QED
    BY <2>1, <2>2 DEF HistoryInv
<1>3. CASE StdinByte /\ rd # <<>>
  <2> DEFINE b == Head(rd)
  <2>1. b \in Byte
    BY <1>3, TailTyped DEF BytesInv
  <2>2. <<>> \in Seq(Done) /\ <<<<"data", b>>>> \in Seq(Done) /\ <<<<"command", b>>>> \in Seq(Done)
    BY <2>1
  <2>3. Handled(b, <<>>) \/ Handled(b, <<<<"data", b>>>>) \/ Handled(b, <<<<"command", b>>>>)
    BY <1>3 DEF StdinByte, IntoCommandMode, DataByte, do_command
  <2> HIDE DEF b, Done
  <2> QED
    BY <1>2, <2>1, <2>2, <2>3
<1>4. CASE StdinByte /\ rd = <<>>
  BY <1>1, <1>4 DEF StdinByte
<1>5. CASE Check \/ EnterSelect \/ Select \/ ReadStdin \/ PromptByte \/ PromptCancel \/ PromptReturn
             \/ HexByte \/ ReadPort \/ WritePort \/ ReadCtl \/ CtlByte \/ Input \/ PeerResumes
             \/ deadly_handler
  BY <1>1, <1>5 DEF Check, EnterSelect, Select, ReadStdin, PromptByte, PromptCancel, PromptReturn,
     HexByte, ReadPort, WritePort, ReadCtl, CtlByte, Input, PeerResumes, deadly_handler, history
<1> QED
  BY <1>3, <1>4, <1>5 DEF Next, Loop

-----------------------------------------------------------------------------
(* The state of the loop and of its environment, but for the bytes.        *)
ControlInv ==
  /\ pc \in Places /\ state \in {"TRANSPARENT", "COMMAND"}
  /\ exit_after \in BOOLEAN /\ stdin_closed \in BOOLEAN /\ sig_exit \in BOOLEAN
  /\ noreset \in BOOLEAN /\ lecho \in BOOLEAN /\ nonblock \in BOOLEAN
  /\ eof \in BOOLEAN /\ flowing \in BOOLEAN /\ failed \in BOOLEAN
  /\ ask \in {"hex", "baud", "file"}
  /\ ready \subseteq {"stdin", "port", "ctl", "write"}
  /\ ler \in {"none", "LE_CMD", "LE_IDLE", "LE_STDIN", "LE_SIGNAL", "FATAL", "ABORT"}
  /\ fromPort \in Nat /\ left \in Budget
  /\ caught \in Places \cup {"nowhere"}

(* The flags are set, cleared or switched, never anything else.            *)
LEMMA FlagStep ==
  ASSUME ControlInv, Next
  PROVE  /\ exit_after' = exit_after
         /\ stdin_closed' \in {stdin_closed, TRUE}
         /\ sig_exit' \in {sig_exit, TRUE}
         /\ noreset' \in BOOLEAN
         /\ lecho' \in BOOLEAN
         /\ nonblock' \in {nonblock, FALSE}
         /\ eof' \in {eof, TRUE}
         /\ flowing' \in BOOLEAN
         /\ failed' \in {failed, TRUE}
<1> USE DEF Next, Loop, Check, EnterSelect, Select, ReadStdin, StdinByte, PromptByte, PromptCancel,
            PromptReturn, HexByte, ReadPort, WritePort, ReadCtl, CtlByte, Input, PeerResumes,
            deadly_handler, loopvars, envvars, history
<1>1. exit_after' = exit_after
  OBVIOUS
<1>2. stdin_closed' \in {stdin_closed, TRUE}
  OBVIOUS
<1>3. sig_exit' \in {sig_exit, TRUE}
  OBVIOUS
<1>4. noreset' \in BOOLEAN
  BY DEF ControlInv, IntoCommandMode, DataByte, do_command
<1>5. lecho' \in BOOLEAN
  BY DEF ControlInv, IntoCommandMode, DataByte, do_command
<1>6. nonblock' \in {nonblock, FALSE}
  OBVIOUS
<1>7. eof' \in {eof, TRUE}
  OBVIOUS
<1>8. flowing' \in BOOLEAN
  BY DEF ControlInv
<1>9. failed' \in {failed, TRUE}
  BY DEF IntoCommandMode, DataByte, do_command, tty_q_push, FatalIf
<1> QED
  BY <1>1, <1>2, <1>3, <1>4, <1>5, <1>6, <1>7, <1>8, <1>9

-----------------------------------------------------------------------------
(* What is known at the places of a turn: the loop waits only when it has  *)
(* handled all that it read, what select() reported of standard input is   *)
(* still there (of the port it may not be: a command flushes it), and      *)
(* standard input is closed only at its end.                               *)
PlaceInv ==
  /\ pc \in {"check", "enter", "select", "stdin", "port", "write", "ctl"} => rd = <<>>
  /\ pc = "stdin" /\ "stdin" \in ready => typed # <<>> \/ eof
  /\ stdin_closed /\ ~Exit => eof /\ typed = <<>>
  /\ ler # "none" => pc = "ended"
  /\ EofDrains

(* The places and the names of the loop.                                   *)
LEMMA NameStep ==
  ASSUME ControlInv, Next
  PROVE  /\ pc' \in Places /\ caught' \in Places \cup {"nowhere"}
         /\ state' \in {"TRANSPARENT", "COMMAND"}
         /\ ask' \in {"hex", "baud", "file"}
         /\ ready' \subseteq {"stdin", "port", "ctl", "write"}
         /\ ler' \in {"none", "LE_CMD", "LE_IDLE", "LE_STDIN", "LE_SIGNAL", "FATAL", "ABORT"}
<1> USE DEF Next, Loop, Check, EnterSelect, Select, ReadStdin, StdinByte, PromptByte, PromptCancel,
            PromptReturn, HexByte, ReadPort, WritePort, ReadCtl, CtlByte, Input, PeerResumes,
            deadly_handler, loopvars, envvars, history, ControlInv
<1>1. pc' \in Places
  BY DEF Places, IntoCommandMode, DataByte, do_command, tty_q_push, FatalIf, End, Resumed
<1>2. caught' \in Places \cup {"nowhere"}
  BY DEF Places
<1>3. state' \in {"TRANSPARENT", "COMMAND"}
  BY DEF IntoCommandMode, DataByte, do_command
<1>4. ask' \in {"hex", "baud", "file"}
  BY DEF IntoCommandMode, DataByte, do_command
<1>5. ready' \subseteq {"stdin", "port", "ctl", "write"}
  BY DEF Pending
<1>6. ler' \in {"none", "LE_CMD", "LE_IDLE", "LE_STDIN", "LE_SIGNAL", "FATAL", "ABORT"}
  BY DEF IntoCommandMode, DataByte, do_command, tty_q_push, FatalIf, End
<1> QED
  BY <1>1, <1>2, <1>3, <1>4, <1>5, <1>6

(* The bounds on the environment.                                          *)
LEMMA OneLess ==
  ASSUME NEW l \in Budget
  PROVE  /\ l.typed > 0 => [l EXCEPT !.typed = @ - 1] \in Budget
         /\ l.port > 0 => [l EXCEPT !.port = @ - 1] \in Budget
         /\ l.ctl > 0 => [l EXCEPT !.ctl = @ - 1] \in Budget
         /\ l.stops > 0 => [l EXCEPT !.stops = @ - 1] \in Budget
<1>1. \A m \in Nat : \A n \in 0 .. m : n > 0 => n - 1 \in 0 .. m
  OBVIOUS
<1>2. MaxTyped \in Nat /\ MaxPort \in Nat /\ MaxCtl \in Nat /\ MaxStops \in Nat
  BY SessionAssumption
<1>3. l.typed \in 0 .. MaxTyped /\ l.port \in 0 .. MaxPort /\ l.ctl \in 0 .. MaxCtl
        /\ l.stops \in 0 .. MaxStops
  BY DEF Budget
<1>4. \A n \in 0 .. MaxTyped : [l EXCEPT !.typed = n] \in Budget
  BY DEF Budget
<1>5. \A n \in 0 .. MaxPort : [l EXCEPT !.port = n] \in Budget
  BY DEF Budget
<1>6. \A n \in 0 .. MaxCtl : [l EXCEPT !.ctl = n] \in Budget
  BY DEF Budget
<1>7. \A n \in 0 .. MaxStops : [l EXCEPT !.stops = n] \in Budget
  BY DEF Budget
<1>8. l.typed > 0 => [l EXCEPT !.typed = @ - 1] \in Budget
  <2>1. l.typed > 0 => l.typed - 1 \in 0 .. MaxTyped
    BY <1>1, <1>2, <1>3
  <2> QED
    BY <2>1, <1>4
<1>9. l.port > 0 => [l EXCEPT !.port = @ - 1] \in Budget
  <2>1. l.port > 0 => l.port - 1 \in 0 .. MaxPort
    BY <1>1, <1>2, <1>3
  <2> QED
    BY <2>1, <1>5
<1>10. l.ctl > 0 => [l EXCEPT !.ctl = @ - 1] \in Budget
  <2>1. l.ctl > 0 => l.ctl - 1 \in 0 .. MaxCtl
    BY <1>1, <1>2, <1>3
  <2> QED
    BY <2>1, <1>6
<1>11. l.stops > 0 => [l EXCEPT !.stops = @ - 1] \in Budget
  <2>1. l.stops > 0 => l.stops - 1 \in 0 .. MaxStops
    BY <1>1, <1>2, <1>3
  <2> QED
    BY <2>1, <1>7
<1> QED
  BY <1>8, <1>9, <1>10, <1>11

(* A read of the port, a flush and a transfer take no more than is there.  *)
LEMMA BudgetStep ==
  ASSUME ControlInv, Next
  PROVE  fromPort' \in Nat /\ left' \in Budget
<1>1. CASE Input
  <2>1. fromPort' \in Nat
    BY <1>1 DEF Input, ControlInv
  <2>2. left' \in Budget
    <3>1. /\ left.typed > 0 => [left EXCEPT !.typed = @ - 1] \in Budget
          /\ left.port > 0 => [left EXCEPT !.port = @ - 1] \in Budget
          /\ left.ctl > 0 => [left EXCEPT !.ctl = @ - 1] \in Budget
          /\ left.stops > 0 => [left EXCEPT !.stops = @ - 1] \in Budget
      BY OneLess DEF ControlInv
    <3>2. \/ left' = left
          \/ left.typed > 0 /\ left' = [left EXCEPT !.typed = @ - 1]
          \/ left.port > 0 /\ left' = [left EXCEPT !.port = @ - 1]
          \/ left.ctl > 0 /\ left' = [left EXCEPT !.ctl = @ - 1]
          \/ left.stops > 0 /\ left' = [left EXCEPT !.stops = @ - 1]
      BY <1>1 DEF Input
    <3>3. left \in Budget
      BY DEF ControlInv
    <3> QED
      BY <3>1, <3>2, <3>3, Zenon
  <2> QED
    BY <2>1, <2>2
<1>2. CASE ReadPort
  BY <1>2 DEF ReadPort, ControlInv
<1>3. CASE StdinByte \/ PromptReturn
  <2>1. left' = left
    BY <1>3 DEF StdinByte, PromptReturn
  <2>2. DropQueue \/ fromPort' = fromPort \/ fromPort' \in 0 .. fromPort
    BY <1>3 DEF StdinByte, IntoCommandMode, DataByte, do_command, PromptReturn
  <2> QED
    BY <2>1, <2>2 DEF DropQueue, ControlInv
<1>4. CASE Next /\ ~Input /\ ~ReadPort /\ ~StdinByte /\ ~PromptReturn
  <2>1. UNCHANGED <<fromPort, left>>
    BY <1>4 DEF Next, Loop, Check, EnterSelect, Select, ReadStdin, PromptByte, PromptCancel,
       HexByte, WritePort, ReadCtl, CtlByte, PeerResumes, deadly_handler, envvars
  <2> QED
    BY <2>1 DEF ControlInv
<1> QED
  BY <1>1, <1>2, <1>3, <1>4

(* The flags, the names and the bounds together.                           *)
LEMMA ControlStep ==
  ASSUME ControlInv, Next
  PROVE  ControlInv'
<1>1. /\ exit_after' \in BOOLEAN /\ stdin_closed' \in BOOLEAN /\ sig_exit' \in BOOLEAN
      /\ noreset' \in BOOLEAN /\ lecho' \in BOOLEAN /\ nonblock' \in BOOLEAN
      /\ eof' \in BOOLEAN /\ flowing' \in BOOLEAN /\ failed' \in BOOLEAN
  BY FlagStep DEF ControlInv
<1> QED
  BY <1>1, NameStep, BudgetStep DEF ControlInv

-----------------------------------------------------------------------------
(* A turn goes on to wait only when all that was read is handled.          *)
LEMMA NothingUnhandled ==
  ASSUME PlaceInv, Next
  PROVE  pc' \in {"check", "enter", "select", "stdin", "port", "write", "ctl"} => rd' = <<>>
BY DEF PlaceInv, Next, Loop, Check, EnterSelect, Select, ReadStdin, StdinByte, PromptByte, PromptCancel,
   PromptReturn, HexByte, ReadPort, WritePort, ReadCtl, CtlByte, Input, PeerResumes, deadly_handler,
   loopvars, IntoCommandMode, DataByte, do_command, tty_q_push, FatalIf, End, Resumed

(* loop() has a result only when it has returned.                          *)
LEMMA ReasonGiven ==
  ASSUME PlaceInv, Next
  PROVE  ler' # "none" => pc' = "ended"
BY DEF PlaceInv, Next, Loop, Check, EnterSelect, Select, ReadStdin, StdinByte, PromptByte, PromptCancel,
   PromptReturn, HexByte, ReadPort, WritePort, ReadCtl, CtlByte, Input, PeerResumes, deadly_handler,
   loopvars, IntoCommandMode, DataByte, do_command, tty_q_push, FatalIf, End, Resumed

(* Standard input is read by ReadStdin and the prompts only, and is closed *)
(* only when it is at its end and empty.                                   *)
LEMMA InputAtItsEnd ==
  ASSUME PlaceInv, ControlInv, BytesInv, Next
  PROVE  /\ pc' = "stdin" /\ "stdin" \in ready' => typed' # <<>> \/ eof'
         /\ stdin_closed' /\ ~Exit => eof' /\ typed' = <<>>
<1> DEFINE AtEnd == stdin_closed /\ ~Exit => eof /\ typed = <<>>
           Told  == pc = "stdin" /\ "stdin" \in ready => typed # <<>> \/ eof
<1>0. AtEnd /\ Told
  BY DEF PlaceInv
<1>1. CASE Input
  <2>1. /\ UNCHANGED <<pc, ready, stdin_closed>>
        /\ (typed' = typed /\ eof' = eof) \/ (~eof /\ eof' /\ typed' = typed)
             \/ (~eof /\ eof' = eof /\ \E b \in Byte : typed' = Append(typed, b))
    BY <1>1 DEF Input, loopvars
  <2>2. CASE typed' = typed /\ eof' = eof
    BY <1>0, <2>1, <2>2
  <2>3. CASE ~eof /\ eof' /\ typed' = typed
    BY <1>0, <2>1, <2>3
  <2>4. CASE ~eof /\ eof' = eof /\ \E b \in Byte : typed' = Append(typed, b)
    <3>1. typed' # <<>>
      BY <2>4, AppendTyped DEF BytesInv
    <3>2. ~(stdin_closed' /\ ~Exit)
      BY <1>0, <2>1, <2>4
    <3> QED
      BY <3>1, <3>2
  <2> QED
    BY <2>1, <2>2, <2>3, <2>4
<1>2. CASE ReadStdin
  BY <1>0, <1>2 DEF ReadStdin, FatalIf, End
<1>3. CASE PromptByte \/ PromptCancel \/ PromptReturn
  <2>1. UNCHANGED <<eof, stdin_closed>> /\ pc' # "stdin" /\ (typed' = typed \/ typed # <<>>)
    BY <1>3 DEF PromptByte, PromptCancel, PromptReturn
  <2> QED
    BY <1>0, <2>1
<1>4. CASE Select
  BY <1>0, <1>4 DEF Select, Pending, FatalIf, End, envvars
<1>5. CASE StdinByte
  <2>1. UNCHANGED <<typed, eof, stdin_closed, ready>> /\ pc' # "stdin"
    BY <1>5 DEF StdinByte, envvars, IntoCommandMode, DataByte, do_command, tty_q_push, FatalIf, End
  <2> QED
    BY <1>0, <2>1
<1>6. CASE Check \/ EnterSelect \/ HexByte \/ ReadPort \/ WritePort \/ ReadCtl \/ CtlByte
  <2>1. UNCHANGED <<typed, eof, stdin_closed, ready>> /\ pc' # "stdin"
    BY <1>6 DEF Check, EnterSelect, HexByte, ReadPort, WritePort, ReadCtl, CtlByte, envvars,
       tty_q_push, FatalIf, End
  <2> QED
    BY <1>0, <2>1
<1>7. CASE PeerResumes \/ deadly_handler
  <2>1. UNCHANGED <<typed, eof, stdin_closed, ready>> /\ (pc' = "stdin" => pc = "stdin")
    BY <1>7 DEF PeerResumes, deadly_handler, envvars, loopvars, Resumed
  <2> QED
    BY <1>0, <2>1
<1> QED
  BY <1>1, <1>2, <1>3, <1>4, <1>5, <1>6, <1>7 DEF Next, Loop

(* Once the loop has ended for one of the two reasons, nothing changes what *)
(* EofDrains speaks of; and it ends for them with an empty queue only.     *)
LEMMA EofDrainsStep ==
  ASSUME PlaceInv, QueueInv, Next
  PROVE  EofDrains'
<1>1. CASE ler' = ler /\ ler \in {"LE_STDIN", "LE_IDLE"}
  <2>1. pc = "ended"
    BY <1>1 DEF PlaceInv
  <2>2. FALSE
    BY <2>1 DEF Next, Loop, Check, EnterSelect, Select, ReadStdin, StdinByte, PromptByte, PromptCancel,
       PromptReturn, HexByte, ReadPort, WritePort, ReadCtl, CtlByte, Input, PeerResumes, deadly_handler
  <2> QED
    BY <2>2
<1>2. CASE ler' \notin {"LE_STDIN", "LE_IDLE"}
  BY <1>2 DEF EofDrains
<1>3. CASE ler' # ler /\ ler' \in {"LE_STDIN", "LE_IDLE"}
  <2>1. \/ /\ Check /\ InputDone /\ ler' = "LE_STDIN"
        \/ /\ Select /\ buf = <<>> /\ ler' = "LE_IDLE"
    <3>1. CASE StdinByte
      <4>1. ler' \in {ler, "LE_CMD", "FATAL", "ABORT"}
        BY <3>1 DEF StdinByte, IntoCommandMode, DataByte, do_command, tty_q_push, FatalIf, End
      <4> QED
        BY <1>3, <4>1
    <3>2. CASE HexByte \/ CtlByte \/ ReadStdin \/ ReadPort \/ WritePort
      <4>1. ler' \in {ler, "FATAL", "ABORT"}
        BY <3>2 DEF HexByte, CtlByte, ReadStdin, ReadPort, WritePort, tty_q_push, FatalIf, End
      <4> QED
        BY <1>3, <4>1
    <3>3. CASE EnterSelect \/ PromptByte \/ PromptCancel \/ PromptReturn \/ ReadCtl \/ Input
               \/ PeerResumes \/ deadly_handler
      BY <1>3, <3>3 DEF EnterSelect, PromptByte, PromptCancel, PromptReturn, ReadCtl, Input, PeerResumes,
         deadly_handler, loopvars
    <3>4. CASE Check \/ Select
      BY <1>3, <3>4 DEF Check, Select, FatalIf, End
    <3> QED
      BY <3>1, <3>2, <3>3, <3>4 DEF Next, Loop
  <2>2. buf = <<>> /\ UNCHANGED <<sent, due, rd, typed>> /\ pc \in {"check", "select"}
    BY <2>1 DEF InputDone, Check, Select, history, envvars
  <2>3. sent = due
    <3>1. sent \in Seq(Byte) /\ sent \o <<>> = due
      BY <2>2 DEF QueueInv, PortGetsWhatWasAccepted
    <3> QED
      BY <3>1, ConcatEmptySeq
  <2>4. rd = <<>>
    BY <2>2 DEF PlaceInv
  <2>5. ler' = "LE_STDIN" /\ ~Exit => typed = <<>>
    BY <2>1 DEF InputDone, PlaceInv
  <2> QED
    BY <2>2, <2>3, <2>4, <2>5 DEF EofDrains
<1> QED
  BY <1>1, <1>2, <1>3
-----------------------------------------------------------------------------
(* The inductive invariant: the queue, the bytes, the histories and the    *)
(* control state depend on each other through the places of a turn.        *)
LoopInv == QueueInv /\ BytesInv /\ HistoryInv /\ ControlInv /\ PlaceInv

(* The type invariant is a part of it,                                     *)
LEMMA LoopInvTyped == LoopInv => TypeOK
BY DEF LoopInv, QueueInv, BytesInv, HistoryInv, ControlInv, TypeOK

(* it holds when loop() is entered,                                        *)
LEMMA LoopInvInit == Init => LoopInv
<1> SUFFICES ASSUME Init
             PROVE  LoopInv
  OBVIOUS
<1>1. QueueInv
  <2>1. InitString \in Seq(Byte) /\ <<>> \o InitString = InitString
    BY SessionAssumption
  <2> QED
    BY Sizes, <2>1 DEF Init, QueueInv, QueueInBounds, PortGetsWhatWasAccepted
<1>2. BytesInv
  BY EmptyLine DEF Init, BytesInv
<1>3. HistoryInv
  BY DEF Init, HistoryInv
<1>4. ControlInv
  <2>1. left \in Budget
    BY SessionAssumption DEF Init, Budget
  <2>2. exit_after \in BOOLEAN /\ stdin_closed \in BOOLEAN /\ lecho \in BOOLEAN
    BY SessionAssumption DEF Init
  <2> QED
    BY <2>1, <2>2 DEF Init, ControlInv, Places
<1>5. PlaceInv
  BY DEF Init, PlaceInv, EofDrains
<1> QED
  BY <1>1, <1>2, <1>3, <1>4, <1>5 DEF LoopInv

(* and every step of the loop and of its environment keeps it.             *)
LEMMA LoopInvStep == LoopInv /\ [Next]_vars => LoopInv'
<1>1. ASSUME LoopInv, Next
      PROVE  LoopInv'
  <2> USE <1>1 DEF LoopInv
  <2>1. QueueInv'
    BY LoopInvTyped, QueueStep
  <2>2. BytesInv'
    BY BytesStep
  <2>3. HistoryInv'
    BY HistoryStep
  <2>4. ControlInv'
    BY ControlStep
  <2>5. PlaceInv'
    BY NothingUnhandled, ReasonGiven, InputAtItsEnd, EofDrainsStep DEF PlaceInv
  <2> QED
    BY <2>1, <2>2, <2>3, <2>4, <2>5
<1>2. ASSUME LoopInv, UNCHANGED vars
      PROVE  LoopInv'
  BY <1>2 DEF vars, loopvars, envvars, history, LoopInv, QueueInv, QueueInBounds,
     PortGetsWhatWasAccepted, BytesInv, HistoryInv, ControlInv, PlaceInv, EofDrains
<1> QED
  BY <1>1, <1>2

(* LoopInv holds in every state of every behaviour of the loop.            *)
THEOREM LoopInvariant == Spec => []LoopInv
BY LoopInvInit, LoopInvStep, PTL DEF Spec

(* Every variable of the loop and of its environment has its type; a       *)
(* prompt never holds more than MaxLine bytes.                             *)
THEOREM TypeCorrect == Spec => []TypeOK
BY LoopInvariant, LoopInvTyped, PTL

(* tty_q_push() stays in the buffer it allocated, and that within          *)
(* TTY_Q_SZ, for any sizes, maps and failures of realloc(3).               *)
THEOREM QueueStaysInBounds == Spec => []QueueInBounds
<1>1. LoopInv => QueueInBounds
  BY DEF LoopInv, QueueInv
<1> QED
  BY <1>1, LoopInvariant, PTL

(* The port gets what was accepted under its present settings, once and in *)
(* order, whatever commands, prompts, short writes and failures do.        *)
THEOREM AcceptedIsSent == Spec => []PortGetsWhatWasAccepted
<1>1. LoopInv => PortGetsWhatWasAccepted
  BY DEF LoopInv, QueueInv
<1> QED
  BY <1>1, LoopInvariant, PTL

(* At the end of the input, or idle, the loop ends with all written that   *)
(* was accepted and nothing read that was not handled.                     *)
THEOREM EndOfInputDrains == Spec => []EofDrains
<1>1. LoopInv => EofDrains
  BY DEF LoopInv, PlaceInv
<1> QED
  BY <1>1, LoopInvariant, PTL

-----------------------------------------------------------------------------
(* The buffer at its limit.  TTY_Q_SZ is n doubled k times: d[i] is two to *)
(* the power of i.                                                         *)
DoublesTo(n, k, d) == d[0] = 1 /\ (\A i \in 1 .. k : d[i] = 2 * d[i - 1]) /\ TTY_Q_SZ = n * d[k]
ReachesLimit(n) == \E k \in Nat : \E d \in [0 .. k -> Nat] : DoublesTo(n, k, d)

(* Short of the limit it can be doubled.                                   *)
LEMMA LimitDoubled ==
  ASSUME NEW n \in Nat, n # 0, TTY_Q_SZ # 0, ReachesLimit(n)
  PROVE  n = TTY_Q_SZ \/ (2 * n <= TTY_Q_SZ /\ ReachesLimit(2 * n))
<1>0. PICK k \in Nat : \E d \in [0 .. k -> Nat] : DoublesTo(n, k, d)
  BY DEF ReachesLimit
<1>1. PICK d \in [0 .. k -> Nat] : DoublesTo(n, k, d)
  BY <1>0
<1>2. CASE k = 0
  BY <1>1, <1>2 DEF DoublesTo
<1>3. CASE k # 0
  <2> DEFINE e == [i \in 0 .. k - 1 |-> d[i]]
  <2>1. k - 1 \in Nat /\ k \in 1 .. k /\ k - 1 \in 0 .. k - 1 /\ 0 \in 0 .. k - 1
    BY <1>3
  <2>2. \A i \in 0 .. k - 1 : d[i] \in Nat
    BY <1>1
  <2>3. e \in [0 .. k - 1 -> Nat]
    BY <2>2
  <2>4. e[0] = 1 /\ \A i \in 1 .. k - 1 : e[i] = 2 * e[i - 1]
    BY <1>1, <2>1 DEF DoublesTo
  <2>5. e[k - 1] \in Nat /\ TTY_Q_SZ = n * (2 * e[k - 1])
    <3>1. d[k] = 2 * d[k - 1] /\ d[k - 1] = e[k - 1]
      BY <1>1, <2>1 DEF DoublesTo
    <3> QED
      BY <1>1, <2>1, <2>2, <3>1 DEF DoublesTo
  <2> HIDE DEF e
  <2>6. \A m, x \in Nat : m * (2 * x) = (2 * m) * x
    OBVIOUS
  <2>7. TTY_Q_SZ = (2 * n) * e[k - 1]
    BY <2>5, <2>6
  <2>8. 2 * n <= TTY_Q_SZ
    <3>1. e[k - 1] # 0
      BY <2>5
    <3>2. \A m, x \in Nat : x # 0 => m <= m * x
      <4> SUFFICES ASSUME NEW m \in Nat, NEW x \in Nat, x # 0 PROVE m <= m * x
        OBVIOUS
      <4>1. x - 1 \in Nat /\ m * x = m * (x - 1) + m
        OBVIOUS
      <4>2. m * (x - 1) \in Nat
        BY <4>1
      <4> QED
        BY <4>1, <4>2
    <3>3. 2 * n \in Nat /\ e[k - 1] \in Nat
      BY <2>5
    <3>4. 2 * n <= (2 * n) * e[k - 1]
      BY <3>1, <3>2, <3>3, Zenon
    <3> QED
      BY <2>7, <3>4, Zenon
  <2>9. DoublesTo(2 * n, k - 1, e)
    BY <2>4, <2>7 DEF DoublesTo
  <2> QED
    BY <2>1, <2>3, <2>8, <2>9 DEF ReachesLimit
<1> QED
  BY <1>2, <1>3

(* The buffer is doubled, and never past its limit, or is as it was.       *)
LimitInv == TTY_Q_SZ # 0 => ReachesLimit(size)

LEMMA LimitStep ==
  ASSUME LoopInv, LimitInv, Next PROVE LimitInv'
<1>1. size \in Nat /\ size # 0 /\ TTY_Q_SZ \in Nat
  BY Sizes, SessionAssumption DEF LoopInv, QueueInv
<1>2. size' = size \/ (size' = 2 * size /\ MayGrow)
  <2>1. ASSUME NEW b, NEW place, tty_q_push(b, place) PROVE size' = size \/ (size' = 2 * size /\ MayGrow)
    BY <2>1 DEF tty_q_push, Grown
  <2>2. ASSUME StdinByte PROVE size' = size \/ (size' = 2 * size /\ MayGrow)
    BY <2>1, <2>2 DEF StdinByte, IntoCommandMode, DataByte, do_command
  <2>3. ASSUME HexByte \/ CtlByte PROVE size' = size \/ (size' = 2 * size /\ MayGrow)
    BY <2>1, <2>3 DEF HexByte, CtlByte
  <2>4. CASE Check \/ EnterSelect \/ Select \/ ReadStdin \/ PromptByte \/ PromptCancel \/ PromptReturn
             \/ ReadPort \/ WritePort \/ ReadCtl \/ Input \/ PeerResumes \/ deadly_handler
    BY <2>4 DEF Check, EnterSelect, Select, ReadStdin, PromptByte, PromptCancel, PromptReturn, ReadPort,
             WritePort, ReadCtl, Input, PeerResumes, deadly_handler, loopvars
  <2> QED
    BY <2>2, <2>3, <2>4 DEF Next, Loop
<1>3. ASSUME TTY_Q_SZ # 0, size' = 2 * size, MayGrow PROVE ReachesLimit(2 * size)
  <2>1. size = TTY_Q_SZ \/ ReachesLimit(2 * size)
    BY <1>1, <1>3, LimitDoubled DEF LimitInv
  <2>2. 2 * size <= TTY_Q_SZ
    BY <1>3 DEF MayGrow
  <2> QED
    BY <1>1, <2>1, <2>2
<1> QED
  BY <1>2, <1>3 DEF LimitInv, ReachesLimit, DoublesTo

LEMMA RefusalStep ==
  ASSUME LoopInv, LimitInv, Next, "realloc" \notin Fallible,
         pc = "chars", did' # did, did'[Len(did')][1] = "data", due' = due, pc' = "chars"
  PROVE  TTY_Q_SZ # 0 /\ Len(buf) + M_MAXMAP > TTY_Q_SZ
<1>1. /\ size \in Nat /\ size # 0 /\ TTY_Q_SZ \in Nat /\ due \in Seq(Byte) /\ did \in Seq({"data", "command"} \X Byte)
      /\ rd \in Seq(Byte)
  BY Sizes, SessionAssumption DEF LoopInv, QueueInv, HistoryInv, BytesInv
<1>2. StdinByte
  <2>1. ~(Input \/ PeerResumes \/ deadly_handler)
    BY DEF Input, PeerResumes, deadly_handler, history
  <2> QED
    BY <2>1 DEF Next, Loop, Check, EnterSelect, Select, ReadStdin, PromptByte, PromptCancel, PromptReturn,
             HexByte, ReadPort, WritePort, ReadCtl, CtlByte
<1>3. PICK b \in Byte : DataByte(b)
  <2>1. rd # <<>>
    BY <1>2 DEF StdinByte
  <2>2. Head(rd) \in Byte
    BY <1>1, <2>1, TailTyped
  <2>3. ~IntoCommandMode(Head(rd))
    BY <1>1 DEF IntoCommandMode, Handled
  <2>4. ~do_command(Head(rd))
    <3> SUFFICES ASSUME do_command(Head(rd)) PROVE FALSE
      OBVIOUS
    <3>1. did' = did \o <<<<"command", Head(rd)>>>>
      BY DEF do_command, Handled
    <3>2. did'[Len(did')] = <<"command", Head(rd)>>
      BY <1>1, <2>2, <3>1
    <3> QED
      BY <3>2
  <2> QED
    BY <1>2, <2>1, <2>2, <2>3, <2>4 DEF StdinByte
<1>4. ~Fits(size) /\ ~MayGrow
  <2>1. tty_q_push(b, "chars")
    BY <1>3 DEF DataByte
  <2>2. ~(OutMap[b] # <<>> /\ due' = due \o OutMap[b])
    <3> SUFFICES ASSUME OutMap[b] # <<>>, due' = due \o OutMap[b] PROVE FALSE
      OBVIOUS
    <3>1. OutMap[b] \in Seq(Byte) /\ Len(OutMap[b]) # 0
      BY SessionAssumption
    <3>2. Len(due') = Len(due) + Len(OutMap[b])
      BY <1>1, <3>1, ConcatProperties
    <3> QED
      BY <1>1, <3>1, <3>2
  <2> QED
    BY <2>1, <2>2 DEF tty_q_push, FatalIf, End
<1>5. TTY_Q_SZ # 0 /\ ~(2 * size <= TTY_Q_SZ)
  BY <1>4 DEF MayGrow
<1>6. size = TTY_Q_SZ
  BY <1>1, <1>5, LimitDoubled DEF LimitInv
<1> QED
  BY <1>1, <1>4, <1>5, <1>6, Sizes DEF Fits, LoopInv, QueueInv

(* tty_q_push() refuses a byte from standard input only when its buffer    *)
(* can hold no more within TTY_Q_SZ, for any sizes of which the limit is   *)
(* the smallest, doubled: the 256 and 32768 of the source.                 *)
THEOREM RefusesOnlyWhenFull ==
  ASSUME "realloc" \notin Fallible, TTY_Q_SZ # 0 => ReachesLimit(TTY_Q_SZ_MIN)
  PROVE  Spec => RefusedOnlyWhenFull
<1>1. Init => LimitInv
  BY DEF Init, LimitInv, ReachesLimit, DoublesTo
<1>2. LoopInv /\ LimitInv /\ [Next]_vars => LimitInv'
  <2>1. ASSUME LimitInv, UNCHANGED vars PROVE LimitInv'
    BY <2>1 DEF LimitInv, ReachesLimit, DoublesTo, vars, loopvars
  <2> QED
    BY <2>1, LimitStep
<1>3. LoopInv /\ LimitInv /\ [Next]_vars
        => [pc = "chars" /\ did' # did /\ did'[Len(did')][1] = "data" /\ due' = due
              /\ pc' = "chars" => TTY_Q_SZ # 0 /\ Len(buf) + M_MAXMAP > TTY_Q_SZ]_vars
  BY RefusalStep
<1>4. Spec => []LoopInv
  BY LoopInvariant
<1> QED
  BY <1>1, <1>2, <1>3, <1>4, PTL DEF Spec, RefusedOnlyWhenFull

-----------------------------------------------------------------------------
(* The escape rule: how many escape characters the bytes handled end with, *)
(* and what the state of the loop knows of it.                             *)
EscapesAtEnd(n) ==
  /\ n \in 0 .. Len(raw)
  /\ \A j \in Len(raw) - n + 1 .. Len(raw) : raw[j] = Escape
  /\ n < Len(raw) => raw[Len(raw) - n] # Escape

KeyInv ==
  /\ \E n \in Nat : EscapesAtEnd(n) /\ (state = "COMMAND" <=> ~NoEscape /\ n % 2 = 1)
  /\ KeysTakeEffect

(* One more turns odd into even.                                           *)
LEMMA Parity == \A n \in Nat : n % 2 = 1 <=> (n + 1) % 2 # 1
OBVIOUS

(* The next byte is a function character iff the state says so.            *)
LEMMA FunctionNext ==
  ASSUME HistoryInv, KeyInv
  PROVE  FunctionAt(Len(raw) + 1) <=> state = "COMMAND"
<1> DEFINE L == Len(raw)
<1>1. PICK n \in Nat : EscapesAtEnd(n) /\ (state = "COMMAND" <=> ~NoEscape /\ n % 2 = 1)
  BY DEF KeyInv
<1>2. L \in Nat /\ n \in 0 .. L
  BY <1>1 DEF EscapesAtEnd, HistoryInv
<1>3. ASSUME NEW k \in 1 .. L, \A j \in L + 1 - k .. L : raw[j] = Escape,
             L + 1 - k > 1 => raw[L - k] # Escape
      PROVE  k = n
  <2>1. CASE k < n
    <3>1. L - k \in L - n + 1 .. L /\ L + 1 - k > 1
      BY <1>2, <2>1
    <3> QED
      BY <1>1, <1>3, <3>1 DEF EscapesAtEnd
  <2>2. CASE k > n
    <3>1. L - n \in L + 1 - k .. L /\ n < L
      BY <1>2, <1>3, <2>2
    <3> QED
      BY <1>1, <1>3, <3>1 DEF EscapesAtEnd
  <2> QED
    BY <1>2, <2>1, <2>2
<1>4. ASSUME FunctionAt(L + 1) PROVE ~NoEscape /\ n % 2 = 1
  <2>1. PICK k \in 1 .. L + 1 - 1 : /\ k % 2 = 1
                                    /\ \A j \in L + 1 - k .. L + 1 - 1 : raw[j] = Escape
                                    /\ L + 1 - k > 1 => raw[L + 1 - k - 1] # Escape
    BY <1>4 DEF FunctionAt
  <2>2. L + 1 - 1 = L /\ L + 1 - k - 1 = L - k
    BY <1>2, <2>1
  <2>3. k = n
    BY <1>3, <2>1, <2>2, SMTT(30)
  <2> QED
    BY <1>4, <2>1, <2>3 DEF FunctionAt
<1>5. ASSUME ~NoEscape, n % 2 = 1 PROVE FunctionAt(L + 1)
  <2>1. n \in 1 .. L + 1 - 1
    BY <1>2, <1>5
  <2>2. \A j \in L + 1 - n .. L + 1 - 1 : raw[j] = Escape
    BY <1>1, <1>2 DEF EscapesAtEnd
  <2>3. L + 1 - n > 1 => raw[L + 1 - n - 1] # Escape
    BY <1>1, <1>2 DEF EscapesAtEnd
  <2> QED
    BY <1>5, <2>1, <2>2, <2>3 DEF FunctionAt
<1> QED
  BY <1>1, <1>4, <1>5

(* How many bytes have an effect: one more with one that has.              *)
LEMMA EffectsAre ==
  ASSUME NEW i \in Nat
  PROVE  /\ Effects(i) \in Nat
         /\ \A j \in 0 .. i : Effects(j) <= Effects(i)
         /\ i > 0 /\ ~EscapeAt(i) => Effects(i) > 0
         /\ Effects(i + 1) = IF EscapeAt(i + 1) THEN Effects(i) ELSE Effects(i) + 1
<1> DEFINE S(k) == {j \in 1 .. k : ~EscapeAt(j)}
<1>1. \A k \in Nat : IsFiniteSet(S(k)) /\ Cardinality(S(k)) \in Nat
  <2> TAKE k \in Nat
  <2>1. IsFiniteSet(1 .. k) /\ S(k) \in SUBSET (1 .. k)
    BY FS_Interval
  <2> HIDE DEF S
  <2> QED
    BY <2>1, FS_Subset, FS_CardinalityType
<1>2. \A j \in 0 .. i : Cardinality(S(j)) <= Cardinality(S(i))
  <2> TAKE j \in 0 .. i
  <2>1. S(j) \in SUBSET S(i)
    OBVIOUS
  <2> HIDE DEF S
  <2> QED
    BY <1>1, <2>1, FS_Subset
<1>3. i > 0 /\ ~EscapeAt(i) => Cardinality(S(i)) > 0
  <2> SUFFICES ASSUME i > 0, ~EscapeAt(i) PROVE Cardinality(S(i)) > 0
    OBVIOUS
  <2>1. S(i) # {}
    OBVIOUS
  <2> HIDE DEF S
  <2> QED
    BY <1>1, <2>1, FS_EmptySet
<1>4. Cardinality(S(i + 1)) = IF EscapeAt(i + 1) THEN Cardinality(S(i)) ELSE Cardinality(S(i)) + 1
  <2>1. CASE EscapeAt(i + 1)
    <3>1. S(i + 1) = S(i)
      BY <2>1
    <3> QED
      BY <2>1, <3>1
  <2>2. CASE ~EscapeAt(i + 1)
    <3>1. S(i + 1) = S(i) \cup {i + 1} /\ i + 1 \notin S(i)
      BY <2>2
    <3> HIDE DEF S
    <3>2. Cardinality(S(i) \cup {i + 1}) = Cardinality(S(i)) + 1
      BY <1>1, <3>1, FS_AddElement
    <3> QED
      BY <2>2, <3>1, <3>2
  <2> QED
    BY <2>1, <2>2
<1> QED
  BY <1>1, <1>2, <1>3, <1>4 DEF Effects

(* A byte that is handled changes nothing about those before it.           *)
LEMMA BytesBefore ==
  ASSUME HistoryInv, NEW b, raw' = Append(raw, b)
  PROVE  /\ \A i \in 1 .. Len(raw) + 1 : FunctionAt(i)' <=> FunctionAt(i)
         /\ \A i \in 1 .. Len(raw) : EscapeAt(i)' <=> EscapeAt(i)
         /\ \A i \in 0 .. Len(raw) : Effects(i)' = Effects(i)
         /\ Len(raw') = Len(raw) + 1 /\ DOMAIN raw = 1 .. Len(raw) /\ DOMAIN raw' = 1 .. Len(raw) + 1
         /\ \A i \in 1 .. Len(raw) : raw'[i] = raw[i]
         /\ raw'[Len(raw) + 1] = b
<1>1. /\ Len(raw) \in Nat /\ Len(raw') = Len(raw) + 1
      /\ \A i \in 1 .. Len(raw) : raw'[i] = raw[i]
      /\ raw'[Len(raw) + 1] = b
  BY AppendProperties DEF HistoryInv
<1>2. DOMAIN raw = 1 .. Len(raw) /\ DOMAIN raw' = 1 .. Len(raw) + 1
  BY <1>1, LenProperties, AppendProperties DEF HistoryInv
<1>3. \A i \in 1 .. Len(raw) + 1 : FunctionAt(i)' <=> FunctionAt(i)
  <2> TAKE i \in 1 .. Len(raw) + 1
  <2>1. \A n \in 1 .. i - 1 : /\ (\A j \in i - n .. i - 1 : raw'[j] = Escape)
                                    <=> \A j \in i - n .. i - 1 : raw[j] = Escape
                              /\ i - n > 1 => raw'[i - n - 1] = raw[i - n - 1]
    <3> TAKE n \in 1 .. i - 1
    <3>1. \A j \in i - n .. i - 1 : j \in 1 .. Len(raw)
      BY <1>1
    <3>2. i - n > 1 => i - n - 1 \in 1 .. Len(raw)
      BY <1>1
    <3> QED
      BY <1>1, <3>1, <3>2
  <2> QED
    BY <2>1 DEF FunctionAt
<1>4. \A i \in 1 .. Len(raw) : EscapeAt(i)' <=> EscapeAt(i)
  <2> TAKE i \in 1 .. Len(raw)
  <2>1. i \in 1 .. Len(raw) + 1
    BY <1>1
  <2> QED
    BY <1>1, <1>3, <2>1 DEF EscapeAt
<1>5. \A i \in 0 .. Len(raw) : Effects(i)' = Effects(i)
  <2> TAKE i \in 0 .. Len(raw)
  <2>1. {j \in 1 .. i : ~EscapeAt(j)}' = {j \in 1 .. i : ~EscapeAt(j)}
    BY <1>1, <1>4
  <2> QED
    BY <2>1 DEF Effects
<1> QED
  BY <1>1, <1>2, <1>3, <1>4, <1>5

(* Only a byte from standard input is handled, as the state says.          *)
LEMMA HandledSteps ==
  ASSUME BytesInv, Next
  PROVE  \/ UNCHANGED <<state, raw, did>>
         \/ \E b \in Byte :
              /\ raw' = Append(raw, b)
              /\ \/ EscapeByte(b) /\ did' = did \o <<>> /\ state' = "COMMAND"
                 \/ /\ ~EscapeByte(b) /\ ~KeyByte(b) /\ state' = "TRANSPARENT"
                    /\ did' = did \o <<<<"data", b>>>>
                 \/ /\ KeyByte(b) /\ state' = "TRANSPARENT"
                    /\ did' = did \o <<<<"command", b>>>>
<1>1. CASE StdinByte /\ rd # <<>>
  <2>1. Head(rd) \in Byte
    BY <1>1, TailTyped DEF BytesInv
  <2> QED
    BY <1>1, <2>1 DEF StdinByte, IntoCommandMode, DataByte, do_command, Handled
<1>2. CASE StdinByte /\ rd = <<>>
  BY <1>2 DEF StdinByte
<1>3. CASE Check \/ EnterSelect \/ Select \/ ReadStdin \/ PromptByte \/ PromptCancel \/ PromptReturn
             \/ HexByte \/ ReadPort \/ WritePort \/ ReadCtl \/ CtlByte \/ Input \/ PeerResumes
             \/ deadly_handler
  BY <1>3 DEF Check, EnterSelect, Select, ReadStdin, PromptByte, PromptCancel, PromptReturn,
     HexByte, ReadPort, WritePort, ReadCtl, CtlByte, Input, PeerResumes, deadly_handler, history, loopvars
<1> QED
  BY <1>1, <1>2, <1>3 DEF Next, Loop

(* A byte that is handled lengthens or breaks the escape characters at the *)
(* end.                                                                    *)
LEMMA EscapesStep ==
  ASSUME HistoryInv, NEW b, raw' = Append(raw, b), NEW n \in Nat, EscapesAtEnd(n)
  PROVE  /\ b = Escape => EscapesAtEnd(n + 1)'
         /\ b # Escape => EscapesAtEnd(0)'
<1>1. /\ Len(raw) \in Nat /\ Len(raw') = Len(raw) + 1
      /\ \A i \in 1 .. Len(raw) : raw'[i] = raw[i]
      /\ raw'[Len(raw) + 1] = b
  BY BytesBefore DEF HistoryInv
<1>2. ASSUME b = Escape PROVE EscapesAtEnd(n + 1)'
  <2>1. n + 1 \in 0 .. Len(raw')
    BY <1>1 DEF EscapesAtEnd
  <2>2. \A j \in Len(raw') - (n + 1) + 1 .. Len(raw') : raw'[j] = Escape
    <3> TAKE j \in Len(raw') - (n + 1) + 1 .. Len(raw')
    <3>1. \/ j = Len(raw) + 1
          \/ j \in Len(raw) - n + 1 .. Len(raw) /\ j \in 1 .. Len(raw)
      <4>1. j \in Int /\ j >= Len(raw) - n + 1 /\ j <= Len(raw) + 1 /\ n <= Len(raw)
        BY <1>1 DEF EscapesAtEnd
      <4> QED
        BY <1>1, <4>1
    <3> QED
      BY <1>1, <1>2, <3>1 DEF EscapesAtEnd
  <2>3. n + 1 < Len(raw') => raw'[Len(raw') - (n + 1)] # Escape
    <3> HAVE n + 1 < Len(raw')
    <3>1. Len(raw') - (n + 1) = Len(raw) - n /\ Len(raw) - n \in 1 .. Len(raw) /\ n < Len(raw)
      BY <1>1 DEF EscapesAtEnd
    <3> QED
      BY <1>1, <3>1 DEF EscapesAtEnd
  <2> QED
    BY <2>1, <2>2, <2>3 DEF EscapesAtEnd
<1>3. ASSUME b # Escape PROVE EscapesAtEnd(0)'
  BY <1>1, <1>3 DEF EscapesAtEnd
<1> QED
  BY <1>2, <1>3

(* The state after a byte is what the number of escape characters says.    *)
LEMMA ParityStep ==
  ASSUME HistoryInv, KeyInv, NEW b, raw' = Append(raw, b),
         state' = IF EscapeByte(b) THEN "COMMAND" ELSE "TRANSPARENT",
         state \in {"TRANSPARENT", "COMMAND"}
  PROVE  \E n \in Nat : EscapesAtEnd(n)' /\ (state' = "COMMAND" <=> ~NoEscape /\ n % 2 = 1)
<1>1. PICK n \in Nat : EscapesAtEnd(n) /\ (state = "COMMAND" <=> ~NoEscape /\ n % 2 = 1)
  BY DEF KeyInv
<1>2. CASE b = Escape
  <2>1. EscapesAtEnd(n + 1)' /\ n + 1 \in Nat
    BY <1>1, <1>2, EscapesStep
  <2>2. state' = "COMMAND" <=> ~NoEscape /\ (n + 1) % 2 = 1
    BY <1>1, <1>2, Parity DEF EscapeByte
  <2> QED
    BY <2>1, <2>2
<1>3. CASE b # Escape
  <2>1. EscapesAtEnd(0)'
    BY <1>1, <1>3, EscapesStep
  <2>2. state' # "COMMAND" /\ 0 % 2 # 1
    BY <1>3 DEF EscapeByte
  <2> QED
    BY <2>1, <2>2
<1> QED
  BY <1>2, <1>3

(* What became of one byte is one entry.                                   *)
LEMMA OneEntry == ASSUME NEW e PROVE Len(<<e>>) = 1 /\ <<e>>[1] = e
OBVIOUS

(* The byte handled has the effect that the bytes before it call for, and  *)
(* those keep theirs.                                                      *)
LEMMA EffectStep ==
  ASSUME HistoryInv, HistoryInv', KeyInv, NEW b \in Byte, raw' = Append(raw, b),
         NEW what \in Seq({"data", "command"} \X Byte), did' = did \o what,
         what = IF EscapeByte(b) THEN <<>>
                ELSE <<<<IF KeyByte(b) THEN "command" ELSE "data", b>>>>,
         state \in {"TRANSPARENT", "COMMAND"}
  PROVE  KeysTakeEffect'
<1>0. PICK L \in Nat : L = Len(raw)
  BY DEF HistoryInv
<1>1. Len(did) = Effects(L) /\ DOMAIN raw = 1 .. L
  BY <1>0, BytesBefore DEF KeyInv, KeysTakeEffect
<1>a. /\ \A i \in 1 .. L + 1 : FunctionAt(i)' <=> FunctionAt(i)
      /\ \A i \in 1 .. L : EscapeAt(i)' <=> EscapeAt(i)
      /\ \A i \in 0 .. L : Effects(i)' = Effects(i)
      /\ \A i \in 1 .. L : raw'[i] = raw[i]
  BY <1>0, BytesBefore
<1>2. FunctionAt(L + 1)' <=> state = "COMMAND"
  <2>1. L + 1 \in 1 .. L + 1
    OBVIOUS
  <2> QED
    BY <1>0, <1>a, <2>1, FunctionNext
<1>3. raw'[L + 1] = b /\ Len(raw') = L + 1 /\ DOMAIN raw' = 1 .. L + 1
  BY <1>0, BytesBefore
<1>4. EscapeAt(L + 1)' <=> EscapeByte(b)
  BY <1>2, <1>3 DEF EscapeAt, EscapeByte
<1>5. Effects(L)' = Effects(L) /\ Effects(L) \in Nat
  <2>1. L \in 0 .. L
    OBVIOUS
  <2> QED
    BY <1>a, <2>1, EffectsAre
<1>6. Effects(L + 1)' = IF EscapeByte(b) THEN Effects(L) ELSE Effects(L) + 1
  <2> DEFINE S == {j \in 1 .. L : ~EscapeAt(j)}
  <2>1. IsFiniteSet(S) /\ L + 1 \notin S
    <3>1. IsFiniteSet(1 .. L) /\ S \in SUBSET (1 .. L)
      BY <1>1, FS_Interval
    <3>2. L + 1 \notin S
      BY <1>1
    <3> HIDE DEF S
    <3> QED
      BY <3>1, <3>2, FS_Subset
  <2>2. {j \in 1 .. L + 1 : ~EscapeAt(j)'} = IF EscapeByte(b) THEN S ELSE S \cup {L + 1}
    <3>1. \A j \in 1 .. L + 1 : j \in 1 .. L \/ j = L + 1
      BY <1>1
    <3>2. \A j \in 1 .. L : EscapeAt(j)' <=> EscapeAt(j)
      BY <1>a
    <3>3. L + 1 \in 1 .. L + 1 /\ \A j \in 1 .. L : j \in 1 .. L + 1
      BY <1>1
    <3> QED
      BY <1>4, <3>1, <3>2, <3>3
  <2>3. Effects(L + 1)' = Cardinality({j \in 1 .. L + 1 : ~EscapeAt(j)'})
    BY <1>3 DEF Effects
  <2>4. Effects(L) = Cardinality(S)
    BY DEF Effects
  <2> HIDE DEF S
  <2>5. Cardinality(S \cup {L + 1}) = Cardinality(S) + 1
    BY <2>1, FS_AddElement
  <2> QED
    BY <2>2, <2>3, <2>4, <2>5
<1>7. Len(did') = Effects(L + 1)'
  <2>1. CASE EscapeByte(b)
    <3>1. did' = did
      BY <2>1, ConcatEmptySeq DEF HistoryInv
    <3> QED
      BY <1>1, <1>6, <2>1, <3>1
  <2>2. CASE ~EscapeByte(b)
    <3>1. Len(what) = 1
      <4> DEFINE e == <<IF KeyByte(b) THEN "command" ELSE "data", b>>
      <4>1. what = <<e>>
        BY <2>2
      <4> HIDE DEF e
      <4> QED
        BY <4>1, OneEntry, Zenon
    <3>2. Len(did') = Len(did) + Len(what)
      BY ConcatProperties DEF HistoryInv
    <3> QED
      BY <1>1, <1>6, <2>2, <3>1, <3>2
  <2> QED
    BY <2>1, <2>2
<1>8. ASSUME NEW i \in 1 .. L, ~EscapeAt(i)'
      PROVE  did'[Effects(i)'] = <<IF FunctionAt(i)' /\ raw'[i] # Escape THEN "command" ELSE "data", raw'[i]>>
  <2>1. i \in 0 .. L /\ i \in 1 .. L + 1 /\ i \in Nat /\ i > 0
    BY <1>1
  <2>2. ~EscapeAt(i) /\ Effects(i)' = Effects(i) /\ raw'[i] = raw[i] /\ (FunctionAt(i)' <=> FunctionAt(i))
    BY <1>8, <1>a, <2>1
  <2>3. Effects(i) \in 1 .. Len(did)
    <3>1. Effects(i) \in Nat /\ Effects(i) > 0
      BY <2>1, <2>2, EffectsAre
    <3>2. Effects(i) <= Effects(L)
      BY <1>1, <2>1, EffectsAre
    <3> QED
      BY <1>1, <1>5, <3>1, <3>2
  <2>4. did'[Effects(i)] = did[Effects(i)]
    BY <2>3, ConcatProperties DEF HistoryInv
  <2>5. did[Effects(i)] = <<IF FunctionAt(i) /\ raw[i] # Escape THEN "command" ELSE "data", raw[i]>>
    BY <1>1, <2>2 DEF KeyInv, KeysTakeEffect
  <2> QED
    BY <2>2, <2>4, <2>5
<1>9. ASSUME ~EscapeAt(L + 1)'
      PROVE  did'[Effects(L + 1)'] = <<IF FunctionAt(L + 1)' /\ raw'[L + 1] # Escape THEN "command" ELSE "data",
                                       raw'[L + 1]>>
  <2> DEFINE e == <<IF KeyByte(b) THEN "command" ELSE "data", b>>
  <2>1. Effects(L + 1)' = Len(did) + 1 /\ what = <<e>>
    BY <1>1, <1>4, <1>6, <1>9
  <2> HIDE DEF e
  <2>2. did'[Len(did) + 1] = what[1] /\ what[1] = e
    <3>1. Len(what) = 1 /\ what[1] = e
      BY <2>1, OneEntry, Zenon
    <3>2. did \in Seq({"data", "command"} \X Byte)
      BY DEF HistoryInv
    <3>3. Len(did) \in Nat /\ Len(did) + 1 \in 1 .. Len(did) + Len(what) /\ Len(did) + 1 - Len(did) = 1
      BY <3>1, <3>2
    <3> QED
      BY <3>1, <3>2, <3>3, ConcatProperties
  <2>3. KeyByte(b) <=> FunctionAt(L + 1)' /\ raw'[L + 1] # Escape
    BY <1>2, <1>3 DEF KeyByte
  <2> QED
    BY <1>3, <2>1, <2>2, <2>3 DEF e
<1>10. \A i \in 1 .. L + 1 : i \in 1 .. L \/ i = L + 1
  OBVIOUS
<1> QED
  BY <1>3, <1>7, <1>8, <1>9, <1>10 DEF KeysTakeEffect

(* The rule holds before the first byte,                                   *)
LEMMA KeyInvInit == Init => KeyInv
<1> SUFFICES ASSUME Init
             PROVE  KeyInv
  OBVIOUS
<1>1. raw = <<>> /\ Len(raw) = 0 /\ Len(did) = 0 /\ state = "TRANSPARENT" /\ DOMAIN raw = {}
  BY DEF Init
<1>2. EscapesAtEnd(0) /\ 0 % 2 # 1
  BY <1>1 DEF EscapesAtEnd
<1>3. Effects(0) = 0
  <2>1. {j \in 1 .. 0 : ~EscapeAt(j)} = {}
    OBVIOUS
  <2> QED
    BY <2>1, FS_EmptySet DEF Effects
<1>4. KeysTakeEffect
  BY <1>1, <1>3 DEF KeysTakeEffect
<1> QED
  BY <1>1, <1>2, <1>4 DEF KeyInv

(* and after every byte.                                                   *)
LEMMA KeyInvStep == LoopInv /\ LoopInv' /\ KeyInv /\ [Next]_vars => KeyInv'
<1> SUFFICES ASSUME LoopInv, LoopInv', KeyInv, [Next]_vars
             PROVE  KeyInv'
  OBVIOUS
<1>1. HistoryInv /\ HistoryInv' /\ BytesInv /\ state \in {"TRANSPARENT", "COMMAND"}
  BY DEF LoopInv, ControlInv
<1>2. CASE UNCHANGED <<state, raw, did>>
  <2>1. /\ \A i : FunctionAt(i)' <=> FunctionAt(i)
        /\ \A n : EscapesAtEnd(n)' <=> EscapesAtEnd(n)
    BY <1>2 DEF FunctionAt, EscapesAtEnd
  <2>2. \A i : EscapeAt(i)' <=> EscapeAt(i)
    BY <1>2, <2>1 DEF EscapeAt
  <2>3. \A i : Effects(i)' = Effects(i)
    <3> TAKE i
    <3>1. {j \in 1 .. i : ~EscapeAt(j)}' = {j \in 1 .. i : ~EscapeAt(j)}
      BY <2>2
    <3> QED
      BY <3>1 DEF Effects
  <2> QED
    BY <1>2, <2>1, <2>2, <2>3 DEF KeyInv, KeysTakeEffect
<1>3. CASE UNCHANGED vars
  BY <1>2, <1>3 DEF vars, loopvars, history
<1>4. CASE Next /\ ~UNCHANGED <<state, raw, did>>
  <2>1. PICK b \in Byte :
              /\ raw' = Append(raw, b)
              /\ \/ EscapeByte(b) /\ did' = did \o <<>> /\ state' = "COMMAND"
                 \/ /\ ~EscapeByte(b) /\ ~KeyByte(b) /\ state' = "TRANSPARENT"
                    /\ did' = did \o <<<<"data", b>>>>
                 \/ /\ KeyByte(b) /\ state' = "TRANSPARENT"
                    /\ did' = did \o <<<<"command", b>>>>
    BY <1>1, <1>4, HandledSteps
  <2>2. KeyByte(b) => ~EscapeByte(b)
    BY DEF KeyByte, EscapeByte
  <2> DEFINE what == IF EscapeByte(b) THEN <<>>
                     ELSE <<<<IF KeyByte(b) THEN "command" ELSE "data", b>>>>
  <2>3. what \in Seq({"data", "command"} \X Byte)
    <3>1. \A e \in {"data", "command"} \X Byte : <<>> \in Seq({"data", "command"} \X Byte)
                                                /\ <<e>> \in Seq({"data", "command"} \X Byte)
      OBVIOUS
    <3>2. <<"data", b>> \in {"data", "command"} \X Byte /\ <<"command", b>> \in {"data", "command"} \X Byte
      OBVIOUS
    <3>3. what \in {<<>>, <<<<"data", b>>>>, <<<<"command", b>>>>}
      OBVIOUS
    <3> HIDE DEF what
    <3> QED
      BY <3>1, <3>2, <3>3
  <2>4. did' = did \o what /\ state' = IF EscapeByte(b) THEN "COMMAND" ELSE "TRANSPARENT"
    BY <2>1, <2>2
  <2> HIDE DEF what
  <2>5. what = IF EscapeByte(b) THEN <<>>
               ELSE <<<<IF KeyByte(b) THEN "command" ELSE "data", b>>>>
    BY DEF what
  <2>6. KeysTakeEffect'
    BY <1>1, <2>1, <2>3, <2>4, <2>5, EffectStep
  <2>7. \E n \in Nat : EscapesAtEnd(n)' /\ (state' = "COMMAND" <=> ~NoEscape /\ n % 2 = 1)
    BY <1>1, <2>1, <2>4, ParityStep
  <2> QED
    BY <2>6, <2>7 DEF KeyInv
<1> QED
  BY <1>2, <1>3, <1>4

(* However the bytes typed are divided into reads, and whatever commands,  *)
(* prompts and failures come between them: a byte is a command iff an odd  *)
(* number of escape characters precedes it, data otherwise, and each has   *)
(* its effect once and in the order typed.                                 *)
THEOREM KeysActAsTyped == Spec => []KeysTakeEffect
<1>1. KeyInv => KeysTakeEffect
  BY DEF KeyInv
<1> QED
  BY <1>1, LoopInvariant, KeyInvInit, KeyInvStep, PTL DEF Spec
=============================================================================
