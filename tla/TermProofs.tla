----------------------------- MODULE TermProofs -----------------------------
(***************************************************************************)
(* Proofs about the terminal management library: lemmas about the setters  *)
(* and getters of the settings structure, for any set of speeds, and the   *)
(* theorems about the table, for any number of slots and descriptors, any  *)
(* device and any mix of failing device calls.                             *)
(***************************************************************************)
EXTENDS Term, Setters, LeastElement, FiniteSetTheorems

(* Every setter yields a settings structure again.                         *)
LEMMA SettersTyped ==
  ASSUME NEW t \in TermiosType
  PROVE  /\ SetRaw(t) \in TermiosType
         /\ \A b \in Speed : SetBaud(t, b) \in TermiosType
         /\ \A p \in Parity : SetParity(t, p) \in TermiosType
         /\ \A n \in DataBits : SetDataBits(t, n) \in TermiosType
         /\ \A n \in StopBits : SetStopBits(t, n) \in TermiosType
         /\ \A f \in Flow : SetFlow(t, f) \in TermiosType
         /\ \A on : SetLocal(t, on) \in TermiosType
         /\ \A on : SetHupcl(t, on) \in TermiosType
<1> USE DEF TermiosType, Flags, IFlag, CFlag
<1>1. SetRaw(t) \in TermiosType
  <2>1. PICK w \in SUBSET IFlag, v \in SUBSET CFlag :
          SetRaw(t) = [t EXCEPT !.mode = "raw", !.csize = 8, !.iflag = w, !.cflag = v]
    BY DEF SetRaw
  <2>2. \A n \in 5..8, c \in {"cooked", "raw"} :
          [t EXCEPT !.mode = c, !.csize = n] \in TermiosType
    OBVIOUS
  <2>3. \A u \in TermiosType : [u EXCEPT !.iflag = w, !.cflag = v] \in TermiosType
    OBVIOUS
  <2>4. [t EXCEPT !.mode = "raw", !.csize = 8] \in TermiosType
    <3>1. 8 \in 5..8 /\ "raw" \in {"cooked", "raw"}
      OBVIOUS
    <3> HIDE DEF TermiosType
    <3> QED
      BY <2>2, <3>1
  <2> QED
    BY <2>1, <2>3, <2>4
<1>2. \A b \in Speed : SetBaud(t, b) \in TermiosType
  BY DEF SetBaud
<1>3. ASSUME NEW p \in Parity
      PROVE  SetParity(t, p) \in TermiosType
  <2>1. PICK w \in SUBSET CFlag : SetParity(t, p) = [t EXCEPT !.cflag = w]
    <3>1. CASE p = "P_EVEN"  BY <3>1 DEF SetParity
    <3>2. CASE p = "P_ODD"   BY <3>2 DEF SetParity
    <3>3. CASE p = "P_MARK"  BY <3>3 DEF SetParity
    <3>4. CASE p = "P_SPACE" BY <3>4 DEF SetParity
    <3>5. CASE p = "P_NONE"  BY <3>5 DEF SetParity
    <3> QED
      BY <3>1, <3>2, <3>3, <3>4, <3>5 DEF Parity
  <2> QED
    BY <2>1
<1>4. \A n \in DataBits : SetDataBits(t, n) \in TermiosType
  BY DEF SetDataBits, DataBits
<1>5. \A n \in StopBits : SetStopBits(t, n) \in TermiosType
  BY DEF SetStopBits, StopBits
<1>6. \A f \in Flow : SetFlow(t, f) \in TermiosType
  BY DEF SetFlow, Flow
<1>7. \A on : SetLocal(t, on) \in TermiosType
  BY DEF SetLocal
<1>8. \A on : SetHupcl(t, on) \in TermiosType
  BY DEF SetHupcl
<1> QED
  BY <1>1, <1>2, <1>3, <1>4, <1>5, <1>6, <1>7, <1>8

LEMMA SetAllTyped ==
  ASSUME NEW t \in TermiosType, NEW a
  PROVE  SetAll(t, a) \in TermiosType
<1> DEFINE t0 == IF a.raw THEN SetRaw(t) ELSE t
           t1 == SetBaud(t0, a.baud)
           t2 == SetParity(t1, a.parity)
           t3 == SetDataBits(t2, a.bits)
           t4 == SetStopBits(t3, a.stop)
           t5 == SetFlow(t4, a.flow)
<1>0. t0 \in TermiosType
  BY SettersTyped
<1>1. a.baud \in Speed => t1 \in TermiosType
  BY <1>0, SettersTyped
<1>2. a.baud \in Speed /\ a.parity \in Parity => t2 \in TermiosType
  BY <1>1, SettersTyped
<1>3. a.baud \in Speed /\ a.parity \in Parity /\ a.bits \in DataBits => t3 \in TermiosType
  BY <1>2, SettersTyped
<1>4. a.baud \in Speed /\ a.parity \in Parity /\ a.bits \in DataBits /\ a.stop \in StopBits
        => t4 \in TermiosType
  BY <1>3, SettersTyped
<1>5. ValidArgs(a) => t5 \in TermiosType
  BY <1>4, SettersTyped DEF ValidArgs
<1>6. ValidArgs(a) => SetHupcl(SetLocal(t5, a.local), a.hupcl) \in TermiosType
  BY <1>5, SettersTyped
<1> HIDE DEF t0, t1, t2, t3, t4, t5
<1>7. SetAll(t, a) = IF a.baud \notin Speed    THEN t0
      ELSE IF a.parity \notin Parity THEN t1
      ELSE IF a.bits \notin DataBits THEN t2
      ELSE IF a.stop \notin StopBits THEN t3
      ELSE IF a.flow \notin Flow     THEN t4
      ELSE SetHupcl(SetLocal(t5, a.local), a.hupcl)
  BY DEF SetAll, t0, t1, t2, t3, t4, t5
<1>8. CASE ValidArgs(a)
  <2>1. SetAll(t, a) = SetHupcl(SetLocal(t5, a.local), a.hupcl)
    BY <1>7, <1>8 DEF ValidArgs
  <2> QED
    BY <2>1, <1>6, <1>8
<1>9. CASE ~ValidArgs(a)
  BY <1>0, <1>1, <1>2, <1>3, <1>4, <1>7, <1>9 DEF ValidArgs
<1> QED
  BY <1>8, <1>9

LEMMA OneSettingTyped ==
  ASSUME NEW t \in TermiosType, NEW a
  PROVE  OneSetting(t, a) \subseteq TermiosType
BY SettersTyped DEF OneSetting

-----------------------------------------------------------------------------
(* What each setter writes, field by field.                                *)
SameBut(t, u, fields) == /\ "iflag" \in fields \/ u.iflag = t.iflag
                         /\ "cflag" \in fields \/ u.cflag = t.cflag
                         /\ "csize" \in fields \/ u.csize = t.csize
                         /\ "speed" \in fields \/ u.speed = t.speed

LEMMA SettersWrite ==
  ASSUME NEW t \in TermiosType
  PROVE  /\ SameBut(t, SetRaw(t), {"iflag", "cflag", "csize"})
         /\ \A b \in Speed : SetBaud(t, b).speed = b /\ SameBut(t, SetBaud(t, b), {"speed"})
         /\ \A p \in Parity : SameBut(t, SetParity(t, p), {"cflag"})
         /\ \A n \in DataBits : SetDataBits(t, n).csize = n /\ SameBut(t, SetDataBits(t, n), {"csize"})
         /\ \A n \in StopBits : SameBut(t, SetStopBits(t, n), {"cflag"})
         /\ \A f \in Flow : SameBut(t, SetFlow(t, f), {"iflag", "cflag"})
         /\ \A on \in BOOLEAN : SameBut(t, SetLocal(t, on), {"cflag"})
         /\ \A on \in BOOLEAN : SameBut(t, SetHupcl(t, on), {"cflag"})
<1> USE DEF TermiosType, SameBut
<1>1. SameBut(t, SetRaw(t), {"iflag", "cflag", "csize"})
  BY DEF SetRaw
<1>2. \A b \in Speed : SetBaud(t, b).speed = b /\ SameBut(t, SetBaud(t, b), {"speed"})
  BY DEF SetBaud
<1>3. \A p \in Parity : SameBut(t, SetParity(t, p), {"cflag"})
  BY DEF SetParity
<1>4. \A n \in DataBits : SetDataBits(t, n).csize = n /\ SameBut(t, SetDataBits(t, n), {"csize"})
  BY DEF SetDataBits, DataBits
<1>5. \A n \in StopBits : SameBut(t, SetStopBits(t, n), {"cflag"})
  BY DEF SetStopBits
<1>6. \A f \in Flow : SameBut(t, SetFlow(t, f), {"iflag", "cflag"})
  BY DEF SetFlow, Flow
<1>7. \A on \in BOOLEAN : SameBut(t, SetLocal(t, on), {"cflag"})
  BY DEF SetLocal
<1>8. \A on \in BOOLEAN : SameBut(t, SetHupcl(t, on), {"cflag"})
  BY DEF SetHupcl
<1> QED
  BY <1>1, <1>2, <1>3, <1>4, <1>5, <1>6, <1>7, <1>8

(* The control flags are shared: a setter moves those of its own setting.  *)
ParityFlags == {"PARENB", "PARODD", "CMSPAR"}

LEMMA CflagWrites ==
  ASSUME NEW t \in TermiosType
  PROVE  /\ \A p \in Parity : SetParity(t, p).cflag \ ParityFlags = t.cflag \ ParityFlags
         /\ \A n \in StopBits : SetStopBits(t, n).cflag \ {"CSTOPB"} = t.cflag \ {"CSTOPB"}
         /\ \A f \in Flow : SetFlow(t, f).cflag \ {"CRTSCTS"} = t.cflag \ {"CRTSCTS"}
         /\ \A on \in BOOLEAN : SetLocal(t, on).cflag \ {"CLOCAL"} = t.cflag \ {"CLOCAL"}
         /\ \A on \in BOOLEAN : SetHupcl(t, on).cflag \ {"HUPCL"} = t.cflag \ {"HUPCL"}
<1> USE DEF TermiosType, Flags
<1>1. \A p \in Parity : SetParity(t, p).cflag \ ParityFlags = t.cflag \ ParityFlags
  BY DEF SetParity, Parity, ParityFlags
<1>2. \A n \in StopBits : SetStopBits(t, n).cflag \ {"CSTOPB"} = t.cflag \ {"CSTOPB"}
  BY DEF SetStopBits
<1>3. \A f \in Flow : SetFlow(t, f).cflag \ {"CRTSCTS"} = t.cflag \ {"CRTSCTS"}
  BY DEF SetFlow, Flow
<1>4. \A on \in BOOLEAN : SetLocal(t, on).cflag \ {"CLOCAL"} = t.cflag \ {"CLOCAL"}
  BY DEF SetLocal
<1>5. \A on \in BOOLEAN : SetHupcl(t, on).cflag \ {"HUPCL"} = t.cflag \ {"HUPCL"}
  BY DEF SetHupcl
<1> QED
  BY <1>1, <1>2, <1>3, <1>4, <1>5

(* What is read depends on few of the fields and flags.                    *)
LEMMA ParityReads ==
  ASSUME NEW t \in TermiosType, NEW u \in TermiosType,
         t.cflag \cap ParityFlags = u.cflag \cap ParityFlags
  PROVE  GetParity(t) = GetParity(u)
BY DEF GetParity, ParityFlags

LEMMA StopReads ==
  ASSUME NEW t \in TermiosType, NEW u \in TermiosType, "CSTOPB" \in t.cflag <=> "CSTOPB" \in u.cflag
  PROVE  GetStopBits(t) = GetStopBits(u)
BY DEF GetStopBits

LEMMA FlowReads ==
  ASSUME NEW t \in TermiosType, NEW u \in TermiosType, t.iflag = u.iflag,
         "CRTSCTS" \in t.cflag <=> "CRTSCTS" \in u.cflag
  PROVE  GetFlow(t) = GetFlow(u)
BY DEF GetFlow

(* A getter reads what its setter wrote.                                   *)
LEMMA ReadsItsOwn ==
  ASSUME NEW t \in TermiosType
  PROVE  /\ \A p \in Parity : GetParity(SetParity(t, p)) = p
         /\ \A n \in StopBits : GetStopBits(SetStopBits(t, n)) = n
         /\ \A f \in Flow : GetFlow(SetFlow(t, f)) = f
<1> USE DEF TermiosType, Flags
<1>1. ASSUME NEW p \in Parity PROVE GetParity(SetParity(t, p)) = p
  <2>1. CASE p = "P_EVEN"  BY <2>1 DEF SetParity, GetParity
  <2>2. CASE p = "P_ODD"   BY <2>2 DEF SetParity, GetParity
  <2>3. CASE p = "P_MARK"  BY <2>3 DEF SetParity, GetParity
  <2>4. CASE p = "P_SPACE" BY <2>4 DEF SetParity, GetParity
  <2>5. CASE p = "P_NONE"  BY <2>5 DEF SetParity, GetParity
  <2> QED
    BY <2>1, <2>2, <2>3, <2>4, <2>5 DEF Parity
<1>2. \A n \in StopBits : GetStopBits(SetStopBits(t, n)) = n
  BY DEF SetStopBits, GetStopBits, StopBits
<1>3. ASSUME NEW f \in Flow PROVE GetFlow(SetFlow(t, f)) = f
  <2>1. CASE f = "FC_RTSCTS"  BY <2>1 DEF SetFlow, GetFlow, IFlag
  <2>2. CASE f = "FC_XONXOFF" BY <2>2 DEF SetFlow, GetFlow, IFlag
  <2>3. CASE f = "FC_NONE"    BY <2>3 DEF SetFlow, GetFlow, IFlag
  <2> QED
    BY <2>1, <2>2, <2>3 DEF Flow
<1> QED
  BY <1>1, <1>2, <1>3

(* The flags that only their own setter writes.                            *)
LEMMA OthersKeep ==
  ASSUME NEW t \in TermiosType
  PROVE  /\ \A b \in Speed : SetBaud(t, b).cflag = t.cflag /\ SetBaud(t, b).mode = t.mode
         /\ \A p \in Parity : SetParity(t, p).mode = t.mode
         /\ \A n \in DataBits : SetDataBits(t, n).mode = t.mode
         /\ \A n \in StopBits : SetStopBits(t, n).mode = t.mode
         /\ \A f \in Flow : SetFlow(t, f).mode = t.mode
         /\ \A on \in BOOLEAN : SetLocal(t, on).mode = t.mode /\ SetHupcl(t, on).mode = t.mode
         /\ SetRaw(t).mode = "raw"
<1> USE DEF TermiosType
<1>1. \A b \in Speed : SetBaud(t, b).cflag = t.cflag /\ SetBaud(t, b).mode = t.mode
  BY DEF SetBaud
<1>2. \A p \in Parity : SetParity(t, p).mode = t.mode
  BY DEF SetParity
<1>3. \A n \in DataBits : SetDataBits(t, n).mode = t.mode
  BY DEF SetDataBits
<1>4. \A n \in StopBits : SetStopBits(t, n).mode = t.mode
  BY DEF SetStopBits
<1>5. \A f \in Flow : SetFlow(t, f).mode = t.mode
  BY DEF SetFlow, Flow
<1>6. \A on \in BOOLEAN : SetLocal(t, on).mode = t.mode /\ SetHupcl(t, on).mode = t.mode
  BY DEF SetLocal, SetHupcl
<1>7. SetRaw(t).mode = "raw"
  BY DEF SetRaw
<1> QED
  BY <1>1, <1>2, <1>3, <1>4, <1>5, <1>6, <1>7

LEMMA LocalHupclWrite ==
  ASSUME NEW t \in TermiosType, NEW on \in BOOLEAN
  PROVE  /\ Local(SetLocal(t, on)) = on /\ Hupcl(SetLocal(t, on)) = Hupcl(t)
         /\ Hupcl(SetHupcl(t, on)) = on /\ Local(SetHupcl(t, on)) = Local(t)
BY DEF SetLocal, SetHupcl, Local, Hupcl, Flags, TermiosType

(* What two structures differ in, as the getters see it.                   *)
SameReport(t, u, but) ==
  /\ but = "raw" \/ u.mode = t.mode
  /\ but = "baud" \/ u.speed = t.speed
  /\ but = "parity" \/ GetParity(u) = GetParity(t)
  /\ but = "bits" \/ u.csize = t.csize
  /\ but = "stop" \/ GetStopBits(u) = GetStopBits(t)
  /\ but = "flow" \/ GetFlow(u) = GetFlow(t)
  /\ but = "local" \/ (Local(u) <=> Local(t))
  /\ but = "hupcl" \/ (Hupcl(u) <=> Hupcl(t))

LEMMA SettersReport ==
  ASSUME NEW t \in TermiosType
  PROVE  /\ \A b \in Speed : SameReport(t, SetBaud(t, b), "baud")
         /\ \A p \in Parity : SameReport(t, SetParity(t, p), "parity")
         /\ \A n \in DataBits : SameReport(t, SetDataBits(t, n), "bits")
         /\ \A n \in StopBits : SameReport(t, SetStopBits(t, n), "stop")
         /\ \A f \in Flow : SameReport(t, SetFlow(t, f), "flow")
         /\ \A on \in BOOLEAN : SameReport(t, SetLocal(t, on), "local")
         /\ \A on \in BOOLEAN : SameReport(t, SetHupcl(t, on), "hupcl")
<1>1. \A u \in TermiosType :
        /\ t.cflag \cap ParityFlags = u.cflag \cap ParityFlags => GetParity(t) = GetParity(u)
        /\ ("CSTOPB" \in t.cflag <=> "CSTOPB" \in u.cflag) => GetStopBits(t) = GetStopBits(u)
        /\ t.iflag = u.iflag /\ ("CRTSCTS" \in t.cflag <=> "CRTSCTS" \in u.cflag)
             => GetFlow(t) = GetFlow(u)
  BY ParityReads, StopReads, FlowReads
<1>2. ASSUME NEW b \in Speed
      PROVE  SameReport(t, SetBaud(t, b), "baud")
  BY <1>1, SettersTyped, SettersWrite, OthersKeep DEF SameReport, SameBut, Local, Hupcl
<1>3. ASSUME NEW p \in Parity
      PROVE  SameReport(t, SetParity(t, p), "parity")
  <2>1. SetParity(t, p).cflag \ ParityFlags = t.cflag \ ParityFlags
    BY CflagWrites
  <2> QED
    BY <1>1, <2>1, SettersTyped, SettersWrite, OthersKeep
    DEF SameReport, SameBut, Local, Hupcl, ParityFlags
<1>4. ASSUME NEW n \in DataBits
      PROVE  SameReport(t, SetDataBits(t, n), "bits")
  BY <1>1, SettersTyped, SettersWrite, OthersKeep DEF SameReport, SameBut, Local, Hupcl
<1>5. ASSUME NEW n \in StopBits
      PROVE  SameReport(t, SetStopBits(t, n), "stop")
  <2>1. SetStopBits(t, n).cflag \ {"CSTOPB"} = t.cflag \ {"CSTOPB"}
    BY CflagWrites
  <2> QED
    BY <1>1, <2>1, SettersTyped, SettersWrite, OthersKeep
    DEF SameReport, SameBut, Local, Hupcl, ParityFlags
<1>6. ASSUME NEW f \in Flow
      PROVE  SameReport(t, SetFlow(t, f), "flow")
  <2>1. SetFlow(t, f).cflag \ {"CRTSCTS"} = t.cflag \ {"CRTSCTS"}
    BY CflagWrites
  <2> QED
    BY <1>1, <2>1, SettersTyped, SettersWrite, OthersKeep
    DEF SameReport, SameBut, Local, Hupcl, ParityFlags
<1>7. ASSUME NEW on \in BOOLEAN
      PROVE  SameReport(t, SetLocal(t, on), "local")
  <2>1. SetLocal(t, on).cflag \ {"CLOCAL"} = t.cflag \ {"CLOCAL"}
    BY CflagWrites
  <2> QED
    BY <1>1, <2>1, SettersTyped, SettersWrite, OthersKeep
    DEF SameReport, SameBut, Local, Hupcl, ParityFlags
<1>8. ASSUME NEW on \in BOOLEAN
      PROVE  SameReport(t, SetHupcl(t, on), "hupcl")
  <2>1. SetHupcl(t, on).cflag \ {"HUPCL"} = t.cflag \ {"HUPCL"}
    BY CflagWrites
  <2> QED
    BY <1>1, <2>1, SettersTyped, SettersWrite, OthersKeep
    DEF SameReport, SameBut, Local, Hupcl, ParityFlags
<1> QED
  BY <1>2, <1>3, <1>4, <1>5, <1>6, <1>7, <1>8

LEMMA ReportFields ==
  ASSUME NEW u
  PROVE  /\ DOMAIN Report(u) = {"raw", "baud", "parity", "bits", "stop", "flow", "local", "hupcl"}
         /\ Report(u)["raw"] = (u.mode = "raw") /\ Report(u)["baud"] = u.speed
         /\ Report(u)["parity"] = GetParity(u) /\ Report(u)["bits"] = u.csize
         /\ Report(u)["stop"] = GetStopBits(u) /\ Report(u)["flow"] = GetFlow(u)
         /\ Report(u)["local"] = Local(u) /\ Report(u)["hupcl"] = Hupcl(u)
BY DEF Report

LEMMA OwnSetting ==
  ASSUME NEW t, NEW u, NEW op \in DOMAIN Report(t), op # "raw", SameReport(t, u, op)
  PROVE  SetsItsOwn(op, Report(u)[op], t, u)
<1> SUFFICES ASSUME NEW f \in DOMAIN Report(t), f # op
             PROVE  Report(u)[f] = Report(t)[f]
  BY DEF SetsItsOwn
<1>1. CASE f = "raw"
  BY <1>1, ReportFields DEF SameReport
<1>2. CASE f = "local"
  BY <1>2, ReportFields DEF SameReport, Local
<1>3. CASE f = "hupcl"
  BY <1>3, ReportFields DEF SameReport, Hupcl
<1>4. CASE f \in {"baud", "parity", "bits", "stop", "flow"}
  BY <1>4, ReportFields DEF SameReport
<1> QED
  BY <1>1, <1>2, <1>3, <1>4, ReportFields

(* What is asked of a setter its getter returns, and no other one.         *)
LEMMA SettersApart ==
  ASSUME NEW t \in TermiosType
  PROVE  /\ \A b \in Speed : SetsItsOwn("baud", b, t, SetBaud(t, b))
         /\ \A p \in Parity : SetsItsOwn("parity", p, t, SetParity(t, p))
         /\ \A n \in DataBits : SetsItsOwn("bits", n, t, SetDataBits(t, n))
         /\ \A n \in StopBits : SetsItsOwn("stop", n, t, SetStopBits(t, n))
         /\ \A f \in Flow : SetsItsOwn("flow", f, t, SetFlow(t, f))
         /\ \A on \in BOOLEAN : SetsItsOwn("local", on, t, SetLocal(t, on))
         /\ \A on \in BOOLEAN : SetsItsOwn("hupcl", on, t, SetHupcl(t, on))
<1>0. DOMAIN Report(t) = {"raw", "baud", "parity", "bits", "stop", "flow", "local", "hupcl"}
  BY ReportFields
<1>1. ASSUME NEW b \in Speed
      PROVE  SetsItsOwn("baud", b, t, SetBaud(t, b))
  <2>1. Report(SetBaud(t, b))["baud"] = b /\ SameReport(t, SetBaud(t, b), "baud")
    BY SettersReport, SettersWrite, ReportFields
  <2> QED
    BY <1>0, <2>1, OwnSetting
<1>2. ASSUME NEW p \in Parity
      PROVE  SetsItsOwn("parity", p, t, SetParity(t, p))
  <2>1. Report(SetParity(t, p))["parity"] = p /\ SameReport(t, SetParity(t, p), "parity")
    BY SettersReport, ReadsItsOwn, ReportFields
  <2> QED
    BY <1>0, <2>1, OwnSetting
<1>3. ASSUME NEW n \in DataBits
      PROVE  SetsItsOwn("bits", n, t, SetDataBits(t, n))
  <2>1. Report(SetDataBits(t, n))["bits"] = n /\ SameReport(t, SetDataBits(t, n), "bits")
    BY SettersReport, SettersWrite, ReportFields
  <2> QED
    BY <1>0, <2>1, OwnSetting
<1>4. ASSUME NEW n \in StopBits
      PROVE  SetsItsOwn("stop", n, t, SetStopBits(t, n))
  <2>1. Report(SetStopBits(t, n))["stop"] = n /\ SameReport(t, SetStopBits(t, n), "stop")
    BY SettersReport, ReadsItsOwn, ReportFields
  <2> QED
    BY <1>0, <2>1, OwnSetting
<1>5. ASSUME NEW f \in Flow
      PROVE  SetsItsOwn("flow", f, t, SetFlow(t, f))
  <2>1. Report(SetFlow(t, f))["flow"] = f /\ SameReport(t, SetFlow(t, f), "flow")
    BY SettersReport, ReadsItsOwn, ReportFields
  <2> QED
    BY <1>0, <2>1, OwnSetting
<1>6. ASSUME NEW on \in BOOLEAN
      PROVE  SetsItsOwn("local", on, t, SetLocal(t, on))
  <2>1. Report(SetLocal(t, on))["local"] = Local(SetLocal(t, on))
    BY ReportFields
  <2>2. Local(SetLocal(t, on)) = on /\ SameReport(t, SetLocal(t, on), "local")
    BY SettersReport, LocalHupclWrite
  <2> QED
    BY <1>0, <2>1, <2>2, OwnSetting
<1>7. ASSUME NEW on \in BOOLEAN
      PROVE  SetsItsOwn("hupcl", on, t, SetHupcl(t, on))
  <2>1. Report(SetHupcl(t, on))["hupcl"] = Hupcl(SetHupcl(t, on))
    BY ReportFields
  <2>2. Hupcl(SetHupcl(t, on)) = on /\ SameReport(t, SetHupcl(t, on), "hupcl")
    BY SettersReport, LocalHupclWrite
  <2> QED
    BY <1>0, <2>1, <2>2, OwnSetting
<1> QED
  BY <1>1, <1>2, <1>3, <1>4, <1>5, <1>6, <1>7

(* All settings at once.                                                   *)
LEMMA ReadsAllBack ==
  ASSUME NEW t \in TermiosType, NEW a \in RawArgs
  PROVE  Report(SetAll(t, a)) = a
<1>0. /\ a.raw = TRUE /\ a.baud \in Speed /\ a.parity \in Parity /\ a.bits \in DataBits
      /\ a.stop \in StopBits /\ a.flow \in Flow /\ a.local \in BOOLEAN /\ a.hupcl \in BOOLEAN
  BY DEF RawArgs
<1> DEFINE t0 == SetRaw(t)
           t1 == SetBaud(t0, a.baud)
           t2 == SetParity(t1, a.parity)
           t3 == SetDataBits(t2, a.bits)
           t4 == SetStopBits(t3, a.stop)
           t5 == SetFlow(t4, a.flow)
           t6 == SetLocal(t5, a.local)
           t7 == SetHupcl(t6, a.hupcl)
<1>1. SetAll(t, a) = t7
  BY <1>0 DEF SetAll
<1>2. t0 \in TermiosType /\ t0.mode = "raw"
  BY SettersTyped, OthersKeep
<1> HIDE DEF t0
<1>3. t1 \in TermiosType /\ SameReport(t0, t1, "baud") /\ t1.speed = a.baud
  BY <1>0, <1>2, SettersTyped, SettersReport, SettersWrite
<1> HIDE DEF t1
<1>4. t2 \in TermiosType /\ SameReport(t1, t2, "parity") /\ GetParity(t2) = a.parity
  BY <1>0, <1>3, SettersTyped, SettersReport, ReadsItsOwn
<1> HIDE DEF t2
<1>5. t3 \in TermiosType /\ SameReport(t2, t3, "bits") /\ t3.csize = a.bits
  BY <1>0, <1>4, SettersTyped, SettersReport, SettersWrite
<1> HIDE DEF t3
<1>6. t4 \in TermiosType /\ SameReport(t3, t4, "stop") /\ GetStopBits(t4) = a.stop
  BY <1>0, <1>5, SettersTyped, SettersReport, ReadsItsOwn
<1> HIDE DEF t4
<1>7. t5 \in TermiosType /\ SameReport(t4, t5, "flow") /\ GetFlow(t5) = a.flow
  BY <1>0, <1>6, SettersTyped, SettersReport, ReadsItsOwn
<1> HIDE DEF t5
<1>8. t6 \in TermiosType /\ SameReport(t5, t6, "local") /\ Local(t6) = a.local
  BY <1>0, <1>7, SettersTyped, SettersReport, LocalHupclWrite
<1> HIDE DEF t6
<1>9. SameReport(t6, t7, "hupcl") /\ Hupcl(t7) = a.hupcl
  BY <1>0, <1>8, SettersReport, LocalHupclWrite
<1> HIDE DEF t7
<1>10. /\ t7.mode = "raw" /\ t7.speed = a.baud /\ GetParity(t7) = a.parity /\ t7.csize = a.bits
       /\ GetStopBits(t7) = a.stop /\ GetFlow(t7) = a.flow
  BY <1>2, <1>3, <1>4, <1>5, <1>6, <1>7, <1>8, <1>9 DEF SameReport
<1>11. Local(t7) = a.local
  BY <1>8, <1>9 DEF SameReport, Local
<1>12. (t7.mode = "raw") = a.raw
  BY <1>0, <1>10
<1>13. a = [raw |-> a.raw, baud |-> a.baud, parity |-> a.parity, bits |-> a.bits, stop |-> a.stop,
            flow |-> a.flow, local |-> a.local, hupcl |-> a.hupcl]
  BY DEF RawArgs
<1>14. Report(t7) = [raw |-> a.raw, baud |-> a.baud, parity |-> a.parity, bits |-> a.bits,
                     stop |-> a.stop, flow |-> a.flow, local |-> a.local, hupcl |-> a.hupcl]
  BY <1>9, <1>10, <1>11, <1>12 DEF Report
<1> QED
  BY <1>1, <1>13, <1>14

(* A structure stays one under the setters.                                *)
LEMMA StaysTermios == SetterSpec => [](tio \in TermiosType)
<1>1. SetterInit => tio \in TermiosType
  BY DEF SetterInit
<1>2. tio \in TermiosType /\ [SetOne]_settervars => (tio \in TermiosType)'
  BY SettersTyped DEF SetOne, Do, settervars
<1> QED
  BY <1>1, <1>2, PTL DEF SetterSpec

(* Each key that changes a setting changes that setting only, and to what  *)
(* was asked, from whatever a device was found with.                       *)
THEOREM SettersKeepApart == SetterSpec => SetterSetsItsOwn
<1> DEFINE Step == SetsItsOwn(call'[1], call'[2], tio, tio')
<1>1. tio \in TermiosType /\ [SetOne]_settervars => [Step]_settervars
  <2> SUFFICES ASSUME tio \in TermiosType, SetOne PROVE Step
    OBVIOUS
  <2>1. CASE Do("raw", TRUE, SetRaw(tio))
    <3>1. call' = <<"raw", TRUE>> /\ tio' = SetRaw(tio) /\ tio'.mode = "raw"
      BY <2>1, OthersKeep DEF Do
    <3>2. call'[1] = "raw" /\ call'[2] = TRUE
      BY <3>1
    <3>3. Report(tio')["raw"] = (tio'.mode = "raw")
      BY ReportFields
    <3> QED
      BY <3>1, <3>2, <3>3 DEF SetsItsOwn
  <2>2. ASSUME NEW op, NEW arg, NEW u, Do(op, arg, u), SetsItsOwn(op, arg, tio, u)
        PROVE  Step
    <3>1. call'[1] = op /\ call'[2] = arg /\ tio' = u
      BY <2>2 DEF Do
    <3> QED
      BY <2>2, <3>1
  <2> HIDE DEF Step
  <2> QED
    BY <2>1, <2>2, SettersApart DEF SetOne
<1> QED
  BY StaysTermios, <1>1, PTL DEF SetterSpec, SetterSetsItsOwn

(* With any options, and from whatever the port was found with, main()     *)
(* sets it up with all of them at once: no setter undoes an earlier one.   *)
THEOREM SettingsReadBack == SetterSpec => []SetAllReadsBack
<1>1. tio \in TermiosType => SetAllReadsBack
  BY ReadsAllBack DEF SetAllReadsBack
<1> QED
  BY StaysTermios, <1>1, PTL

-----------------------------------------------------------------------------
(* term_find() and term_find_next_free() stop at the first slot.           *)
LEMMA LowestSlot ==
  ASSUME NEW S \in SUBSET Slots, S # {}
  PROVE  Lowest(S) \in S /\ \A j \in S : Lowest(S) <= j
<1>1. S \in SUBSET Nat
  BY TermAssumption DEF Slots
<1>2. \E i \in S : \A j \in S : i <= j
  BY <1>1, LeastNat
<1> QED
  BY <1>2 DEF Lowest

LEMMA HighestSlot ==
  ASSUME NEW S \in SUBSET Slots, S # {}
  PROVE  Highest(S) \in S
<1> DEFINE Mirror == {MAX_TERMS - i : i \in S}
<1>1. S \in SUBSET Nat /\ \A i \in S : MAX_TERMS - i \in Nat
  BY TermAssumption DEF Slots
<1>2a. Mirror \in SUBSET Nat /\ Mirror # {}
  BY <1>1
<1>2. PICK m \in Mirror : \A k \in Mirror : m <= k
  <2> HIDE DEF Mirror
  <2> QED
    BY <1>2a, LeastNat
<1>3. PICK i \in S : m = MAX_TERMS - i
  BY <1>2
<1>4. \A j \in S : MAX_TERMS - i <= MAX_TERMS - j
  BY <1>2, <1>3
<1>5. \A j \in S : j <= i
  BY <1>4, <1>1, TermAssumption
<1> QED
  BY <1>5 DEF Highest

-----------------------------------------------------------------------------
(* HUPCL is one flag: what term_set_hupcl() writes is what the close sees. *)
LEMMA HupclFacts ==
  ASSUME NEW t \in TermiosType
  PROVE  /\ SetHupcl(t, Hupcl(t)) = t
         /\ \A h \in BOOLEAN : (Hupcl(SetHupcl(t, h)) <=> h)
         /\ \A h, k \in BOOLEAN : SetHupcl(SetHupcl(t, h), k) = SetHupcl(t, k)
<1> DEFINE on == t.cflag \cup {"HUPCL"}
           off == t.cflag \ {"HUPCL"}
<1>1. \A u \in TermiosType : u.cflag \in {t.cflag, on, off} =>
        /\ SetHupcl(u, TRUE) = [u EXCEPT !.cflag = on]
        /\ SetHupcl(u, FALSE) = [u EXCEPT !.cflag = off]
  <2>1. \A w \in {t.cflag, on, off} :
          Flags(w, {"HUPCL"}, {}) = on /\ Flags(w, {}, {"HUPCL"}) = off
    BY DEF Flags
  <2> HIDE DEF on, off
  <2>2. \A u \in TermiosType :
          /\ SetHupcl(u, TRUE) = [u EXCEPT !.cflag = Flags(u.cflag, {"HUPCL"}, {})]
          /\ SetHupcl(u, FALSE) = [u EXCEPT !.cflag = Flags(u.cflag, {}, {"HUPCL"})]
    BY DEF SetHupcl, TermiosType
  <2> QED
    BY <2>1, <2>2
<1>2. "HUPCL" \in on /\ "HUPCL" \notin off
  OBVIOUS
<1>3. ("HUPCL" \in t.cflag => on = t.cflag) /\ ("HUPCL" \notin t.cflag => off = t.cflag)
  OBVIOUS
<1> HIDE DEF on, off
<1>4. /\ SetHupcl(t, TRUE) = [t EXCEPT !.cflag = on]
      /\ SetHupcl(t, FALSE) = [t EXCEPT !.cflag = off]
  BY <1>1
<1>5. /\ [t EXCEPT !.cflag = on].cflag = on
      /\ [t EXCEPT !.cflag = off].cflag = off
      /\ [t EXCEPT !.cflag = t.cflag] = t
      /\ \A v, w : [[t EXCEPT !.cflag = v] EXCEPT !.cflag = w] = [t EXCEPT !.cflag = w]
  BY DEF TermiosType
<1>6. SetHupcl(t, TRUE) \in TermiosType /\ SetHupcl(t, FALSE) \in TermiosType
  BY SettersTyped
<1>7. Hupcl(SetHupcl(t, TRUE)) /\ ~Hupcl(SetHupcl(t, FALSE))
  BY <1>2, <1>4, <1>5 DEF Hupcl
<1>8. \A u, h : SetHupcl(u, h) = IF h THEN SetHupcl(u, TRUE) ELSE SetHupcl(u, FALSE)
  BY DEF SetHupcl
<1>9. SetHupcl(t, Hupcl(t)) = t
  <2>1. CASE Hupcl(t)
    <3>1. SetHupcl(t, Hupcl(t)) = SetHupcl(t, TRUE)
      BY <2>1, <1>8, Zenon
    <3> QED
      BY <3>1, <2>1, <1>3, <1>4, <1>5 DEF Hupcl
  <2>2. CASE ~Hupcl(t)
    <3>1. SetHupcl(t, Hupcl(t)) = SetHupcl(t, FALSE)
      BY <2>2, <1>8, Zenon
    <3> QED
      BY <3>1, <2>2, <1>3, <1>4, <1>5 DEF Hupcl
  <2> QED
    BY <2>1, <2>2
<1>10. /\ SetHupcl(SetHupcl(t, TRUE), TRUE) = SetHupcl(t, TRUE)
       /\ SetHupcl(SetHupcl(t, TRUE), FALSE) = SetHupcl(t, FALSE)
       /\ SetHupcl(SetHupcl(t, FALSE), TRUE) = SetHupcl(t, TRUE)
       /\ SetHupcl(SetHupcl(t, FALSE), FALSE) = SetHupcl(t, FALSE)
  <2>1. SetHupcl(t, TRUE).cflag = on /\ SetHupcl(t, FALSE).cflag = off
    BY <1>4, <1>5
  <2>2. \A u \in {SetHupcl(t, TRUE), SetHupcl(t, FALSE)} :
           /\ SetHupcl(u, TRUE) = [u EXCEPT !.cflag = on]
           /\ SetHupcl(u, FALSE) = [u EXCEPT !.cflag = off]
    BY <1>1, <1>6, <2>1
  <2>3. \A u \in {SetHupcl(t, TRUE), SetHupcl(t, FALSE)} : \A w :
           [u EXCEPT !.cflag = w] = [t EXCEPT !.cflag = w]
    BY <1>4, <1>5
  <2> QED
    BY <2>2, <2>3, <1>4
<1>11. ASSUME NEW h \in BOOLEAN
       PROVE  /\ (Hupcl(SetHupcl(t, h)) <=> h)
              /\ \A k \in BOOLEAN : SetHupcl(SetHupcl(t, h), k) = SetHupcl(t, k)
  <2>1. CASE h = TRUE
    BY <2>1, <1>7, <1>10, Zenon
  <2>2. CASE h = FALSE
    BY <2>2, <1>7, <1>10, Zenon
  <2> QED
    BY <2>1, <2>2
<1> QED
  BY <1>9, <1>11

(* Settings that differ from f in HUPCL only still do so after HUPCL of    *)
(* other settings has been put into them.                                  *)
LEMMA KeepHangupMoves ==
  ASSUME NEW f \in TermiosType, NEW o, NEW t, o = SetHupcl(f, Hupcl(o))
  PROVE  KeepHangup(o, t) = SetHupcl(f, Hupcl(KeepHangup(o, t)))
<1> DEFINE h == Hupcl(o)
           k == Hupcl(t)
           r == KeepHangup(o, t)
<1>1. h \in BOOLEAN /\ k \in BOOLEAN /\ Hupcl(r) \in BOOLEAN
  BY DEF Hupcl
<1>2. o = SetHupcl(f, h) /\ r = SetHupcl(o, k)
  BY DEF KeepHangup
<1> HIDE DEF h, k, r
<1>3. r = SetHupcl(f, k)
  BY <1>1, <1>2, HupclFacts
<1>4. Hupcl(r) <=> k
  BY <1>1, <1>3, HupclFacts
<1>5. Hupcl(r) = k
  BY <1>1, <1>4
<1>6. r = SetHupcl(f, Hupcl(r))
  BY <1>3, <1>5
<1> QED
  BY <1>6 DEF r

-----------------------------------------------------------------------------
LEMMA AdoptTyped ==
  \A t \in TermiosType : Adopt[t] \in TermiosType /\ (Hupcl(Adopt[t]) <=> Hupcl(t))
BY TermAssumption

LEMMA ZeroTyped == Zero \in TermiosType
BY SpeedAssumption DEF Zero, TermiosType

(* term_find() returns the slot of a managed descriptor.                   *)
LEMMA FindSlot ==
  ASSUME NEW fd, Managed(fd)
  PROVE  init /\ Find(fd) \in Slots /\ slot[Find(fd)] = fd
<1>1. SlotsOf(fd) \in SUBSET Slots /\ SlotsOf(fd) # {}
  BY DEF Managed, SlotsOf
<1> QED
  BY <1>1, LowestSlot DEF Find, SlotsOf, Managed

(* term_find_next_free() returns an unused slot.                           *)
LEMMA FreeSlot ==
  ASSUME SlotsOf(Free) # {}
  PROVE  Lowest(SlotsOf(Free)) \in Slots /\ slot[Lowest(SlotsOf(Free))] = Free
<1>1. SlotsOf(Free) \in SUBSET Slots
  BY DEF SlotsOf
<1> QED
  BY <1>1, LowestSlot DEF SlotsOf

-----------------------------------------------------------------------------
(* The slots hold descriptors the client passed, or are free.              *)
Placed == init => slot \in [Slots -> FD \cup {Free}]

(* Type correctness of the table is inductive on its own.                  *)
TypeInv == TypeOK /\ Placed

LEMMA TypeInvStep == TypeInv /\ [Next]_vars => TypeInv'
<1> SUFFICES ASSUME TypeInv, [Next]_vars
             PROVE  TypeInv'
  OBVIOUS
<1> USE DEF TypeInv, TypeOK, Placed
<1>1. CASE UNCHANGED vars
  BY <1>1 DEF vars
<1>2. ASSUME term_lib_init
      PROVE  TypeInv'
  <2>1. dev' \in [FD -> TermiosType]
    <3>1. CASE UNCHANGED dev
      BY <3>1
    <3>2. ASSUME NEW bad \in SUBSET {i \in Slots : slot[i] # Free},
                 dev' = [fd \in FD |->
                          LET S == SlotsOf(fd) \ bad
                          IN  IF S = {} THEN dev[fd] ELSE Adopt[orig[Highest(S)]]]
          PROVE  dev' \in [FD -> TermiosType]
      <4>1. \A fd : SlotsOf(fd) \ bad \in SUBSET Slots
        BY DEF SlotsOf
      <4>2. \A fd \in FD : SlotsOf(fd) \ bad # {} =>
                            Adopt[orig[Highest(SlotsOf(fd) \ bad)]] \in TermiosType
        BY <4>1, HighestSlot, AdoptTyped
      <4> QED
        BY <3>2, <4>2
    <3> QED
      BY <1>2, <3>1, <3>2 DEF term_lib_init
  <2> QED
    BY <1>2, <2>1 DEF term_lib_init, Succeed, Fail
<1>3. ASSUME term_exitfunc
      PROVE  TypeInv'
  <2>1. dev' \in [FD -> TermiosType]
    <3>1. CASE UNCHANGED dev
      BY <3>1
    <3>2. ASSUME NEW bad \in SUBSET {i \in Slots : slot[i] # Free}, init,
                 dev' = [fd \in FD |->
                            IF SlotsOf(fd) = {} \/ Find(fd) \in bad THEN dev[fd]
                            ELSE Adopt[orig[Find(fd)]]]
          PROVE  dev' \in [FD -> TermiosType]
      <4>1. \A fd \in FD : SlotsOf(fd) # {} => Find(fd) \in Slots
        BY <3>2, FindSlot DEF Managed
      <4>2. \A fd \in FD : SlotsOf(fd) # {} => Adopt[orig[Find(fd)]] \in TermiosType
        BY <4>1, AdoptTyped
      <4> QED
        BY <3>2, <4>2
    <3> QED
      BY <1>3, <3>1, <3>2 DEF term_exitfunc
  <2> QED
    BY <1>3, <2>1 DEF term_exitfunc
<1>4. ASSUME NEW fd \in FD, OutsideChange(fd)
      PROVE  TypeInv'
  BY <1>4, TermAssumption DEF OutsideChange, table
<1>5. ASSUME NEW fd \in FD, Call(fd), UNCHANGED <<init, exited>>
      PROVE  TypeInv'
  <2> USE <1>5 DEF Fail, Succeed, Refused, Unmanaged, table
  <2>1. CASE term_add(fd)
    BY <2>1, FreeSlot DEF term_add, Enter
  <2>2. CASE term_remove(fd)
    BY <2>2, FindSlot, AdoptTyped DEF term_remove
  <2>3. CASE term_erase(fd)
    BY <2>3, FindSlot DEF term_erase
  <2>4. ASSUME NEW newfd \in FD, term_replace(fd, newfd)
        PROVE  TypeInv'
    BY <2>4, FindSlot, AdoptTyped DEF term_replace
  <2>5. CASE term_reset(fd)
    BY <2>5, FindSlot, AdoptTyped DEF term_reset
  <2>6. CASE term_revert(fd)
    BY <2>6, FindSlot DEF term_revert
  <2>7. CASE term_refresh(fd)
    BY <2>7, FindSlot DEF term_refresh
  <2>8. CASE term_apply(fd)
    <3>1. CASE ~Managed(fd)
      BY <2>8, <3>1 DEF term_apply, NotReadBack
    <3>2. CASE Managed(fd)
      <4> DEFINE i == Find(fd)
                 got == Adopt[nxt[i]]
      <4>1. i \in Slots /\ got \in TermiosType
        BY <3>2, FindSlot, AdoptTyped
      <4>2. KeepHangup(orig[i], got) \in TermiosType
        BY <4>1, SettersTyped DEF KeepHangup
      <4>3. \/ UNCHANGED <<orig, curr, nxt>>
            \/ /\ nxt' = [nxt EXCEPT ![i] = got]
               /\ curr' = [curr EXCEPT ![i] = got]
               /\ orig' = [orig EXCEPT ![i] = KeepHangup(orig[i], got)]
        BY <2>8, <3>2 DEF term_apply, NotReadBack
      <4>4. /\ dev' \in {dev, [dev EXCEPT ![fd] = got]}
            /\ rval' \in {-1, 0}
            /\ UNCHANGED <<slot, first>>
        BY <2>8, <3>2 DEF term_apply, NotReadBack
      <4> HIDE DEF i, got
      <4> QED
        BY <4>1, <4>2, <4>3, <4>4
    <3> QED
      BY <3>1, <3>2
  <2>9. ASSUME NEW a \in SetArgs, term_set_one(fd, a)
        PROVE  TypeInv'
    BY <2>9, FindSlot, OneSettingTyped DEF term_set_one
  <2>10. ASSUME NEW a \in SetArgs, term_set(fd, a)
         PROVE  TypeInv'
    BY <2>10, FindSlot, FreeSlot, SetAllTyped DEF term_set, FreedFor
  <2>11. CASE term_fake_flush(fd)
    BY <2>11, FindSlot, AdoptTyped, SettersTyped DEF term_fake_flush, Flow
  <2>12. CASE term_device_call(fd)
    BY <2>12 DEF term_device_call
  <2> QED
    BY <2>1, <2>2, <2>3, <2>4, <2>5, <2>6, <2>7, <2>8, <2>9, <2>10, <2>11, <2>12 DEF Call
<1> QED
  BY <1>1, <1>2, <1>3, <1>4, <1>5 DEF Next

(* The table of term.cpp is well typed in every reachable state: its slots *)
(* hold descriptors and its settings are settings a device can take.       *)
THEOREM TypeCorrect == Spec => [](TypeOK /\ Placed)
<1>1. Init => TypeOK /\ Placed
  BY ZeroTyped, TermAssumption, ZenonT(30) DEF Init, TypeOK, Placed
<1>2. QED
  BY <1>1, TypeInvStep, PTL DEF Spec, TypeInv

-----------------------------------------------------------------------------
(* What a step may do to the original settings of a slot that is in use    *)
(* after it: nothing; take HUPCL from applied settings; or be filled.      *)
OrigMoves(i) ==
  \/ InUse(i) /\ orig'[i] = orig[i] /\ first'[i] = first[i]
  \/ /\ InUse(i) /\ first'[i] = first[i]
     /\ \E t \in TermiosType : orig'[i] = KeepHangup(orig[i], t)
  \/ orig'[i] = first'[i] /\ first'[i] \in TermiosType

LEMMA OrigStep ==
  ASSUME TypeInv, [Next]_vars, NEW i \in Slots, InUse(i)'
  PROVE  OrigMoves(i)
<1> USE DEF TypeInv, TypeOK, Placed, InUse, OrigMoves
<1>1. CASE UNCHANGED vars
  BY <1>1 DEF vars
<1>2. CASE term_lib_init
  BY <1>2 DEF term_lib_init
<1>3. CASE term_exitfunc
  BY <1>3 DEF term_exitfunc
<1>4. ASSUME NEW fd \in FD, OutsideChange(fd)
      PROVE  OrigMoves(i)
  BY <1>4 DEF OutsideChange, table
<1>5. ASSUME NEW fd \in FD, Call(fd), UNCHANGED <<init, exited>>
      PROVE  OrigMoves(i)
  <2> USE <1>5 DEF Fail, Succeed, Refused, Unmanaged, table
  <2>1. CASE term_add(fd)
    BY <2>1, FreeSlot DEF term_add, Enter
  <2>2. CASE term_remove(fd)
    BY <2>2, FindSlot DEF term_remove
  <2>3. CASE term_erase(fd)
    BY <2>3, FindSlot DEF term_erase
  <2>4. ASSUME NEW newfd \in FD, term_replace(fd, newfd)
        PROVE  OrigMoves(i)
    <3>1. CASE UNCHANGED <<orig, slot, first>>
      BY <3>1
    <3>2. CASE /\ Managed(fd) /\ UNCHANGED <<orig, first>>
               /\ slot' = [slot EXCEPT ![Find(fd)] = newfd]
      <4>1. InUse(Find(fd)) /\ Find(fd) \in Slots
        BY <3>2, FindSlot, TermAssumption DEF Free
      <4> QED
        BY <3>2, <4>1
    <3> QED
      BY <2>4, <3>1, <3>2 DEF term_replace
  <2>5. CASE term_reset(fd)
    BY <2>5 DEF term_reset
  <2>6. CASE term_revert(fd)
    BY <2>6 DEF term_revert
  <2>7. CASE term_refresh(fd)
    BY <2>7 DEF term_refresh
  <2>8. CASE term_apply(fd)
    <3>1. CASE UNCHANGED <<orig, slot, first>>
      BY <3>1
    <3>2. CASE /\ Managed(fd) /\ UNCHANGED <<slot, first>>
               /\ orig' = [orig EXCEPT ![Find(fd)] =
                             KeepHangup(orig[Find(fd)], Adopt[nxt[Find(fd)]])]
      BY <3>2, FindSlot, AdoptTyped
    <3>3. CASE ~Managed(fd)
      BY <2>8, <3>1, <3>3 DEF term_apply, NotReadBack
    <3>4. CASE Managed(fd)
      <4>1. \/ UNCHANGED <<orig, slot, first>>
            \/ /\ UNCHANGED <<slot, first>>
               /\ orig' = [orig EXCEPT ![Find(fd)] =
                             KeepHangup(orig[Find(fd)], Adopt[nxt[Find(fd)]])]
        BY <2>8, <3>4 DEF term_apply, NotReadBack
      <4> QED
        BY <4>1, <3>1, <3>2, <3>4
    <3> QED
      BY <3>3, <3>4
  <2>9. ASSUME NEW a \in SetArgs, term_set_one(fd, a)
        PROVE  OrigMoves(i)
    BY <2>9 DEF term_set_one
  <2>10. ASSUME NEW a \in SetArgs, term_set(fd, a)
         PROVE  OrigMoves(i)
    BY <2>10, FreeSlot DEF term_set
  <2>11. CASE term_fake_flush(fd)
    BY <2>11 DEF term_fake_flush
  <2>12. CASE term_device_call(fd)
    BY <2>12 DEF term_device_call
  <2> QED
    BY <2>1, <2>2, <2>3, <2>4, <2>5, <2>6, <2>7, <2>8, <2>9, <2>10, <2>11, <2>12 DEF Call
<1> QED
  BY <1>1, <1>2, <1>3, <1>4, <1>5 DEF Next

(* HUPCL apart, the original settings of a managed descriptor are those it *)
(* had when it was added: whatever the client did and whatever failed, a   *)
(* reset or exit(3) puts the right settings back.                          *)
THEOREM OriginalKept == Spec => []OrigKept
<1>1. Init => TypeInv /\ OrigKept
  BY ZeroTyped, TermAssumption, ZenonT(30) DEF Init, TypeInv, TypeOK, Placed, OrigKept, InUse
<1>2. TypeInv /\ OrigKept /\ [Next]_vars => TypeInv' /\ OrigKept'
  <2> SUFFICES ASSUME TypeInv, OrigKept, [Next]_vars, NEW i \in Slots, InUse(i)'
               PROVE  orig'[i] = SetHupcl(first'[i], Hupcl(orig'[i]))
    BY TypeInvStep DEF OrigKept
  <2>1. orig[i] \in TermiosType /\ first[i] \in TermiosType
    BY DEF TypeInv, TypeOK
  <2>2. CASE InUse(i) /\ orig'[i] = orig[i] /\ first'[i] = first[i]
    BY <2>2 DEF OrigKept
  <2>3. ASSUME InUse(i), first'[i] = first[i],
               NEW t \in TermiosType, orig'[i] = KeepHangup(orig[i], t)
        PROVE  orig'[i] = SetHupcl(first'[i], Hupcl(orig'[i]))
    BY <2>1, <2>3, KeepHangupMoves DEF OrigKept
  <2>4. CASE orig'[i] = first'[i] /\ first'[i] \in TermiosType
    BY <2>4, HupclFacts
  <2> QED
    BY <2>2, <2>3, <2>4, OrigStep DEF OrigMoves
<1> QED
  BY <1>1, <1>2, PTL DEF Spec

-----------------------------------------------------------------------------
(* What a step may do to the slots: drop some descriptors, or put one that *)
(* is not managed into one slot (and drop the one in slot 0).              *)
SlotMoves ==
  \/ \A i \in Slots : InUse(i)' => InUse(i) /\ slot'[i] = slot[i]
  \/ \E s \in Slots, fd \in FD :
       /\ ~Managed(fd) /\ init
       /\ \/ slot' = [slot EXCEPT ![s] = fd]
          \/ slot' = [slot EXCEPT ![s] = fd, ![0] = Free]

LEMMA SlotStep ==
  ASSUME TypeInv, [Next]_vars, Strict
  PROVE  SlotMoves
<1> USE DEF TypeInv, TypeOK, Placed, InUse, SlotMoves
<1>1. CASE UNCHANGED <<init, slot>>
  BY <1>1
<1>2. CASE term_lib_init
  BY <1>2 DEF term_lib_init
<1>3. CASE term_exitfunc
  BY <1>3 DEF term_exitfunc
<1>4. ASSUME NEW fd \in FD, Call(fd), UNCHANGED <<init, exited>>
      PROVE  SlotMoves
  <2> USE <1>4 DEF Fail, Succeed, Refused, Unmanaged, table
  <2>1. CASE term_add(fd)
    BY <2>1, <1>1, FreeSlot DEF term_add, Enter
  <2>2. CASE term_remove(fd)
    BY <2>2, <1>1, FindSlot DEF term_remove
  <2>3. CASE term_erase(fd)
    BY <2>3, <1>1, FindSlot DEF term_erase
  <2>4. ASSUME NEW newfd \in FD, ~Managed(newfd), term_replace(fd, newfd)
        PROVE  SlotMoves
    <3>1. CASE /\ Managed(fd)
               /\ slot' = [slot EXCEPT ![Find(fd)] = newfd]
      BY <2>4, <3>1, FindSlot
    <3> QED
      BY <2>4, <1>1, <3>1 DEF term_replace
  <2>5. CASE term_reset(fd)
    BY <2>5, <1>1 DEF term_reset
  <2>6. CASE term_revert(fd)
    BY <2>6, <1>1 DEF term_revert
  <2>7. CASE term_refresh(fd)
    BY <2>7, <1>1 DEF term_refresh
  <2>8. CASE term_apply(fd)
    BY <2>8, <1>1 DEF term_apply, NotReadBack
  <2>9. ASSUME NEW a \in SetArgs, term_set_one(fd, a)
        PROVE  SlotMoves
    BY <2>9, <1>1 DEF term_set_one
  <2>10. ASSUME NEW a \in SetArgs, term_set(fd, a)
         PROVE  SlotMoves
    <3>1. CASE ~Managed(fd) /\ init /\ SlotsOf(Free) # {}
      BY <2>10, <3>1, <1>1, FreeSlot DEF term_set, FreedFor
    <3> QED
      BY <2>10, <3>1, <1>1 DEF term_set
  <2>11. CASE term_fake_flush(fd)
    BY <2>11, <1>1 DEF term_fake_flush
  <2>12. CASE term_device_call(fd)
    BY <2>12, <1>1 DEF term_device_call
  <2> QED
    BY <2>1, <2>2, <2>3, <2>4, <2>5, <2>6, <2>7, <2>8, <2>9, <2>10, <2>11, <2>12
    DEF Call, MayReplace
<1> QED
  BY <1>1, <1>2, <1>3, <1>4 DEF Next, OutsideChange, table, vars

(* Under ppcom's own calls no descriptor is ever in two slots, so that     *)
(* term_find() finds the one there is and removing it removes it for good. *)
THEOREM EachOnce == ASSUME Strict PROVE Spec => []UniqueFds
<1>1. Init => TypeInv /\ UniqueFds
  BY ZeroTyped, TermAssumption, ZenonT(30) DEF Init, TypeInv, TypeOK, Placed, UniqueFds, InUse
<1>2. TypeInv /\ UniqueFds /\ [Next]_vars => TypeInv' /\ UniqueFds'
  <2> SUFFICES ASSUME TypeInv, UniqueFds, [Next]_vars, NEW i \in Slots, NEW j \in Slots,
                      InUse(i)', slot'[i] = slot'[j]
               PROVE  i = j
    BY TypeInvStep DEF UniqueFds
  <2>1. InUse(j)'
    BY DEF InUse
  <2>2. CASE \A k \in Slots : InUse(k)' => InUse(k) /\ slot'[k] = slot[k]
    BY <2>1, <2>2 DEF UniqueFds
  <2>3. ASSUME NEW s \in Slots, NEW fd \in FD, ~Managed(fd), init,
               \/ slot' = [slot EXCEPT ![s] = fd]
               \/ slot' = [slot EXCEPT ![s] = fd, ![0] = Free]
        PROVE  i = j
    <3>1. \A k \in Slots : InUse(k)' /\ k # s => InUse(k) /\ slot'[k] = slot[k]
      BY <2>3 DEF TypeInv, TypeOK, Placed, InUse
    <3>2. InUse(s)' => slot'[s] = fd
      BY <2>3 DEF TypeInv, TypeOK, Placed, InUse
    <3>3. \A k \in Slots : slot[k] # fd
      BY <2>3 DEF Managed, SlotsOf
    <3> QED
      BY <2>1, <3>1, <3>2, <3>3 DEF UniqueFds
  <2> QED
    BY <2>2, <2>3, SlotStep DEF SlotMoves
<1> QED
  BY <1>1, <1>2, PTL DEF Spec

-----------------------------------------------------------------------------
(* A call that fails: what it leaves in the table.                         *)
Undone == /\ \A fd \in FD : Managed(fd)' => Managed(fd)
          /\ \A i \in Slots : InUse(i) => /\ orig'[i] = orig[i]
                                          /\ nxt'[i] = nxt[i]
                                          /\ curr'[i] \in {curr[i], dev[slot[i]]}

LEMMA UntouchedIsUndone ==
  ASSUME UNCHANGED <<init, table>>
  PROVE  Undone
BY DEF Undone, table, Managed, SlotsOf

(* The slot of a managed descriptor is in use, and no other descriptor     *)
(* appears when a slot is freed.                                           *)
LEMMA FreedIsUndone ==
  ASSUME TypeInv, init' = init, NEW i \in Slots, slot' = [slot EXCEPT ![i] = Free],
         UNCHANGED <<orig, curr, nxt>>
  PROVE  Undone
<1>1. \A fd \in FD : fd # Free
  BY TermAssumption DEF Free
<1>2. \A fd \in FD, j \in Slots : slot'[j] = fd => slot[j] = fd
  BY <1>1 DEF TypeInv, TypeOK
<1> QED
  BY <1>2 DEF Undone, Managed, SlotsOf

LEMMA FailedStep ==
  ASSUME TypeInv, Strict, Next, rval' = -1, ~exited'
  PROVE  Undone
<1> USE DEF TypeInv, TypeOK, Placed, InUse
<1>1. CASE term_lib_init
  <2>1. ~init' /\ (init => init')
    BY <1>1 DEF term_lib_init, Succeed
  <2> QED
    BY <2>1 DEF Undone, Managed
<1>2. CASE term_exitfunc
  BY <1>2 DEF term_exitfunc
<1>3. ASSUME NEW fd \in FD, OutsideChange(fd)
      PROVE  Undone
  BY <1>3, UntouchedIsUndone DEF OutsideChange
<1>4. ASSUME NEW fd \in FD, Call(fd), UNCHANGED <<init, exited>>
      PROVE  Undone
  <2> USE <1>4 DEF Fail, Succeed, Refused, Unmanaged
  <2>1. CASE term_add(fd)
    BY <2>1, UntouchedIsUndone DEF term_add
  <2>2. CASE term_remove(fd)
    BY <2>2, UntouchedIsUndone, FindSlot, FreedIsUndone DEF term_remove, table
  <2>3. CASE term_erase(fd)
    BY <2>3, UntouchedIsUndone DEF term_erase
  <2>4. ASSUME NEW newfd \in FD, term_replace(fd, newfd)
        PROVE  Undone
    BY <2>4, UntouchedIsUndone DEF term_replace, table
  <2>5. CASE term_reset(fd)
    BY <2>5, UntouchedIsUndone DEF term_reset, table
  <2>6. CASE term_revert(fd)
    BY <2>6, UntouchedIsUndone DEF term_revert
  <2>7. CASE term_refresh(fd)
    BY <2>7, UntouchedIsUndone DEF term_refresh
  <2>8. CASE term_apply(fd)
    BY <2>8, UntouchedIsUndone DEF term_apply, NotReadBack, table
  <2>9. ASSUME NEW a \in SetArgs, term_set_one(fd, a)
        PROVE  Undone
    BY <2>9, UntouchedIsUndone DEF term_set_one
  <2>10. ASSUME NEW a \in SetArgs, MaySet(fd, a), term_set(fd, a)
         PROVE  Undone
    <3>1. CASE Managed(fd)
      <4>1. nxt' = nxt /\ UNCHANGED <<slot, orig, curr>>
        BY <2>10, <3>1, FindSlot DEF term_set
      <4> QED
        BY <4>1, UntouchedIsUndone DEF table
    <3>2. CASE ~Managed(fd) /\ UNCHANGED table
      BY <3>2, UntouchedIsUndone
    <3>3. CASE ~Managed(fd) /\ ~UNCHANGED table
      <4> DEFINE i == Lowest(SlotsOf(Free))
      <4>1. /\ ~ValidArgs(a) /\ init /\ SlotsOf(Free) # {}
            /\ slot' = [slot EXCEPT ![i] = fd, ![0] = Free]
            /\ orig' = [orig EXCEPT ![i] = dev[fd]]
            /\ curr' = [curr EXCEPT ![i] = dev[fd]]
            /\ nxt' = [nxt EXCEPT ![i] = SetAll(dev[fd], a)]
        BY <2>10, <3>3 DEF term_set, FreedFor
      <4>2. i = 0 /\ slot[0] = Free /\ 0 \in Slots
        <5>1. slot[0] = Free /\ 0 \in Slots
          BY <2>10, <3>3, <4>1, TermAssumption DEF MaySet, Slots
        <5>2. SlotsOf(Free) \in SUBSET Slots /\ 0 \in SlotsOf(Free)
          BY <5>1 DEF SlotsOf
        <5>3. i \in Slots /\ i <= 0
          BY <4>1, <5>2, LowestSlot
        <5> QED
          BY <5>1, <5>3, TermAssumption DEF Slots
      <4> HIDE DEF i
      <4>3. slot' = [slot EXCEPT ![0] = Free]
        BY <4>1, <4>2
      <4>4. \A x \in FD : x # Free
        BY TermAssumption DEF Free
      <4>5. \A x \in FD, j \in Slots : slot'[j] = x => slot[j] = x
        BY <4>2, <4>3, <4>4
      <4>6. \A x \in FD : Managed(x)' => Managed(x)
        BY <4>5 DEF Managed, SlotsOf
      <4> QED
        BY <4>1, <4>2, <4>6 DEF Undone
    <3> QED
      BY <3>1, <3>2, <3>3
  <2>11. CASE term_fake_flush(fd)
    <3>1. CASE UNCHANGED table
      BY <3>1, UntouchedIsUndone
    <3>2. CASE Managed(fd) /\ curr' = [curr EXCEPT ![Find(fd)] = dev[fd]] /\ UNCHANGED <<slot, orig, nxt>>
      BY <3>2, FindSlot DEF Undone, Managed, SlotsOf
    <3> QED
      BY <2>11, <3>1, <3>2 DEF term_fake_flush
  <2>12. CASE term_device_call(fd)
    BY <2>12, UntouchedIsUndone DEF term_device_call
  <2> QED
    BY <2>1, <2>2, <2>3, <2>4, <2>5, <2>6, <2>7, <2>8, <2>9, <2>10, <2>11, <2>12 DEF Call
<1> QED
  BY <1>1, <1>2, <1>3, <1>4 DEF Next

(* term.h of the calls that fail, for ppcom's own calls: they leave in the *)
(* framework what was there and the settings structures of all of it as    *)
(* they were, whichever device call fails and wherever it does.            *)
THEOREM FailuresAreUndone == ASSUME Strict PROVE Spec => FailedCallChangesNothing
<1>1. TypeInv /\ [Next]_vars =>
        [rval' = -1 /\ ~exited' =>
           /\ \A fd \in FD : Managed(fd)' => Managed(fd)
           /\ \A i \in Slots : InUse(i) => /\ orig'[i] = orig[i]
                                           /\ nxt'[i] = nxt[i]
                                           /\ curr'[i] \in {curr[i], dev[slot[i]]}]_vars
  BY FailedStep DEF Undone
<1> QED
  BY <1>1, TypeCorrect, PTL DEF FailedCallChangesNothing, Spec, TypeInv

-----------------------------------------------------------------------------
(* Where no descriptor is in two slots, each slot is that of its own.      *)
LEMMA FindUnique ==
  ASSUME UniqueFds, NEW i \in Slots, InUse(i)
  PROVE  Managed(slot[i]) /\ Find(slot[i]) = i
<1>1. SlotsOf(slot[i]) = {i}
  BY DEF UniqueFds, SlotsOf
<1>2. SlotsOf(slot[i]) \in SUBSET Slots
  BY DEF SlotsOf
<1> QED
  BY <1>1, <1>2, LowestSlot DEF Managed, Find, InUse

(* Where no setting fails, HUPCL of a managed descriptor is one and the    *)
(* same in its original and its current settings and in its device.        *)
OneHangup == \A i \in Slots : InUse(i) =>
  /\ Hupcl(orig[i]) <=> Hupcl(dev[slot[i]])
  /\ Hupcl(curr[i]) <=> Hupcl(dev[slot[i]])

(* The flow control is none of HUPCL's business.                           *)
LEMMA FlowKeepsHangup ==
  ASSUME NEW t \in TermiosType, NEW f \in Flow
  PROVE  Hupcl(Adopt[SetFlow(t, f)]) <=> Hupcl(t)
<1>1. SetFlow(t, f).cflag \ {"CRTSCTS"} = t.cflag \ {"CRTSCTS"} /\ SetFlow(t, f) \in TermiosType
  BY CflagWrites, SettersTyped
<1>2. Hupcl(SetFlow(t, f)) <=> Hupcl(t)
  BY <1>1 DEF Hupcl
<1> QED
  BY <1>1, <1>2, AdoptTyped

(* What is put into the original settings is HUPCL of what was applied.    *)
LEMMA KeptHangup ==
  ASSUME NEW o \in TermiosType, NEW t \in TermiosType
  PROVE  Hupcl(KeepHangup(o, t)) <=> Hupcl(t)
<1>1. Hupcl(t) \in BOOLEAN
  BY DEF Hupcl
<1> QED
  BY <1>1, HupclFacts DEF KeepHangup

(* A step that changes one slot and its device only, and agrees there.     *)
LEMMA OneSlotHangs ==
  ASSUME TypeInv, UniqueFds, OneHangup, NEW i \in Slots, NEW x \in FD, init' = init,
         \A j \in Slots : j # i => slot'[j] = slot[j] /\ orig'[j] = orig[j] /\ curr'[j] = curr[j],
         \A y \in FD : y # x => dev'[y] = dev[y],
         slot'[i] \in {x, Free},
         \A j \in Slots : slot[j] = x => j = i,
         slot'[i] = x => /\ Hupcl(orig'[i]) <=> Hupcl(dev'[x])
                         /\ Hupcl(curr'[i]) <=> Hupcl(dev'[x])
  PROVE  OneHangup'
<1> SUFFICES ASSUME NEW j \in Slots, InUse(j)'
             PROVE  /\ Hupcl(orig'[j]) <=> Hupcl(dev'[slot'[j]])
                    /\ Hupcl(curr'[j]) <=> Hupcl(dev'[slot'[j]])
  BY DEF OneHangup
<1>1. CASE j = i
  BY <1>1 DEF InUse
<1>2. CASE j # i
  <2>1. slot'[j] = slot[j] /\ InUse(j) /\ slot[j] \in FD /\ slot[j] # x
    BY <1>2 DEF InUse, TypeInv, TypeOK, Placed
  <2>2. dev'[slot'[j]] = dev[slot[j]] /\ orig'[j] = orig[j] /\ curr'[j] = curr[j]
    BY <1>2, <2>1
  <2> QED
    BY <2>1, <2>2 DEF OneHangup
<1> QED
  BY <1>1, <1>2

LEMMA HangupStep ==
  ASSUME TypeInv, UniqueFds, OneHangup, Strict, ~OthersSet, Fallible \subseteq {"flush", "drain", "mctl", "atexit"},
         Next
  PROVE  OneHangup'
<1> USE DEF TypeInv, TypeOK, Placed
<1>0. /\ \A fd \in FD : fd # Free
      /\ ~MayFail("setattr") /\ ~MayFail("getattr")
  BY TermAssumption DEF Free, MayFail
<1>1. CASE UNCHANGED <<init, slot, orig, curr, dev>>
  BY <1>1 DEF OneHangup, InUse
<1>2. CASE term_lib_init
  BY <1>2 DEF term_lib_init, OneHangup, InUse
<1>3. CASE term_exitfunc
  BY <1>3 DEF term_exitfunc, OneHangup, InUse
<1>4. ASSUME NEW fd \in FD, Call(fd), UNCHANGED <<init, exited>>
      PROVE  OneHangup'
  <2> USE <1>4 DEF Refused, Unmanaged, table
  <2> DEFINE k == Find(fd)
  <2>0. ASSUME Managed(fd)
        PROVE  /\ k \in Slots /\ slot[k] = fd /\ InUse(k)
               /\ \A j \in Slots : slot[j] = fd => j = k
    BY <1>0, <2>0, FindSlot DEF InUse, UniqueFds
  <2>a. ASSUME NEW i \in Slots, NEW x \in FD, ~Managed(x), init, slot' = [slot EXCEPT ![i] = x],
               \A j \in Slots : j # i => orig'[j] = orig[j] /\ curr'[j] = curr[j],
               \A y \in FD : y # x => dev'[y] = dev[y],
               /\ Hupcl(orig'[i]) <=> Hupcl(dev'[x])
               /\ Hupcl(curr'[i]) <=> Hupcl(dev'[x])
        PROVE  OneHangup'
    <3>1. \A j \in Slots : slot[j] # x
      BY <2>a DEF Managed, SlotsOf
    <3>2. slot'[i] = x /\ \A j \in Slots : j # i => slot'[j] = slot[j]
      BY <2>a
    <3> QED
      BY <2>a, <3>1, <3>2, OneSlotHangs
  <2>b. ASSUME Managed(fd), slot' = [slot EXCEPT ![k] = Free], UNCHANGED <<orig, curr>>,
               \A y \in FD : y # fd => dev'[y] = dev[y]
        PROVE  OneHangup'
    <3>1. slot'[k] = Free /\ \A j \in Slots : j # k => slot'[j] = slot[j]
      BY <2>0, <2>b
    <3> HIDE DEF k
    <3> QED
      BY <1>0, <2>0, <2>b, <3>1, OneSlotHangs
  <2>c. ASSUME Managed(fd), UNCHANGED slot,
               \A j \in Slots : j # k => orig'[j] = orig[j] /\ curr'[j] = curr[j],
               \A y \in FD : y # fd => dev'[y] = dev[y],
               /\ Hupcl(orig'[k]) <=> Hupcl(dev'[fd])
               /\ Hupcl(curr'[k]) <=> Hupcl(dev'[fd])
        PROVE  OneHangup'
    <3> HIDE DEF k
    <3> QED
      BY <2>0, <2>c, OneSlotHangs
  <2>d. ASSUME Managed(fd)
        PROVE  /\ Hupcl(orig[k]) <=> Hupcl(dev[fd])
               /\ Hupcl(curr[k]) <=> Hupcl(dev[fd])
               /\ orig[k] \in TermiosType /\ curr[k] \in TermiosType /\ nxt[k] \in TermiosType
    <3> HIDE DEF k
    <3> QED
      BY <2>0, <2>d DEF OneHangup
  <2>1. CASE term_add(fd)
    <3>1. CASE Managed(fd) \/ UNCHANGED <<table, dev>>
      BY <1>1, <2>1, <3>1 DEF term_add
    <3>2. CASE ~Managed(fd) /\ ~UNCHANGED <<table, dev>>
      BY <2>1, <2>a, <3>2, FreeSlot DEF term_add, Enter
    <3> QED
      BY <3>1, <3>2
  <2>2. CASE term_remove(fd)
    BY <1>1, <2>2, <2>b DEF term_remove
  <2>3. CASE term_erase(fd)
    BY <1>1, <2>3, <2>b DEF term_erase
  <2>4. ASSUME NEW newfd \in FD, ~Managed(newfd), term_replace(fd, newfd)
        PROVE  OneHangup'
    <3>1. CASE Managed(fd) /\ ~UNCHANGED <<table, dev>>
      <4> DEFINE got == Adopt[curr[k]]
      <4>1. /\ dev' = [dev EXCEPT ![newfd] = got] /\ curr' = [curr EXCEPT ![k] = got]
            /\ slot' = [slot EXCEPT ![k] = newfd] /\ orig' = orig /\ init
        BY <1>0, <2>4, <3>1 DEF term_replace, Managed
      <4>2. Hupcl(got) <=> Hupcl(curr[k])
        BY <2>d, <3>1, AdoptTyped
      <4> HIDE DEF k, got
      <4> QED
        BY <2>0, <2>a, <2>d, <2>4, <3>1, <4>1, <4>2
    <3> QED
      BY <1>1, <2>4, <3>1 DEF term_replace
  <2>5. CASE term_reset(fd)
    <3>1. CASE Managed(fd) /\ ~UNCHANGED <<table, dev>>
      <4> DEFINE got == Adopt[orig[k]]
      <4>1. /\ dev' = [dev EXCEPT ![fd] = got] /\ curr' = [curr EXCEPT ![k] = got]
            /\ UNCHANGED <<slot, orig>>
        BY <1>0, <2>5, <3>1 DEF term_reset
      <4>2. Hupcl(got) <=> Hupcl(orig[k])
        BY <2>d, <3>1, AdoptTyped
      <4> HIDE DEF k, got
      <4> QED
        BY <2>0, <2>c, <2>d, <3>1, <4>1, <4>2
    <3> QED
      BY <1>1, <2>5, <3>1 DEF term_reset
  <2>6. CASE term_revert(fd)
    BY <1>1, <2>6 DEF term_revert
  <2>7. CASE term_refresh(fd)
    <3>1. CASE Managed(fd) /\ ~UNCHANGED <<table, dev>>
      <4>1. curr' = [curr EXCEPT ![k] = dev[fd]] /\ UNCHANGED <<slot, orig, dev>>
        BY <2>7, <3>1 DEF term_refresh
      <4> HIDE DEF k
      <4> QED
        BY <2>0, <2>c, <2>d, <3>1, <4>1
    <3> QED
      BY <1>1, <2>7, <3>1 DEF term_refresh
  <2>8. CASE term_apply(fd)
    <3>1. CASE Managed(fd) /\ ~UNCHANGED <<table, dev>>
      <4> DEFINE got == Adopt[nxt[k]]
      <4>1. /\ dev' = [dev EXCEPT ![fd] = got] /\ curr' = [curr EXCEPT ![k] = got]
            /\ orig' = [orig EXCEPT ![k] = KeepHangup(orig[k], got)] /\ UNCHANGED slot
        BY <1>0, <2>8, <3>1 DEF term_apply
      <4>2. Hupcl(KeepHangup(orig[k], got)) <=> Hupcl(got)
        BY <2>d, <3>1, AdoptTyped, KeptHangup
      <4> HIDE DEF k, got
      <4> QED
        BY <2>0, <2>c, <3>1, <4>1, <4>2
    <3> QED
      BY <1>1, <2>8, <3>1 DEF term_apply
  <2>9. ASSUME NEW a \in SetArgs, term_set_one(fd, a)
        PROVE  OneHangup'
    BY <1>1, <2>9 DEF term_set_one
  <2>10. ASSUME NEW a \in SetArgs, MaySet(fd, a), term_set(fd, a)
         PROVE  OneHangup'
    <3>1. CASE Managed(fd) \/ UNCHANGED <<table, dev>>
      BY <1>1, <2>10, <3>1 DEF term_set
    <3>2. CASE ~Managed(fd) /\ ~UNCHANGED <<table, dev>>
      <4> DEFINE i == Lowest(SlotsOf(Free))
      <4>1. /\ init /\ SlotsOf(Free) # {} /\ UNCHANGED dev
            /\ orig' = [orig EXCEPT ![i] = dev[fd]] /\ curr' = [curr EXCEPT ![i] = dev[fd]]
            /\ \/ slot' = [slot EXCEPT ![i] = fd]
               \/ ~ValidArgs(a) /\ slot' = [slot EXCEPT ![i] = fd, ![0] = Free]
        BY <2>10, <3>2 DEF term_set, FreedFor
      <4>2. i \in Slots /\ slot[i] = Free
        BY <4>1, FreeSlot
      <4>3. CASE slot' = [slot EXCEPT ![i] = fd]
        <5> HIDE DEF i
        <5> QED
          BY <2>a, <3>2, <4>1, <4>2, <4>3
      <4>4. CASE ~ValidArgs(a) /\ slot' = [slot EXCEPT ![i] = fd, ![0] = Free]
        <5>1. slot[0] = Free /\ 0 \in Slots
          BY <2>10, <3>2, <4>4, TermAssumption DEF MaySet, Slots
        <5>2. SlotsOf(Free) \in SUBSET Slots /\ 0 \in SlotsOf(Free)
          BY <5>1 DEF SlotsOf
        <5>3. i = 0
          BY <4>1, <4>2, <5>2, LowestSlot, TermAssumption, SMTT(30) DEF Slots
        <5> HIDE DEF i
        <5>4. slot'[0] = Free /\ \A j \in Slots : j # 0 => slot'[j] = slot[j]
          BY <4>4, <5>1, <5>3
        <5>5. \A j \in Slots : slot[j] # fd
          BY <3>2, <4>1 DEF Managed, SlotsOf
        <5> QED
          BY <1>0, <4>1, <5>1, <5>3, <5>4, <5>5, OneSlotHangs
      <4> QED
        BY <4>1, <4>3, <4>4
    <3> QED
      BY <3>1, <3>2
  <2>11. CASE term_fake_flush(fd)
    <3>1. CASE Managed(fd) /\ ~UNCHANGED <<table, dev>>
      <4>1. curr' = [curr EXCEPT ![k] = dev[fd]] /\ UNCHANGED <<slot, orig>>
        BY <2>11, <3>1 DEF term_fake_flush
      <4>2. curr'[k] = dev[fd] /\ dev[fd] \in TermiosType
        BY <2>0, <3>1, <4>1
      <4>3. dev' = [dev EXCEPT ![fd] = Adopt[dev[fd]]]
              \/ dev' = [dev EXCEPT ![fd] = Adopt[SetFlow(dev[fd], "FC_NONE")]]
        BY <1>0, <2>11, <3>1, <4>2 DEF term_fake_flush
      <4>4. /\ Hupcl(Adopt[dev[fd]]) <=> Hupcl(dev[fd])
            /\ Hupcl(Adopt[SetFlow(dev[fd], "FC_NONE")]) <=> Hupcl(dev[fd])
        BY <4>2, AdoptTyped, FlowKeepsHangup DEF Flow
      <4>5. Hupcl(dev'[fd]) <=> Hupcl(dev[fd])
        BY <4>3, <4>4
      <4>6. \A y \in FD : y # fd => dev'[y] = dev[y]
        BY <4>3
      <4> HIDE DEF k
      <4> QED
        BY <2>0, <2>c, <2>d, <3>1, <4>1, <4>2, <4>5, <4>6
    <3> QED
      BY <1>1, <2>11, <3>1 DEF term_fake_flush
  <2>12. CASE term_device_call(fd)
    BY <1>1, <2>12 DEF term_device_call
  <2> QED
    BY <2>1, <2>2, <2>3, <2>4, <2>5, <2>6, <2>7, <2>8, <2>9, <2>10, <2>11, <2>12
    DEF Call, MayReplace
<1> QED
  BY <1>2, <1>3, <1>4 DEF Next, OutsideChange

(* exit(3) puts back what every device had, HUPCL apart.                   *)
LEMMA ExitStep ==
  ASSUME TypeInv, UniqueFds, OrigKept, OneHangup, "setattr" \notin Fallible, Next, exited',
         NEW i \in Slots, InUse(i)
  PROVE  dev'[slot[i]] = Adopt[SetHupcl(first[i], Hupcl(dev[slot[i]]))]
<1>1. term_exitfunc /\ init
  BY DEF Next, term_lib_init, OutsideChange, InUse
<1>2. slot[i] \in FD /\ Managed(slot[i]) /\ Find(slot[i]) = i
  BY FindUnique DEF InUse, TypeInv, TypeOK, Placed
<1>3. dev'[slot[i]] = Adopt[orig[i]]
  <2>1. dev' = [fd \in FD |-> IF SlotsOf(fd) = {} \/ Find(fd) \in {} THEN dev[fd] ELSE Adopt[orig[Find(fd)]]]
    BY <1>1 DEF term_exitfunc, MayFail
  <2> QED
    BY <1>2, <2>1 DEF Managed
<1>4. Hupcl(dev[slot[i]]) = Hupcl(orig[i])
  <2>1. Hupcl(dev[slot[i]]) <=> Hupcl(orig[i])
    BY DEF OneHangup
  <2> QED
    BY <2>1 DEF Hupcl
<1>5. orig[i] = SetHupcl(first[i], Hupcl(orig[i]))
  BY DEF OrigKept
<1> QED
  BY <1>3, <1>4, <1>5

(* The atexit handler puts every managed device back as it was when it was *)
(* added, HUPCL apart, which stays as it was last applied: after any calls *)
(* and whichever of them could not flush or drain, if none failed to get   *)
(* or to set the settings and no other program set them.                   *)
THEOREM DevicesPutBack ==
  ASSUME Strict, ~OthersSet, Fallible \subseteq {"flush", "drain", "mctl", "atexit"} PROVE Spec => ExitRestores
<1>1. TypeInv /\ UniqueFds /\ OrigKept /\ OneHangup /\ [Next]_vars =>
        [exited' => \A i \in Slots :
           InUse(i) => dev'[slot[i]] = Adopt[SetHupcl(first[i], Hupcl(dev[slot[i]]))]]_vars
  <2>1. "setattr" \notin Fallible
    OBVIOUS
  <2> QED
    BY <2>1, ExitStep
<1>2. TypeInv /\ UniqueFds /\ OneHangup /\ [Next]_vars => OneHangup'
  <2>1. TypeInv /\ UniqueFds /\ OneHangup /\ UNCHANGED vars => OneHangup'
    BY DEF OneHangup, InUse, vars
  <2> QED
    BY <2>1, HangupStep
<1>3. Init => OneHangup
  BY DEF Init, OneHangup, InUse
<1>4. Spec => []UniqueFds
  BY EachOnce
<1> QED
  BY <1>1, <1>2, <1>3, <1>4, TypeCorrect, OriginalKept, PTL DEF ExitRestores, Spec, TypeInv

-----------------------------------------------------------------------------
(* Every device has settings that it takes over as they are.               *)
Settled == \A fd \in FD : Adopt[dev[fd]] = dev[fd]

(* What a step may do to the devices.                                      *)
DevMoves == \A fd \in FD :
  dev'[fd] = dev[fd] \/ dev'[fd] \in DevSettings \/ \E t \in TermiosType : dev'[fd] = Adopt[t]

LEMMA DevStep ==
  ASSUME TypeInv, [Next]_vars
  PROVE  DevMoves
<1> USE DEF TypeInv, TypeOK, Placed
<1>1. CASE UNCHANGED dev
  BY <1>1 DEF DevMoves
<1>2. CASE term_lib_init
  <2>1. CASE ~UNCHANGED dev
    <3>1. PICK bad \in SUBSET {i \in Slots : slot[i] # Free} :
            dev' = [fd \in FD |->
                      LET S == SlotsOf(fd) \ bad
                      IN  IF S = {} THEN dev[fd] ELSE Adopt[orig[Highest(S)]]]
      BY <1>2, <2>1 DEF term_lib_init
    <3>2. \A fd : SlotsOf(fd) \ bad \in SUBSET Slots
      BY DEF SlotsOf
    <3>3. \A fd \in FD : SlotsOf(fd) \ bad # {} => orig[Highest(SlotsOf(fd) \ bad)] \in TermiosType
      BY <3>2, HighestSlot
    <3> QED
      BY <3>1, <3>3 DEF DevMoves
  <2> QED
    BY <1>1, <2>1
<1>3. CASE term_exitfunc
  <2>1. CASE ~UNCHANGED dev
    <3>1. PICK bad \in SUBSET {i \in Slots : slot[i] # Free} :
            /\ init
            /\ dev' = [fd \in FD |-> IF SlotsOf(fd) = {} \/ Find(fd) \in bad THEN dev[fd]
                                     ELSE Adopt[orig[Find(fd)]]]
      BY <1>3, <2>1 DEF term_exitfunc
    <3>2. \A fd \in FD : SlotsOf(fd) # {} => orig[Find(fd)] \in TermiosType
      BY <3>1, FindSlot DEF Managed
    <3> QED
      BY <3>1, <3>2 DEF DevMoves
  <2> QED
    BY <1>1, <2>1
<1>4. ASSUME NEW fd \in FD, OutsideChange(fd)
      PROVE  DevMoves
  BY <1>4 DEF OutsideChange, DevMoves
<1>5. ASSUME NEW fd \in FD, Call(fd), UNCHANGED <<init, exited>>
      PROVE  DevMoves
  <2>0. ASSUME NEW x \in FD, NEW t \in TermiosType, dev' = [dev EXCEPT ![x] = Adopt[t]]
        PROVE  DevMoves
    BY <2>0 DEF DevMoves
  <2> USE <1>5 DEF Refused, Unmanaged
  <2>1. CASE term_add(fd)
    BY <2>1, <1>1 DEF term_add
  <2>2. CASE term_remove(fd)
    BY <2>2, <1>1, <2>0, FindSlot DEF term_remove
  <2>3. CASE term_erase(fd)
    BY <2>3, <1>1 DEF term_erase
  <2>4. ASSUME NEW newfd \in FD, term_replace(fd, newfd)
        PROVE  DevMoves
    BY <2>4, <1>1, <2>0, FindSlot DEF term_replace
  <2>5. CASE term_reset(fd)
    BY <2>5, <1>1, <2>0, FindSlot DEF term_reset
  <2>6. CASE term_revert(fd)
    BY <2>6, <1>1 DEF term_revert
  <2>7. CASE term_refresh(fd)
    BY <2>7, <1>1 DEF term_refresh
  <2>8. CASE term_apply(fd)
    BY <2>8, <1>1, <2>0, FindSlot DEF term_apply
  <2>9. ASSUME NEW a \in SetArgs, term_set_one(fd, a)
        PROVE  DevMoves
    BY <2>9, <1>1 DEF term_set_one
  <2>10. ASSUME NEW a \in SetArgs, term_set(fd, a)
         PROVE  DevMoves
    BY <2>10, <1>1 DEF term_set
  <2>11. CASE term_fake_flush(fd)
    <3>1. CASE Managed(fd) /\ ~UNCHANGED dev
      <4>1. curr' = [curr EXCEPT ![Find(fd)] = dev[fd]] /\ Find(fd) \in Slots
        BY <2>11, <3>1, FindSlot DEF term_fake_flush
      <4>2. curr'[Find(fd)] \in TermiosType /\ SetFlow(dev[fd], "FC_NONE") \in TermiosType
        BY <4>1, SettersTyped DEF Flow
      <4> QED
        BY <2>11, <3>1, <4>2, <2>0 DEF term_fake_flush
    <3> QED
      BY <2>11, <1>1, <3>1 DEF term_fake_flush
  <2>12. CASE term_device_call(fd)
    BY <2>12, <1>1 DEF term_device_call
  <2> QED
    BY <2>1, <2>2, <2>3, <2>4, <2>5, <2>6, <2>7, <2>8, <2>9, <2>10, <2>11, <2>12 DEF Call
<1> QED
  BY <1>1, <1>2, <1>3, <1>4, <1>5 DEF Next, vars

LEMMA SettledStep == TypeInv /\ Settled /\ [Next]_vars => Settled'
<1> SUFFICES ASSUME TypeInv, Settled, [Next]_vars, NEW fd \in FD
             PROVE  Adopt[dev'[fd]] = dev'[fd]
  BY DEF Settled
<1> QED
  BY DevStep, TermAssumption DEF DevMoves, Settled

-----------------------------------------------------------------------------
(* One slot and its device, when the others are left alone.                *)
LEMMA OneSlotTold ==
  ASSUME TypeInv, UniqueFds, CurrIsDevice, UNCHANGED <<init, slot>>, NEW i \in Slots, InUse(i),
         NEW t, dev' = [dev EXCEPT ![slot[i]] = t], curr' = [curr EXCEPT ![i] = t]
  PROVE  CurrIsDevice'
<1> SUFFICES ASSUME NEW j \in Slots, InUse(j)
             PROVE  curr'[j] = dev'[slot[j]]
  BY DEF CurrIsDevice, InUse
<1>1. slot[j] \in FD /\ slot[i] \in FD
  BY DEF InUse, TypeInv, TypeOK, Placed
<1>2. j # i => slot[j] # slot[i]
  BY DEF UniqueFds
<1> QED
  BY <1>1, <1>2 DEF CurrIsDevice, TypeInv, TypeOK

(* A call that succeeds leaves the current settings those of the device.   *)
LEMMA ToldStep ==
  ASSUME TypeInv, UniqueFds, Settled, CurrIsDevice, Strict, ~OthersSet, Next,
         rval' = 0 \/ UNCHANGED <<table, dev>>
  PROVE  CurrIsDevice'
<1> USE DEF TypeInv, TypeOK, Placed
<1>0. \A fd \in FD : fd # Free
  BY TermAssumption DEF Free
<1>1. CASE UNCHANGED <<init, slot, curr, dev>>
  BY <1>1 DEF CurrIsDevice, InUse
<1>2. CASE term_lib_init
  BY <1>2 DEF term_lib_init, CurrIsDevice, InUse
<1>3. CASE term_exitfunc
  BY <1>3 DEF term_exitfunc, CurrIsDevice, InUse
<1>4. ASSUME NEW fd \in FD, Call(fd), UNCHANGED <<init, exited>>
      PROVE  CurrIsDevice'
  <2> USE <1>4 DEF Fail, Succeed, Refused, Unmanaged, table
  <2>0. ASSUME Managed(fd)
        PROVE  Find(fd) \in Slots /\ slot[Find(fd)] = fd /\ InUse(Find(fd))
    BY <1>0, <2>0, FindSlot DEF InUse
  <2>a. ASSUME NEW i \in Slots, NEW x \in FD, init, slot' = [slot EXCEPT ![i] = x],
               curr' = [curr EXCEPT ![i] = dev'[x]], \A y \in FD : y # x => dev'[y] = dev[y],
               ~Managed(x)
        PROVE  CurrIsDevice'
    <3> SUFFICES ASSUME NEW j \in Slots, InUse(j)'
                 PROVE  curr'[j] = dev'[slot'[j]]
      BY DEF CurrIsDevice
    <3>1. CASE j = i
      BY <2>a, <3>1
    <3>2. CASE j # i
      <4>1. slot'[j] = slot[j] /\ InUse(j) /\ curr'[j] = curr[j] /\ slot[j] \in FD
        BY <2>a, <3>2 DEF InUse
      <4>2. slot[j] # x
        BY <2>a DEF Managed, SlotsOf
      <4> QED
        BY <2>a, <4>1, <4>2 DEF CurrIsDevice
    <3> QED
      BY <3>1, <3>2
  <2>1. CASE term_add(fd)
    <3>1. CASE Managed(fd) \/ UNCHANGED <<table, dev>>
      BY <1>1, <2>1, <3>1 DEF term_add
    <3>2. CASE ~Managed(fd) /\ ~UNCHANGED <<table, dev>>
      BY <2>1, <2>a, <3>2, FreeSlot DEF term_add, Enter
    <3> QED
      BY <3>1, <3>2
  <2>2. CASE term_remove(fd)
    <3>1. CASE Managed(fd) /\ slot' = [slot EXCEPT ![Find(fd)] = Free]
                 /\ (\A y \in FD : y # fd => dev'[y] = dev[y]) /\ curr' = curr
      <4> SUFFICES ASSUME NEW j \in Slots, InUse(j)'
                   PROVE  curr'[j] = dev'[slot'[j]]
        BY DEF CurrIsDevice
      <4>1. j # Find(fd) /\ InUse(j) /\ slot'[j] = slot[j] /\ slot[j] \in FD
        BY <2>0, <3>1 DEF InUse
      <4>2. slot[j] # fd
        BY <2>0, <3>1, <4>1 DEF UniqueFds
      <4> QED
        BY <3>1, <4>1, <4>2 DEF CurrIsDevice
    <3> QED
      BY <1>1, <2>2, <3>1 DEF term_remove
  <2>3. CASE term_erase(fd)
    BY <1>1, <2>0, <2>3 DEF term_erase, CurrIsDevice, InUse
  <2>4. ASSUME NEW newfd \in FD, ~Managed(newfd), term_replace(fd, newfd)
        PROVE  CurrIsDevice'
    <3>1. CASE rval' = 0 /\ Managed(fd)
      BY <2>0, <2>4, <2>a, <3>1, FindSlot DEF term_replace
    <3> QED
      BY <1>1, <2>4, <3>1 DEF term_replace
  <2>5. CASE term_reset(fd)
    BY <1>1, <2>0, <2>5, OneSlotTold DEF term_reset
  <2>6. CASE term_revert(fd)
    BY <1>1, <2>6 DEF term_revert
  <2>7. CASE term_refresh(fd)
    <3>1. CASE Managed(fd) /\ curr' = [curr EXCEPT ![Find(fd)] = dev[fd]] /\ UNCHANGED <<slot, dev>>
      <4>1. dev' = [dev EXCEPT ![fd] = dev[fd]]
        BY <3>1
      <4> QED
        BY <2>0, <3>1, <4>1, OneSlotTold
    <3> QED
      BY <1>1, <2>7, <3>1 DEF term_refresh
  <2>8. CASE term_apply(fd)
    BY <1>1, <2>0, <2>8, OneSlotTold DEF term_apply
  <2>9. ASSUME NEW a \in SetArgs, term_set_one(fd, a)
        PROVE  CurrIsDevice'
    BY <1>1, <2>9 DEF term_set_one
  <2>10. ASSUME NEW a \in SetArgs, MaySet(fd, a), term_set(fd, a)
         PROVE  CurrIsDevice'
    <3>1. CASE Managed(fd) \/ UNCHANGED <<table, dev>>
      BY <1>1, <2>10, <3>1 DEF term_set
    <3>2. CASE ~Managed(fd) /\ ~UNCHANGED <<table, dev>>
      <4>1. rval' = 0
        BY <3>2
      <4> QED
        BY <2>10, <2>a, <3>2, <4>1, FreeSlot DEF term_set
    <3> QED
      BY <3>1, <3>2
  <2>11. CASE term_fake_flush(fd)
    <3>1. CASE Managed(fd) /\ rval' = 0
      <4>1. curr' = [curr EXCEPT ![Find(fd)] = dev[fd]] /\ UNCHANGED slot
        BY <2>11, <3>1 DEF term_fake_flush
      <4>2. dev' = [dev EXCEPT ![fd] = Adopt[curr'[Find(fd)]]]
        BY <2>11, <3>1 DEF term_fake_flush
      <4>3. Adopt[curr'[Find(fd)]] = dev[fd]
        BY <2>0, <3>1, <4>1 DEF Settled
      <4> QED
        BY <2>0, <3>1, <4>1, <4>2, <4>3, OneSlotTold
    <3> QED
      BY <1>1, <2>11, <3>1 DEF term_fake_flush
  <2>12. CASE term_device_call(fd)
    BY <1>1, <2>12 DEF term_device_call
  <2> QED
    BY <2>1, <2>2, <2>3, <2>4, <2>5, <2>6, <2>7, <2>8, <2>9, <2>10, <2>11, <2>12
    DEF Call, MayReplace
<1> QED
  BY <1>2, <1>3, <1>4 DEF Next, OutsideChange

(* What the getters report is what the devices have, through any calls,    *)
(* for devices that take only a part of what is asked of them too, until a *)
(* call fails after it has changed something.                              *)
THEOREM GettersTellTheTruth ==
  ASSUME Strict, ~OthersSet PROVE Spec => CurrTellsDevice
<1>1. TypeInv /\ UniqueFds /\ Settled /\ [Next]_vars =>
        [CurrIsDevice /\ (rval' = 0 \/ UNCHANGED <<table, dev>>) => CurrIsDevice']_vars
  BY ToldStep
<1>2. Spec => []UniqueFds
  BY EachOnce
<1>3. Init => Settled
  BY TermAssumption DEF Init, Settled
<1> QED
  BY <1>1, <1>2, <1>3, SettledStep, TypeCorrect, PTL DEF CurrTellsDevice, Spec, TypeInv

-----------------------------------------------------------------------------
(* The table implements the map of TermAbs.  What the map holds of a       *)
(* managed descriptor is what its slot holds.                              *)
Entry(i) == [orig |-> orig[i], curr |-> curr[i], nxt |-> nxt[i]]

PortFact ==
  /\ DOMAIN Port = {fd \in FD : init /\ \E i \in Slots : slot[i] = fd}
  /\ Port = [fd \in DOMAIN Port |-> Port[fd]]
  /\ \A i \in Slots : InUse(i) => slot[i] \in DOMAIN Port /\ Port[slot[i]] = Entry(i)

LEMMA PortIs == TypeInv /\ UniqueFds => PortFact
<1> SUFFICES ASSUME TypeInv, UniqueFds
             PROVE  PortFact
  OBVIOUS
<1>1. DOMAIN Port = {fd \in FD : init /\ \E i \in Slots : slot[i] = fd}
  BY DEF Port, Managed, SlotsOf
<1>2. Port = [fd \in DOMAIN Port |-> Port[fd]]
  BY DEF Port
<1>3. ASSUME NEW i \in Slots, InUse(i)
      PROVE  slot[i] \in DOMAIN Port /\ Port[slot[i]] = Entry(i)
  <2>1. slot[i] \in FD
    BY <1>3 DEF TypeInv, TypeOK, Placed, InUse
  <2>2. Managed(slot[i]) /\ Find(slot[i]) = i
    BY <1>3, FindUnique
  <2> QED
    BY <2>1, <2>2 DEF Port, Entry
<1> QED
  BY <1>1, <1>2, <1>3 DEF PortFact

LEMMA PortIsNext == (TypeInv /\ UniqueFds)' => PortFact'
BY PortIs, PTL

(* One slot changes: so does one entry of the map.                         *)
LEMMA EntryMoves ==
  ASSUME PortFact, PortFact', UniqueFds, UNCHANGED <<init, slot>>, NEW i \in Slots, InUse(i),
         \A j \in Slots : j # i => Entry(j)' = Entry(j)
  PROVE  /\ slot[i] \in DOMAIN Port /\ DOMAIN Port' = DOMAIN Port
         /\ Port' = [Port EXCEPT ![slot[i]] = Entry(i)']
<1>1. DOMAIN Port' = DOMAIN Port
  BY DEF PortFact
<1>2. ASSUME NEW fd \in DOMAIN Port, fd # slot[i]
      PROVE  Port'[fd] = Port[fd]
  <2>1. PICK j \in Slots : slot[j] = fd /\ InUse(j) /\ init
    BY <1>2, TermAssumption DEF PortFact, InUse, Free
  <2>2. Port[fd] = Entry(j) /\ Entry(j)' = Entry(j)
    BY <1>2, <2>1 DEF PortFact
  <2>3. Port'[fd] = Entry(j)'
    BY <2>1 DEF PortFact, InUse
  <2> QED
    BY <2>2, <2>3
<1>3. Port'[slot[i]] = Entry(i)'
  BY DEF PortFact, InUse
<1>4. slot[i] \in DOMAIN Port
  BY DEF PortFact
<1> QED
  BY <1>1, <1>2, <1>3, <1>4 DEF PortFact

(* A descriptor takes a free slot: the map has it too.                     *)
LEMMA EntryJoins ==
  ASSUME PortFact, PortFact', TypeInv, UniqueFds, init, init' = init,
         NEW i \in Slots, slot[i] = Free, NEW fd \in FD, fd \notin DOMAIN Port,
         slot' = [slot EXCEPT ![i] = fd],
         \A j \in Slots : j # i => Entry(j)' = Entry(j)
  PROVE  /\ DOMAIN Port' = DOMAIN Port \cup {fd}
         /\ Port' = [x \in DOMAIN Port \cup {fd} |-> IF x = fd THEN Entry(i)' ELSE Port[x]]
<1>0. fd # Free /\ \A x \in FD : x # Free
  BY TermAssumption DEF Free
<1>1. DOMAIN Port' = DOMAIN Port \cup {fd}
  <2>1. slot'[i] = fd /\ \A j \in Slots : j # i => slot'[j] = slot[j]
    BY DEF TypeInv, TypeOK
  <2>2. DOMAIN Port' = {x \in FD : \E j \in Slots : slot'[j] = x}
    BY DEF PortFact
  <2>3. DOMAIN Port = {x \in FD : \E j \in Slots : slot[j] = x}
    BY DEF PortFact
  <2> QED
    BY <1>0, <2>1, <2>2, <2>3
<1>2. ASSUME NEW x \in DOMAIN Port
      PROVE  Port'[x] = Port[x]
  <2>1. PICK j \in Slots : slot[j] = x /\ InUse(j)
    BY <1>0, <1>2 DEF PortFact, InUse
  <2>2. j # i /\ slot'[j] = x /\ InUse(j)'
    BY <1>2, <2>1 DEF InUse, TypeInv, TypeOK
  <2>3. Port[x] = Entry(j) /\ Entry(j)' = Entry(j)
    BY <2>1, <2>2 DEF PortFact
  <2>4. Port'[x] = Entry(j)'
    BY <2>2 DEF PortFact
  <2> QED
    BY <2>3, <2>4
<1>3. Port'[fd] = Entry(i)'
  <2>1. slot'[i] = fd /\ InUse(i)'
    BY <1>0 DEF InUse, TypeInv, TypeOK
  <2> QED
    BY <2>1 DEF PortFact
<1> QED
  BY <1>1, <1>2, <1>3, SMTT(30) DEF PortFact

(* A slot is freed: the map has its descriptor no more.                    *)
LEMMA EntryLeaves ==
  ASSUME PortFact, PortFact', TypeInv, UniqueFds, init' = init, NEW i \in Slots, InUse(i),
         slot' = [slot EXCEPT ![i] = Free],
         \A j \in Slots : j # i => Entry(j)' = Entry(j)
  PROVE  Port' = Restrict(Port, DOMAIN Port \ {slot[i]})
<1>0. \A x \in FD : x # Free
  BY TermAssumption DEF Free
<1>1. slot'[i] = Free /\ \A j \in Slots : j # i => slot'[j] = slot[j] /\ (InUse(j)' <=> InUse(j))
  BY DEF TypeInv, TypeOK, InUse
<1>2. \A j \in Slots : slot[j] = slot[i] => j = i
  BY DEF UniqueFds
<1>3. DOMAIN Port' = DOMAIN Port \ {slot[i]}
  BY <1>0, <1>1, <1>2 DEF PortFact, InUse
<1>4. ASSUME NEW x \in DOMAIN Port \ {slot[i]}
      PROVE  Port'[x] = Port[x]
  <2>1. PICK j \in Slots : slot[j] = x /\ InUse(j) /\ j # i
    BY <1>0, <1>4 DEF PortFact, InUse
  <2>2. Port[x] = Entry(j) /\ Entry(j)' = Entry(j)
    BY <2>1 DEF PortFact
  <2>3. Port'[x] = Entry(j)'
    BY <1>1, <2>1 DEF PortFact
  <2> QED
    BY <2>2, <2>3
<1> QED
  BY <1>3, <1>4 DEF PortFact, Restrict

(* There is room in the map while a slot is free.                          *)
LEMMA FreeIsRoom ==
  ASSUME TypeInv, PortFact, UniqueFds, NEW i \in Slots, slot[i] = Free
  PROVE  Cardinality(DOMAIN Port) < MAX_TERMS
<1> DEFINE S == DOMAIN Port
           T == Slots \ {i}
           place == [fd \in S |-> CHOOSE j \in Slots : slot[j] = fd]
<1>1. \A fd \in S : place[fd] \in Slots /\ slot[place[fd]] = fd /\ fd # Free
  BY TermAssumption DEF PortFact, Free
<1>2. place \in [S -> T]
  BY <1>1
<1>3. place \in Injection(S, T)
  <2>1. \A x, y \in S : place[x] = place[y] => x = y
    BY <1>1
  <2> QED
    BY <1>2, <2>1 DEF Injection, IsInjective
<1>4. IsFiniteSet(Slots) /\ Cardinality(Slots) = MAX_TERMS
  <2>1. MAX_TERMS \in Nat /\ MAX_TERMS # 0
    BY TermAssumption
  <2>2. 0 \in Int /\ MAX_TERMS - 1 \in Int /\ 0 <= MAX_TERMS - 1
    BY <2>1
  <2> QED
    BY <2>1, <2>2, FS_Interval DEF Slots
<1>5. IsFiniteSet(T) /\ Cardinality(T) = MAX_TERMS - 1
  BY <1>4, FS_RemoveElement
<1> HIDE DEF S, T, place
<1>6. IsFiniteSet(S) /\ Cardinality(S) <= MAX_TERMS - 1
  BY <1>3, <1>5, FS_Injection
<1> QED
  BY <1>6, FS_CardinalityType, TermAssumption DEF S

(* Nothing that is in use changes: neither does the map.                   *)
LEMMA PortStays ==
  ASSUME PortFact, PortFact', UNCHANGED <<init, slot>>,
         \A j \in Slots : InUse(j) => Entry(j)' = Entry(j)
  PROVE  Port' = Port
<1>1. DOMAIN Port' = DOMAIN Port
  BY DEF PortFact
<1>2. ASSUME NEW fd \in DOMAIN Port
      PROVE  Port'[fd] = Port[fd]
  <2>1. PICK j \in Slots : slot[j] = fd /\ InUse(j)
    BY <1>2, TermAssumption DEF PortFact, InUse, Free
  <2>2. Port[fd] = Entry(j) /\ Port'[fd] = Entry(j)'
    BY <2>1 DEF PortFact, InUse
  <2> QED
    BY <2>1, <2>2
<1> QED
  BY <1>1, <1>2 DEF PortFact

(* A call that fails, leaving the map as it is.                            *)
LEMMA AbsFailed ==
  ASSUME TypeInv, TypeInv', NEW fd \in FD, ~exited, rval' = -1, UNCHANGED <<init, exited>>,
         Port' = Port, NEW x \in FD, dev' = [dev EXCEPT ![x] = dev'[x]]
  PROVE  Abs!AbsNext
<1>1. dev'[x] \in TermiosType
  BY DEF TypeInv, TypeOK
<1>2. Abs!OneDevice
  BY <1>1 DEF Abs!OneDevice
<1> QED
  BY <1>2 DEF Abs!AbsNext, Abs!Failed

(* A call that succeeds and changes one entry of the map.                  *)
LEMMA AbsDone ==
  ASSUME NEW fd \in FD, ~exited, rval' = 0, UNCHANGED <<init, exited>>,
         \/ Abs!Add(fd) \/ Abs!AddPlanned(fd) \/ Abs!Remove(fd) \/ Abs!Plan(fd)
         \/ Abs!Refresh(fd) \/ Abs!Reset(fd) \/ Abs!Apply(fd)
         \/ \E new \in FD : Abs!Replace(fd, new)
  PROVE  Abs!AbsNext
BY DEF Abs!AbsNext, Abs!Done

(* A call that fails and lets go of the descriptor, or re-reads it.        *)
LEMMA AbsFailedAt ==
  ASSUME TypeInv, TypeInv', NEW fd \in FD, ~exited, rval' = -1, UNCHANGED <<init, exited>>,
         fd \in DOMAIN Port,
         \/ Port' = [Port EXCEPT ![fd] = [@ EXCEPT !.curr = dev[fd]]]
         \/ Port' = Restrict(Port, DOMAIN Port \ {fd}),
         dev' = [dev EXCEPT ![fd] = dev'[fd]]
  PROVE  Abs!AbsNext
<1>1. dev'[fd] \in TermiosType
  BY DEF TypeInv, TypeOK
<1>2. Abs!OneDevice
  BY <1>1 DEF Abs!OneDevice
<1>3. CASE Port' = [Port EXCEPT ![fd] = [@ EXCEPT !.curr = dev[fd]]]
  <2>1. Abs!Failed(fd)
    BY <1>2, <1>3 DEF Abs!Failed, Abs!Managed
  <2> QED
    BY <2>1 DEF Abs!AbsNext
<1>4. CASE Port' = Restrict(Port, DOMAIN Port \ {fd})
  <2>1. Abs!Failed(fd)
    BY <1>2, <1>4 DEF Abs!Failed, Abs!Managed, Restrict, Abs!Restrict
  <2> QED
    BY <2>1 DEF Abs!AbsNext
<1> QED
  BY <1>3, <1>4

(* Only the next settings of a managed descriptor change.                  *)
LEMMA AbsPlan ==
  ASSUME TypeInv, TypeInv', UniqueFds, PortFact, PortFact', NEW fd \in FD, Managed(fd),
         NEW t, nxt' = [nxt EXCEPT ![Find(fd)] = t],
         UNCHANGED <<init, slot, orig, curr, dev>>
  PROVE  Abs!Plan(fd)
<1>1. PICK i \in Slots : i = Find(fd) /\ slot[i] = fd /\ InUse(i)
  BY FindSlot, TermAssumption DEF InUse, Free
<1>2. \A j \in Slots : j # i => Entry(j)' = Entry(j)
  BY <1>1 DEF Entry, TypeInv, TypeOK
<1>3. fd \in DOMAIN Port /\ DOMAIN Port' = DOMAIN Port
      /\ Port' = [Port EXCEPT ![fd] = Entry(i)']
  BY <1>1, <1>2, EntryMoves
<1>4. Port[fd] = Entry(i) /\ Port'[fd] = Entry(i)'
  BY <1>1, <1>3 DEF PortFact
<1>5. Entry(i)' = [orig |-> orig[i], curr |-> curr[i], nxt |-> nxt'[i]] /\ nxt'[i] \in TermiosType
  BY <1>1 DEF Entry, TypeInv, TypeOK
<1>6. [Port[fd] EXCEPT !.nxt = nxt'[i]] = Entry(i)' /\ Port'[fd].nxt = nxt'[i]
  BY <1>4, <1>5 DEF Entry
<1> QED
  BY <1>3, <1>5, <1>6 DEF Abs!Plan, Abs!Managed

(* A step of the table, as the lemmas on single calls see it.              *)
Stepping == /\ TypeInv /\ TypeInv' /\ UniqueFds
            /\ PortFact /\ PortFact'
            /\ ~exited

(* term_lib_init() and the atexit handler empty the map.                   *)
LEMMA AbsDropped ==
  ASSUME Stepping, init' => \A i \in Slots : slot'[i] = Free,
         NEW S \in SUBSET DOMAIN Port,
         \A fd \in FD : dev'[fd] = IF fd \in S THEN Adopt[orig[Find(fd)]] ELSE dev[fd]
  PROVE  Abs!DropAll
<1>1. DOMAIN Port' = {}
  BY TermAssumption DEF Stepping, PortFact, Free
<1>2. Port' = [x \in {} |-> 0]
  BY <1>1 DEF Stepping, PortFact
<1>3. \A fd \in S : fd \in FD /\ Port[fd].orig = orig[Find(fd)]
  BY DEF Port
<1>4. dev' = [fd \in FD |-> dev'[fd]]
  BY DEF Stepping, TypeInv, TypeOK
<1>5. dev' = [fd \in FD |-> IF fd \in S THEN Adopt[Port[fd].orig] ELSE dev[fd]]
  <2>1. \A fd \in FD : dev'[fd] = IF fd \in S THEN Adopt[Port[fd].orig] ELSE dev[fd]
    BY <1>3
  <2> QED
    BY <1>4, <2>1
<1> QED
  BY <1>2, <1>5 DEF Abs!DropAll, Abs!Managed

LEMMA AbsStart == ASSUME Stepping, term_lib_init PROVE Abs!AbsNext
<1>1. Abs!DropAll
  <2>1. \A i \in Slots : slot'[i] = Free
    BY DEF term_lib_init
  <2>2. CASE ~init
    <3> DEFINE T == {}
    <3>1. T \in SUBSET DOMAIN Port
      OBVIOUS
    <3>2. \A fd \in FD : dev'[fd] = IF fd \in T THEN Adopt[orig[Find(fd)]] ELSE dev[fd]
      BY <2>2 DEF term_lib_init
    <3> HIDE DEF T
    <3> QED
      BY <2>1, <3>1, <3>2, AbsDropped
  <2>3. CASE init
    <3>1. PICK bad : dev' = [fd \in FD |->
                        LET S == SlotsOf(fd) \ bad
                        IN  IF S = {} THEN dev[fd] ELSE Adopt[orig[Highest(S)]]]
      BY <2>3 DEF term_lib_init
    <3> DEFINE T == {fd \in FD : SlotsOf(fd) \ bad # {}}
    <3>2. ASSUME NEW fd \in T
          PROVE  fd \in DOMAIN Port /\ Highest(SlotsOf(fd) \ bad) = Find(fd)
      <4>1. Managed(fd)
        BY <2>3 DEF Managed
      <4>2. SlotsOf(fd) \ bad \in SUBSET Slots /\ SlotsOf(fd) \ bad # {}
        BY DEF SlotsOf
      <4>3. PICK h \in Slots : h = Highest(SlotsOf(fd) \ bad) /\ slot[h] = fd
        BY <4>2, HighestSlot DEF SlotsOf
      <4>4. InUse(h)
        BY <2>3, <4>3, TermAssumption DEF InUse, Free
      <4>5. Find(fd) = h
        BY <4>3, <4>4, FindUnique DEF Stepping
      <4> QED
        BY <4>1, <4>3, <4>5 DEF Port
    <3>3. ASSUME NEW fd \in FD
          PROVE  dev'[fd] = IF fd \in T THEN Adopt[orig[Find(fd)]] ELSE dev[fd]
      <4>1. CASE fd \in T
        BY <3>1, <3>2, <4>1
      <4>2. CASE fd \notin T
        BY <3>1, <4>2
      <4> QED
        BY <4>1, <4>2
    <3>4. T \in SUBSET DOMAIN Port
      BY <3>2
    <3> HIDE DEF T
    <3> QED
      BY <2>1, <3>3, <3>4, AbsDropped
  <2> QED
    BY <2>2, <2>3
<1>2. CASE rval' = 0
  <2>1. Abs!Start
    BY <1>1, <1>2 DEF term_lib_init, Succeed, Fail, Abs!Start
  <2> QED
    BY <2>1 DEF Stepping, Abs!AbsNext
<1>3. CASE rval' # 0
  <2>1. ~init /\ rval' = -1 /\ UNCHANGED <<init, dev, exited>>
    BY <1>3 DEF term_lib_init, Succeed, Fail
  <2>2. Port' = Port
    <3>1. DOMAIN Port = {} /\ DOMAIN Port' = {}
      BY <2>1 DEF Port, Managed
    <3> QED
      BY <3>1 DEF Stepping, PortFact
  <2>3. Abs!NotStarted
    BY <2>1, <2>2 DEF Abs!NotStarted
  <2> QED
    BY <2>3 DEF Stepping, Abs!AbsNext
<1> QED
  BY <1>2, <1>3

LEMMA AbsExit == ASSUME Stepping, term_exitfunc PROVE Abs!AbsNext
<1>1. Abs!DropAll
  <2>1. init' => \A i \in Slots : slot'[i] = Free
    BY DEF term_exitfunc
  <2>2. CASE ~init
    <3> DEFINE T == {}
    <3>1. T \in SUBSET DOMAIN Port
      OBVIOUS
    <3>2. \A fd \in FD : dev'[fd] = IF fd \in T THEN Adopt[orig[Find(fd)]] ELSE dev[fd]
      BY <2>2 DEF term_exitfunc
    <3> HIDE DEF T
    <3> QED
      BY <2>1, <3>1, <3>2, AbsDropped
  <2>3. CASE init
    <3>1. PICK bad : dev' = [fd \in FD |->
                        IF SlotsOf(fd) = {} \/ Find(fd) \in bad THEN dev[fd]
                        ELSE Adopt[orig[Find(fd)]]]
      BY <2>3 DEF term_exitfunc
    <3> DEFINE T == {fd \in FD : SlotsOf(fd) # {} /\ Find(fd) \notin bad}
    <3>2. T \in SUBSET DOMAIN Port
      BY <2>3 DEF Port, Managed
    <3>3. \A fd \in FD : dev'[fd] = IF fd \in T THEN Adopt[orig[Find(fd)]] ELSE dev[fd]
      BY <3>1
    <3> HIDE DEF T
    <3> QED
      BY <2>1, <3>2, <3>3, AbsDropped
  <2> QED
    BY <2>2, <2>3
<1>2. Abs!Exit
  BY <1>1 DEF term_exitfunc, Abs!Exit
<1> QED
  BY <1>2 DEF Stepping, Abs!AbsNext

(* A call that is refused.                                                 *)
LEMMA AbsRefused ==
  ASSUME Stepping, NEW fd \in FD, rval' = -1, UNCHANGED <<init, exited, table, dev>>
  PROVE  Abs!AbsNext
<1>1. Port' = Port
  <2>1. UNCHANGED <<init, slot>> /\ \A j \in Slots : Entry(j)' = Entry(j)
    BY DEF table, Entry
  <2> QED
    BY <2>1, PortStays DEF Stepping
<1>2. dev' = [dev EXCEPT ![fd] = dev'[fd]]
  BY DEF Stepping, TypeInv, TypeOK
<1> QED
  BY <1>1, <1>2, AbsFailed DEF Stepping

(* The slot of a managed descriptor.                                       *)
LEMMA ItsSlot ==
  ASSUME Stepping, NEW fd \in FD, Managed(fd)
  PROVE  /\ init /\ Find(fd) \in Slots /\ slot[Find(fd)] = fd /\ InUse(Find(fd))
         /\ fd \in DOMAIN Port /\ Port[fd] = Entry(Find(fd))
<1>1. init /\ Find(fd) \in Slots /\ slot[Find(fd)] = fd /\ InUse(Find(fd))
  BY FindSlot, TermAssumption DEF InUse, Free
<1> QED
  BY <1>1 DEF Stepping, PortFact

LEMMA AbsAdd ==
  ASSUME Stepping, NEW fd \in FD, term_add(fd), UNCHANGED <<init, exited>>
  PROVE  Abs!AbsNext
<1>1. CASE Refused
  BY <1>1, AbsRefused DEF Refused, Fail
<1>2. CASE ~Refused
  <2>1. PICK i \in Slots : i = Lowest(SlotsOf(Free)) /\ slot[i] = Free
    BY <1>2, FreeSlot DEF term_add
  <2>2. init /\ ~Managed(fd) /\ Enter(fd, i) /\ rval' = 0 /\ UNCHANGED dev
    BY <1>2, <2>1 DEF term_add, Succeed
  <2>3. slot' = [slot EXCEPT ![i] = fd] /\ \A j \in Slots : j # i => Entry(j)' = Entry(j)
    BY <2>2 DEF Enter, Entry, Stepping, TypeInv, TypeOK
  <2>4. Entry(i)' = [orig |-> dev[fd], curr |-> dev[fd], nxt |-> dev[fd]]
    BY <2>2 DEF Enter, Entry, Stepping, TypeInv, TypeOK
  <2>5. fd \notin DOMAIN Port
    BY <2>2 DEF Port
  <2>6. Port' = [x \in DOMAIN Port \cup {fd} |-> IF x = fd THEN Entry(i)' ELSE Port[x]]
    BY <2>1, <2>2, <2>3, <2>5, EntryJoins DEF Stepping
  <2>7. Cardinality(DOMAIN Port) < MAX_TERMS
    BY <2>1, FreeIsRoom DEF Stepping
  <2>8. Abs!Room(fd)
    <3>1. init
      BY <2>2
    <3>2. Abs!Cardinality(DOMAIN Port) = Cardinality(DOMAIN Port)
      BY DEF Abs!Cardinality, Cardinality
    <3> QED
      BY <2>5, <2>7, <3>1, <3>2 DEF Abs!Room, Abs!Managed
  <2>9. Port' = Abs!Holding(fd, Abs!Fresh(fd))
    BY <2>4, <2>6 DEF Abs!Managed, Abs!Holding, Abs!Fresh
  <2>10. Abs!Add(fd)
    BY <2>2, <2>8, <2>9 DEF Abs!Add
  <2> QED
    BY <2>2, <2>10, AbsDone DEF Stepping
<1> QED
  BY <1>1, <1>2

LEMMA AbsErase ==
  ASSUME Stepping, NEW fd \in FD, Managed(fd), UNCHANGED <<init, exited, orig, curr, nxt>>,
         slot' = [slot EXCEPT ![Find(fd)] = Free],
         \/ dev' \in {dev, [dev EXCEPT ![fd] = Adopt[orig[Find(fd)]]]} /\ rval' = 0
         \/ UNCHANGED dev /\ rval' = -1
  PROVE  Abs!AbsNext
<1>1. PICK i \in Slots : /\ i = Find(fd) /\ slot[i] = fd /\ InUse(i)
                         /\ fd \in DOMAIN Port /\ Port[fd] = Entry(i)
  BY ItsSlot
<1>2. \A j \in Slots : j # i => Entry(j)' = Entry(j)
  BY <1>1 DEF Entry, Stepping, TypeInv, TypeOK
<1>3. Port' = Restrict(Port, DOMAIN Port \ {fd})
  BY <1>1, <1>2, EntryLeaves DEF Stepping
<1>4. CASE dev' \in {dev, [dev EXCEPT ![fd] = Adopt[orig[i]]]} /\ rval' = 0
  <2>1. Abs!Remove(fd)
    BY <1>1, <1>3, <1>4 DEF Entry, Abs!Remove, Abs!Managed, Restrict, Abs!Restrict
  <2> QED
    BY <1>4, <2>1, AbsDone DEF Stepping
<1>5. CASE UNCHANGED dev /\ rval' = -1
  <2>1. dev' = [dev EXCEPT ![fd] = dev'[fd]]
    BY <1>5 DEF Stepping, TypeInv, TypeOK
  <2> QED
    BY <1>1, <1>3, <1>5, <2>1, AbsFailedAt DEF Stepping
<1> QED
  BY <1>1, <1>4, <1>5

LEMMA AbsReplace ==
  ASSUME Stepping, NEW fd \in FD, NEW newfd \in FD, ~Managed(newfd), term_replace(fd, newfd),
         UNCHANGED <<init, exited>>
  PROVE  Abs!AbsNext
<1>1. CASE UNCHANGED <<table, dev>> /\ rval' = -1
  BY <1>1, AbsRefused
<1>2. CASE Managed(fd) /\ ~(UNCHANGED <<table, dev>> /\ rval' = -1)
  <2>1. PICK i \in Slots : /\ i = Find(fd) /\ slot[i] = fd /\ InUse(i) /\ init
                           /\ fd \in DOMAIN Port /\ Port[fd] = Entry(i)
    BY <1>2, ItsSlot
  <2>2. /\ dev' = [dev EXCEPT ![newfd] = Adopt[curr[i]]]
        /\ UNCHANGED <<orig, nxt>>
    BY <1>2, <2>1 DEF term_replace, Unmanaged, Refused, Fail, table
  <2>3. dev'[newfd] = Adopt[curr[i]]
    BY <2>2 DEF Stepping, TypeInv, TypeOK
  <2>4. CASE rval' = -1 /\ UNCHANGED <<curr, slot>>
    <3>1. \A j \in Slots : Entry(j)' = Entry(j)
      BY <2>2, <2>4 DEF Entry
    <3>2. Port' = Port
      BY <2>4, <3>1, PortStays DEF Stepping
    <3>3. dev' = [dev EXCEPT ![newfd] = dev'[newfd]]
      BY <2>2, <2>3
    <3> QED
      BY <2>4, <3>2, <3>3, AbsFailed DEF Stepping
  <2>5. CASE /\ curr' = [curr EXCEPT ![i] = Adopt[curr[i]]]
             /\ slot' = [slot EXCEPT ![i] = newfd]
             /\ rval' = 0
    <3>1. newfd \notin DOMAIN Port /\ newfd # Free /\ \A j \in Slots : slot[j] # newfd
      BY <2>1, TermAssumption DEF Port, Managed, SlotsOf, Free
    <3>2. /\ slot'[i] = newfd
          /\ \A j \in Slots : j # i => slot'[j] = slot[j] /\ Entry(j)' = Entry(j)
      BY <2>2, <2>5 DEF Entry, Stepping, TypeInv, TypeOK
    <3>3. \A j \in Slots : slot[j] = fd => j = i
      BY <2>1 DEF Stepping, UniqueFds
    <3>4. DOMAIN Port' = (DOMAIN Port \ {fd}) \cup {newfd}
      <4>1. DOMAIN Port' = {x \in FD : \E j \in Slots : slot'[j] = x}
        BY <2>1 DEF Stepping, PortFact
      <4>2. DOMAIN Port = {x \in FD : \E j \in Slots : slot[j] = x}
        BY <2>1 DEF Stepping, PortFact
      <4> QED
        BY <2>1, <3>1, <3>2, <3>3, <4>1, <4>2
    <3>5. Port'[newfd] = [Port[fd] EXCEPT !.curr = dev'[newfd]]
      <4>1. Port'[newfd] = Entry(i)'
        BY <2>1, <3>1, <3>2 DEF Stepping, PortFact, InUse
      <4>2. Entry(i)' = [orig |-> orig[i], curr |-> dev'[newfd], nxt |-> nxt[i]]
        BY <2>2, <2>3, <2>5 DEF Entry, Stepping, TypeInv, TypeOK
      <4> QED
        BY <2>1, <4>1, <4>2 DEF Entry
    <3>6. ASSUME NEW x \in DOMAIN Port, x # fd
          PROVE  Port'[x] = Port[x]
      <4>1. PICK j \in Slots : slot[j] = x /\ InUse(j) /\ j # i
        BY <2>1, <3>6, TermAssumption DEF Stepping, PortFact, InUse, Free
      <4>2. Port[x] = Entry(j) /\ Entry(j)' = Entry(j) /\ slot'[j] = x
        BY <3>2, <4>1 DEF Stepping, PortFact
      <4>3. Port'[x] = Entry(j)'
        BY <4>1, <4>2 DEF Stepping, PortFact, InUse
      <4> QED
        BY <4>2, <4>3
    <3>7. Port' = [x \in (DOMAIN Port \ {fd}) \cup {newfd} |->
                     IF x = newfd THEN [Port[fd] EXCEPT !.curr = dev'[newfd]] ELSE Port[x]]
      <4>1. Port' = [x \in (DOMAIN Port \ {fd}) \cup {newfd} |-> Port'[x]]
        BY <3>4 DEF Stepping, PortFact
      <4> QED
        BY <3>1, <3>5, <3>6, <4>1
    <3>8. dev' = [dev EXCEPT ![newfd] = Adopt[Port[fd].curr]]
      BY <2>1, <2>2 DEF Entry
    <3>9. Abs!Replace(fd, newfd)
      BY <2>1, <3>1, <3>7, <3>8 DEF Abs!Replace, Abs!Managed
    <3> QED
      BY <2>5, <3>9, AbsDone DEF Stepping
  <2> QED
    BY <1>2, <2>1, <2>4, <2>5
    DEF term_replace, Unmanaged, Refused, Fail, Succeed, table
<1> QED
  BY <1>1, <1>2 DEF term_replace, Unmanaged, Fail

(* One slot that is in use changes, in its settings only.                  *)
LEMMA AbsMoves ==
  ASSUME Stepping, UNCHANGED <<init, slot>>, NEW i \in Slots, InUse(i), NEW fd, slot[i] = fd,
         \A j \in Slots : j # i => Entry(j)' = Entry(j)
  PROVE  /\ fd \in DOMAIN Port /\ Port[fd] = Entry(i)
         /\ Port' = [Port EXCEPT ![fd] = Entry(i)']
BY EntryMoves DEF Stepping, PortFact

LEMMA AbsRefresh ==
  ASSUME Stepping, NEW fd \in FD, term_refresh(fd), UNCHANGED <<init, exited>>
  PROVE  Abs!AbsNext
<1>1. CASE UNCHANGED <<table, dev>> /\ rval' = -1
  BY <1>1, AbsRefused
<1>2. CASE Managed(fd) /\ ~(UNCHANGED <<table, dev>> /\ rval' = -1)
  <2>1. PICK i \in Slots : /\ i = Find(fd) /\ slot[i] = fd /\ InUse(i)
    BY <1>2, ItsSlot
  <2>2. /\ curr' = [curr EXCEPT ![i] = dev[fd]] /\ rval' = 0
        /\ UNCHANGED <<slot, orig, nxt, dev>>
    BY <1>2, <2>1 DEF term_refresh, Unmanaged, Refused, Fail, Succeed, table
  <2>3. \A j \in Slots : j # i => Entry(j)' = Entry(j)
    BY <2>2 DEF Entry, Stepping, TypeInv, TypeOK
  <2>4. Entry(i)' = [orig |-> orig[i], curr |-> dev[fd], nxt |-> nxt[i]]
    BY <2>2 DEF Entry, Stepping, TypeInv, TypeOK
  <2>5. fd \in DOMAIN Port /\ Port[fd] = Entry(i) /\ Port' = [Port EXCEPT ![fd] = Entry(i)']
    BY <2>1, <2>2, <2>3, AbsMoves
  <2>6. [Port[fd] EXCEPT !.curr = dev[fd]] = Entry(i)'
    BY <2>4, <2>5 DEF Entry
  <2>7. Abs!Refresh(fd)
    BY <2>2, <2>5, <2>6 DEF Abs!Refresh, Abs!Managed
  <2> QED
    BY <2>2, <2>7, AbsDone DEF Stepping
<1> QED
  BY <1>1, <1>2 DEF term_refresh, Unmanaged, Fail

(* The device is set and could not be read back.                           *)
LEMMA AbsNotReadBack ==
  ASSUME Stepping, NEW fd \in FD, rval' = -1, UNCHANGED <<init, exited, table>>,
         NEW t, dev' = [dev EXCEPT ![fd] = t]
  PROVE  Abs!AbsNext
<1>1. dev' = [dev EXCEPT ![fd] = dev'[fd]]
  BY DEF Stepping, TypeInv, TypeOK
<1>2. Port' = Port
  <2>1. UNCHANGED <<init, slot>> /\ \A j \in Slots : Entry(j)' = Entry(j)
    BY DEF table, Entry
  <2> QED
    BY <2>1, PortStays DEF Stepping
<1> QED
  BY <1>1, <1>2, AbsFailed DEF Stepping

LEMMA AbsReset ==
  ASSUME Stepping, NEW fd \in FD, term_reset(fd), UNCHANGED <<init, exited>>
  PROVE  Abs!AbsNext
<1>1. CASE UNCHANGED <<table, dev>> /\ rval' = -1
  BY <1>1, AbsRefused
<1>2. CASE Managed(fd) /\ ~(UNCHANGED <<table, dev>> /\ rval' = -1)
  <2>1. PICK i \in Slots : /\ i = Find(fd) /\ slot[i] = fd /\ InUse(i)
    BY <1>2, ItsSlot
  <2>2. dev' = [dev EXCEPT ![fd] = Adopt[orig[i]]] /\ UNCHANGED <<slot, orig>>
    BY <1>2, <2>1 DEF term_reset, Unmanaged, Refused, Fail, table
  <2>3. CASE rval' = -1 /\ UNCHANGED <<curr, nxt>>
    BY <2>2, <2>3, AbsNotReadBack DEF table
  <2>4. CASE /\ curr' = [curr EXCEPT ![i] = Adopt[orig[i]]]
             /\ nxt' = [nxt EXCEPT ![i] = Adopt[orig[i]]]
             /\ rval' = 0
    <3>1. \A j \in Slots : j # i => Entry(j)' = Entry(j)
      BY <2>2, <2>4 DEF Entry, Stepping, TypeInv, TypeOK
    <3>2. dev'[fd] = Adopt[orig[i]]
      BY <2>2 DEF Stepping, TypeInv, TypeOK
    <3>3. Entry(i)' = [orig |-> orig[i], curr |-> dev'[fd], nxt |-> dev'[fd]]
      BY <2>2, <2>4, <3>2 DEF Entry, Stepping, TypeInv, TypeOK
    <3>4. fd \in DOMAIN Port /\ Port[fd] = Entry(i) /\ Port' = [Port EXCEPT ![fd] = Entry(i)']
      BY <2>1, <2>2, <3>1, AbsMoves DEF Stepping
    <3>5. Entry(i)' = [orig |-> Port[fd].orig, curr |-> dev'[fd], nxt |-> dev'[fd]]
      BY <3>3, <3>4 DEF Entry
    <3>6. dev' = [dev EXCEPT ![fd] = Adopt[Port[fd].orig]]
      BY <2>2, <3>4 DEF Entry
    <3>7. Abs!Reset(fd)
      BY <3>4, <3>5, <3>6 DEF Abs!Reset, Abs!Managed
    <3> QED
      BY <2>4, <3>7, AbsDone DEF Stepping
  <2> QED
    BY <1>2, <2>1, <2>3, <2>4
    DEF term_reset, Unmanaged, Refused, Fail, Succeed, table
<1> QED
  BY <1>1, <1>2 DEF term_reset, Unmanaged, Fail

LEMMA AbsApply ==
  ASSUME Stepping, NEW fd \in FD, term_apply(fd), UNCHANGED <<init, exited>>
  PROVE  Abs!AbsNext
<1>1. CASE UNCHANGED <<table, dev>> /\ rval' = -1
  BY <1>1, AbsRefused
<1>2. CASE Managed(fd) /\ ~(UNCHANGED <<table, dev>> /\ rval' = -1)
  <2>1. PICK i \in Slots : /\ i = Find(fd) /\ slot[i] = fd /\ InUse(i)
    BY <1>2, ItsSlot
  <2>2. dev' = [dev EXCEPT ![fd] = Adopt[nxt[i]]] /\ UNCHANGED slot
    BY <1>2, <2>1 DEF term_apply, Unmanaged, Refused, Fail, table
  <2>3. CASE rval' = -1 /\ UNCHANGED <<nxt, curr, orig>>
    BY <2>2, <2>3, AbsNotReadBack DEF table
  <2>4. CASE /\ nxt' = [nxt EXCEPT ![i] = Adopt[nxt[i]]]
             /\ curr' = [curr EXCEPT ![i] = Adopt[nxt[i]]]
             /\ orig' = [orig EXCEPT ![i] = KeepHangup(@, Adopt[nxt[i]])]
             /\ rval' = 0
    <3>1. \A j \in Slots : j # i => Entry(j)' = Entry(j)
      BY <2>2, <2>4 DEF Entry, Stepping, TypeInv, TypeOK
    <3>2. dev'[fd] = Adopt[nxt[i]]
      BY <2>2 DEF Stepping, TypeInv, TypeOK
    <3>3. /\ orig'[i] = SetHupcl(orig[i], Hupcl(dev'[fd]))
          /\ curr'[i] = dev'[fd] /\ nxt'[i] = dev'[fd]
      BY <2>2, <2>4, <3>2 DEF KeepHangup, Stepping, TypeInv, TypeOK
    <3>4. fd \in DOMAIN Port /\ Port[fd] = Entry(i) /\ Port' = [Port EXCEPT ![fd] = Entry(i)']
      BY <2>1, <2>2, <3>1, AbsMoves DEF Stepping
    <3>5. /\ Port[fd].orig = orig[i] /\ Port[fd].nxt = nxt[i]
          /\ Entry(i)' = [orig |-> SetHupcl(Port[fd].orig, Hupcl(dev'[fd])),
                          curr |-> dev'[fd], nxt |-> dev'[fd]]
      BY <3>3, <3>4 DEF Entry
    <3>6. dev' = [dev EXCEPT ![fd] = Adopt[Port[fd].nxt]]
      BY <2>2, <3>5
    <3>7. Abs!Apply(fd)
      BY <3>4, <3>5, <3>6 DEF Abs!Apply, Abs!Managed
    <3> QED
      BY <2>4, <3>7, AbsDone DEF Stepping
  <2> QED
    BY <1>2, <2>1, <2>3, <2>4
    DEF term_apply, NotReadBack, Unmanaged, Refused, Fail, Succeed, table
<1> QED
  BY <1>1, <1>2 DEF term_apply, Unmanaged, Fail

(* term_set() of a descriptor that is not managed yet.                     *)
LEMMA AbsSetNew ==
  ASSUME Stepping, NEW fd \in FD, NEW a \in SetArgs, MaySet(fd, a), Strict,
         ~Managed(fd), term_set(fd, a), UNCHANGED <<init, exited>>
  PROVE  Abs!AbsNext
<1>1. CASE Refused
  BY <1>1, AbsRefused DEF Refused, Fail
<1>2. CASE ~Refused
  <2>1. PICK i \in Slots : i = Lowest(SlotsOf(Free)) /\ slot[i] = Free
    BY <1>2, FreeSlot DEF term_set
  <2>2. /\ init /\ UNCHANGED dev
        /\ orig' = [orig EXCEPT ![i] = dev[fd]]
        /\ curr' = [curr EXCEPT ![i] = dev[fd]]
        /\ nxt' = [nxt EXCEPT ![i] = SetAll(dev[fd], a)]
    BY <1>2, <2>1 DEF term_set
  <2>3. \A j \in Slots : j # i => Entry(j)' = Entry(j)
    BY <2>2 DEF Entry, Stepping, TypeInv, TypeOK
  <2>4. CASE ValidArgs(a) /\ slot' = [slot EXCEPT ![i] = fd] /\ rval' = 0
    <3>1. /\ Entry(i)' = [orig |-> dev[fd], curr |-> dev[fd], nxt |-> nxt'[i]]
          /\ nxt'[i] \in TermiosType
      BY <2>2 DEF Entry, Stepping, TypeInv, TypeOK
    <3>2. fd \notin DOMAIN Port
      BY DEF Port
    <3>3. /\ DOMAIN Port' = DOMAIN Port \cup {fd}
          /\ Port' = [x \in DOMAIN Port \cup {fd} |-> IF x = fd THEN Entry(i)' ELSE Port[x]]
      BY <2>1, <2>2, <2>3, <2>4, <3>2, EntryJoins DEF Stepping
    <3>4. Abs!Room(fd)
      <4>1. Cardinality(DOMAIN Port) < MAX_TERMS
        BY <2>1, FreeIsRoom DEF Stepping
      <4>2. Abs!Cardinality(DOMAIN Port) = Cardinality(DOMAIN Port)
        BY DEF Abs!Cardinality, Cardinality
      <4>3. init
        BY <2>2
      <4> QED
        BY <3>2, <4>1, <4>2, <4>3 DEF Abs!Room, Abs!Managed
    <3>5. fd \in DOMAIN Port' /\ Port'[fd] = Entry(i)'
      BY <3>3
    <3>6. Port'[fd].nxt = nxt'[i]
      BY <3>1, <3>5
    <3>7. [Abs!Fresh(fd) EXCEPT !.nxt = nxt'[i]] = Entry(i)'
      BY <3>1 DEF Abs!Fresh
    <3>8. Port' = Abs!Holding(fd, [Abs!Fresh(fd) EXCEPT !.nxt = Port'[fd].nxt])
      BY <3>3, <3>6, <3>7 DEF Abs!Holding, Abs!Managed
    <3>9. Abs!AddPlanned(fd)
      BY <2>2, <3>1, <3>4, <3>5, <3>6, <3>8 DEF Abs!AddPlanned, Abs!Managed
    <3> QED
      BY <2>4, <3>9, AbsDone DEF Stepping
  <2>5. CASE /\ ~ValidArgs(a) /\ rval' = -1
             /\ slot' = [slot EXCEPT ![i] = fd, ![FreedFor(i)] = Free]
    <3>1. slot[0] = Free /\ 0 \in Slots
      BY <2>5, TermAssumption DEF MaySet, Slots
    <3>2. i = 0
      <4>1. SlotsOf(Free) \in SUBSET Slots /\ 0 \in SlotsOf(Free)
        BY <3>1 DEF SlotsOf
      <4>2. i <= 0
        BY <2>1, <4>1, LowestSlot
      <4> QED
        BY <4>2, TermAssumption DEF Slots
    <3>3. slot' = slot
      BY <2>5, <3>1, <3>2 DEF FreedFor, Stepping, TypeInv, TypeOK
    <3>4. \A j \in Slots : InUse(j) => Entry(j)' = Entry(j)
      BY <2>1, <2>3 DEF InUse
    <3>5. Port' = Port
      BY <3>3, <3>4, PortStays DEF Stepping
    <3>6. dev' = [dev EXCEPT ![fd] = dev'[fd]]
      BY <2>2 DEF Stepping, TypeInv, TypeOK
    <3> QED
      BY <2>5, <3>5, <3>6, AbsFailed DEF Stepping
  <2> QED
    BY <1>2, <2>1, <2>4, <2>5 DEF term_set, Succeed, Fail
<1> QED
  BY <1>1, <1>2

(* A setter of next settings, and term_set() of a managed descriptor.      *)
LEMMA AbsPlanned ==
  ASSUME Stepping, NEW fd \in FD, Managed(fd), rval' = 0,
         NEW t, nxt' = [nxt EXCEPT ![Find(fd)] = t],
         UNCHANGED <<init, exited, slot, orig, curr, dev>>
  PROVE  Abs!AbsNext
<1>1. Abs!Plan(fd)
  BY AbsPlan DEF Stepping
<1> QED
  BY <1>1, AbsDone DEF Stepping

LEMMA AbsSet ==
  ASSUME Stepping, NEW fd \in FD, NEW a \in SetArgs, MaySet(fd, a), Strict,
         term_set(fd, a), UNCHANGED <<init, exited>>
  PROVE  Abs!AbsNext
<1>1. CASE ~Managed(fd)
  BY <1>1, AbsSetNew
<1>2. CASE Managed(fd) /\ ValidArgs(a)
  <2>1. /\ nxt' = [nxt EXCEPT ![Find(fd)] = SetAll(nxt[Find(fd)], a)] /\ rval' = 0
        /\ UNCHANGED <<slot, orig, curr, dev>>
    BY <1>2 DEF term_set, Succeed
  <2> QED
    BY <1>2, <2>1, AbsPlanned
<1>3. CASE Managed(fd) /\ ~ValidArgs(a)
  <2>1. rval' = -1 /\ UNCHANGED <<slot, orig, curr, nxt, dev>>
    BY <1>3, FindSlot DEF term_set, Fail, Stepping, TypeInv, TypeOK
  <2> QED
    BY <2>1, AbsRefused DEF table
<1> QED
  BY <1>1, <1>2, <1>3

(* The flow control is switched off and on again around the flush.         *)
LEMMA AbsFakeFlush ==
  ASSUME Stepping, Settled, NEW fd \in FD, term_fake_flush(fd), UNCHANGED <<init, exited>>
  PROVE  Abs!AbsNext
<1>1. CASE UNCHANGED <<table, dev>> /\ rval' = -1
  BY <1>1, AbsRefused
<1>2. CASE Managed(fd) /\ ~(UNCHANGED <<table, dev>> /\ rval' = -1)
  <2>1. PICK i \in Slots : /\ i = Find(fd) /\ slot[i] = fd /\ InUse(i)
    BY <1>2, ItsSlot
  <2>2. curr' = [curr EXCEPT ![i] = dev[fd]] /\ UNCHANGED <<slot, orig, nxt>>
    BY <1>2, <2>1 DEF term_fake_flush, Unmanaged, Refused, Fail, Succeed, table
  <2>3. \A j \in Slots : j # i => Entry(j)' = Entry(j)
    BY <2>2 DEF Entry, Stepping, TypeInv, TypeOK
  <2>4. Entry(i)' = [orig |-> orig[i], curr |-> dev[fd], nxt |-> nxt[i]] /\ curr'[i] = dev[fd]
    BY <2>2 DEF Entry, Stepping, TypeInv, TypeOK
  <2>5. fd \in DOMAIN Port /\ Port[fd] = Entry(i) /\ Port' = [Port EXCEPT ![fd] = Entry(i)']
    BY <2>1, <2>2, <2>3, AbsMoves
  <2>6. [Port[fd] EXCEPT !.curr = dev[fd]] = Entry(i)'
    BY <2>4, <2>5 DEF Entry
  <2>7. CASE rval' = 0 /\ dev' = [dev EXCEPT ![fd] = Adopt[curr'[i]]]
    <3>1. dev' = dev
      BY <2>4, <2>7 DEF Settled, Stepping, TypeInv, TypeOK
    <3>2. Abs!Refresh(fd)
      BY <2>5, <2>6, <3>1 DEF Abs!Refresh, Abs!Managed
    <3> QED
      BY <2>7, <3>2, AbsDone DEF Stepping
  <2>8. CASE rval' = -1 /\ dev' = [dev EXCEPT ![fd] = dev'[fd]]
    <3>1. Port' = [Port EXCEPT ![fd] = [@ EXCEPT !.curr = dev[fd]]]
      BY <2>5, <2>6
    <3> QED
      BY <2>5, <2>8, <3>1, AbsFailedAt DEF Stepping
  <2>9. \/ rval' = 0 /\ dev' = [dev EXCEPT ![fd] = Adopt[curr'[i]]]
        \/ rval' = -1 /\ dev' = [dev EXCEPT ![fd] = dev'[fd]]
    <3>1. dev' = dev => dev' = [dev EXCEPT ![fd] = dev'[fd]]
      BY DEF Stepping, TypeInv, TypeOK
    <3>2. \A t : dev' = [dev EXCEPT ![fd] = t] => dev' = [dev EXCEPT ![fd] = dev'[fd]]
      BY DEF Stepping, TypeInv, TypeOK
    <3> QED
      BY <1>2, <2>1, <3>1, <3>2
      DEF term_fake_flush, Unmanaged, Refused, Fail, Succeed, table
  <2> QED
    BY <2>7, <2>8, <2>9
<1> QED
  BY <1>1, <1>2 DEF term_fake_flush, Unmanaged, Fail

(* Every step of the library is a step of the map.                         *)
LEMMA AbsStep ==
  ASSUME TypeInv, TypeInv', UniqueFds, UniqueFds', Settled, Strict, [Next]_vars
  PROVE  [Abs!AbsNext]_(Abs!vars)
<1>1. CASE UNCHANGED vars
  <2>1. Port' = Port
    BY <1>1 DEF vars, Port, Managed, Find, SlotsOf
  <2> QED
    BY <1>1, <2>1 DEF vars, Abs!vars
<1>2. CASE Next
  <2>1. Stepping
    BY <1>2, PortIs, PortIsNext DEF Next, Stepping
  <2>2. ASSUME NEW fd \in FD, Call(fd), UNCHANGED <<init, exited>>
        PROVE  Abs!AbsNext
    <3> USE <2>1
    <3>1. CASE Unmanaged(fd) \/ Refused
      BY <2>2, <3>1, AbsRefused DEF Unmanaged, Refused, Fail
    <3>2. CASE term_add(fd)
      BY <2>2, <3>2, AbsAdd
    <3>3. CASE term_remove(fd)
      <4>1. CASE Managed(fd)
        BY <2>2, <3>3, <4>1, AbsErase DEF term_remove, Unmanaged, Succeed, Fail
      <4> QED
        BY <3>1, <3>3, <4>1 DEF term_remove
    <3>4. CASE term_erase(fd)
      <4>1. CASE Managed(fd)
        BY <2>2, <3>4, <4>1, AbsErase DEF term_erase, Unmanaged, Succeed
      <4> QED
        BY <3>1, <3>4, <4>1 DEF term_erase
    <3>5. ASSUME NEW newfd \in FD, MayReplace(newfd), term_replace(fd, newfd)
          PROVE  Abs!AbsNext
      BY <2>2, <3>5, AbsReplace DEF MayReplace
    <3>6. CASE term_reset(fd)
      BY <2>2, <3>6, AbsReset
    <3>7. CASE term_revert(fd)
      <4>1. CASE Managed(fd) /\ ~Unmanaged(fd)
        BY <2>2, <3>7, <4>1, AbsPlanned DEF term_revert, Succeed
      <4> QED
        BY <3>1, <3>7, <4>1 DEF term_revert
    <3>8. CASE term_refresh(fd)
      BY <2>2, <3>8, AbsRefresh
    <3>9. CASE term_apply(fd)
      BY <2>2, <3>9, AbsApply
    <3>10. ASSUME NEW a \in SetArgs, term_set_one(fd, a)
           PROVE  Abs!AbsNext
      <4>1. CASE Managed(fd) /\ ~Unmanaged(fd) /\ ~Refused
        <5>1. PICK t : nxt' = [nxt EXCEPT ![Find(fd)] = t]
          BY <3>10, <4>1 DEF term_set_one
        <5>2. rval' = 0 /\ UNCHANGED <<slot, orig, curr, dev>>
          BY <3>10, <4>1 DEF term_set_one, Succeed
        <5> QED
          BY <2>2, <4>1, <5>1, <5>2, AbsPlanned
      <4> QED
        BY <3>1, <3>10, <4>1 DEF term_set_one
    <3>11. ASSUME NEW a \in SetArgs, MaySet(fd, a), term_set(fd, a)
           PROVE  Abs!AbsNext
      BY <2>2, <3>11, AbsSet
    <3>12. CASE term_fake_flush(fd)
      BY <2>2, <3>12, AbsFakeFlush
    <3>13. CASE term_device_call(fd)
      <4>1. CASE Managed(fd) /\ rval' = 0 /\ UNCHANGED <<table, dev>>
        <5>1. Port' = Port
          BY <2>2, <4>1 DEF table, Port, Managed, Find, SlotsOf
        <5>2. Abs!Done(Abs!Inert)
          BY <2>2, <4>1, <5>1 DEF Abs!Done, Abs!Inert, Managed
        <5> QED
          BY <5>2 DEF Abs!AbsNext, Stepping
      <4> QED
        BY <3>1, <3>13, <4>1 DEF term_device_call, Succeed
    <3> QED
      BY <2>2, <3>2, <3>3, <3>4, <3>5, <3>6, <3>7, <3>8, <3>9, <3>10, <3>11, <3>12, <3>13 DEF Call
  <2>3. ASSUME NEW fd \in FD, OutsideChange(fd)
        PROVE  Abs!AbsNext
    <3>1. Port' = Port
      BY <2>3 DEF OutsideChange, table, Port, Managed, Find, SlotsOf
    <3>2. dev' = [dev EXCEPT ![fd] = dev'[fd]] /\ dev'[fd] \in TermiosType
      BY <2>3 DEF OutsideChange, TypeInv, TypeOK
    <3>3. Abs!Outside
      BY <2>3, <3>1, <3>2 DEF OutsideChange, Abs!Outside, Abs!OneDevice
    <3> QED
      BY <2>1, <3>3 DEF Abs!AbsNext, Stepping
  <2> QED
    BY <1>2, <2>1, <2>2, <2>3, AbsStart, AbsExit DEF Next
<1> QED
  BY <1>1, <1>2

(* The table of slots, which frees, refills and searches them, behaves as  *)
(* a map from descriptors to settings: whatever ppcom calls, in whatever   *)
(* order, and whichever calls fail, no call reaches the entry of another   *)
(* descriptor and the slots cannot be told from outside.                   *)
THEOREM TableIsMap == ASSUME Strict PROVE Spec => ImplementsMap
<1>1. Init => Abs!AbsInit
  <2> SUFFICES ASSUME Init
               PROVE  Abs!AbsInit
    OBVIOUS
  <2>1. Port = [x \in {} |-> 0]
    BY DEF Init, Port, Managed
  <2>2. dev \in [FD -> TermiosType]
    BY TermAssumption DEF Init
  <2> QED
    BY <2>1, <2>2 DEF Init, Abs!AbsInit
<1>2. TypeInv /\ TypeInv' /\ UniqueFds /\ UniqueFds' /\ Settled /\ [Next]_vars
        => [Abs!AbsNext]_(Abs!vars)
  BY AbsStep
<1>3. Spec => []UniqueFds
  BY EachOnce
<1>4. Init => Settled
  BY TermAssumption DEF Init, Settled
<1> QED
  BY <1>1, <1>2, <1>3, <1>4, SettledStep, TypeCorrect, PTL
  DEF ImplementsMap, Abs!AbsSpec, Spec, TypeInv
==============================================================================
