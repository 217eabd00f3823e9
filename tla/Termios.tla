------------------------------- MODULE Termios -------------------------------
(***************************************************************************)
(* The "struct termios" values the term library (ppcom/src/term.cpp)       *)
(* keeps three of for every managed file descriptor, with the library's    *)
(* term_set_* functions as operators from one value to the next and its    *)
(* term_get_* functions as operators that decode a value.                  *)
(*                                                                         *)
(* A value holds the flags the library reads or writes.  The flags         *)
(* cfmakeraw(3) clears besides IXON, PARENB and CSIZE, and VMIN/VTIME, are *)
(* the one field "mode"; the input speed is always "same as the output      *)
(* speed" (cfsetispeed(B0)), so one field "speed" stands for both.         *)
(***************************************************************************)
EXTENDS Integers

CONSTANT Speed        \* the baud rates term_baud_ok() accepts

\* B0 ("hang up") is an entry of baud_table.
ASSUME SpeedAssumption == Speed \subseteq Nat /\ 0 \in Speed

IFlag == {"IXON", "IXOFF", "IXANY"}
CFlag == {"PARENB", "PARODD", "CMSPAR", "CSTOPB", "CRTSCTS", "CLOCAL", "HUPCL"}

TermiosType == [iflag : SUBSET IFlag, cflag : SUBSET CFlag,
                csize : 5..8, speed : Speed, mode : {"cooked", "raw"}]

Parity   == {"P_NONE", "P_EVEN", "P_ODD", "P_MARK", "P_SPACE"}
Flow     == {"FC_NONE", "FC_RTSCTS", "FC_XONXOFF"}
DataBits == 5..8
StopBits == 1..2

-----------------------------------------------------------------------------
(* Modifying a flag word: raise the flags in "on", clear those in "off".   *)
Flags(word, on, off) == (word \ off) \cup on

(* cfmakeraw(3) on nexttermios: IXON goes, IXOFF and IXANY stay.           *)
SetRaw(t) == [t EXCEPT !.mode = "raw", !.csize = 8,
                       !.iflag = Flags(@, {}, {"IXON"}),
                       !.cflag = Flags(@, {}, {"PARENB"})]

SetBaud(t, b) == [t EXCEPT !.speed = b]

SetParity(t, p) ==
  [t EXCEPT !.cflag =
     CASE p = "P_EVEN"  -> Flags(@, {"PARENB"}, {"PARODD", "CMSPAR"})
       [] p = "P_ODD"   -> Flags(@, {"PARENB", "PARODD"}, {"CMSPAR"})
       [] p = "P_MARK"  -> Flags(@, {"PARENB", "PARODD", "CMSPAR"}, {})
       [] p = "P_SPACE" -> Flags(@, {"PARENB", "CMSPAR"}, {"PARODD"})
       [] p = "P_NONE"  -> Flags(@, {}, {"PARENB", "PARODD", "CMSPAR"})]

(* Faulty variant: the CSIZE field's code instead of the number of bits.   *)
SetDataBitsCode(t, n) == [t EXCEPT !.csize = n - 5]

SetDataBits(t, n) == [t EXCEPT !.csize = n]

SetStopBits(t, n) ==
  [t EXCEPT !.cflag = IF n = 2 THEN Flags(@, {"CSTOPB"}, {})
                               ELSE Flags(@, {}, {"CSTOPB"})]

(* Faulty variant: XON/XOFF leaves hardware flow control on.               *)
SetFlowBoth(t, f) ==
  [t EXCEPT !.cflag = IF f = "FC_RTSCTS" THEN Flags(@, {"CRTSCTS"}, {})
                      ELSE IF f = "FC_NONE" THEN Flags(@, {}, {"CRTSCTS"}) ELSE @,
            !.iflag = IF f = "FC_XONXOFF" THEN Flags(@, {"IXON", "IXOFF"}, {})
                      ELSE Flags(@, {}, IFlag)]

SetFlow(t, f) ==
  CASE f = "FC_RTSCTS"  -> [t EXCEPT !.cflag = Flags(@, {"CRTSCTS"}, {}),
                                     !.iflag = Flags(@, {}, IFlag)]
    [] f = "FC_XONXOFF" -> [t EXCEPT !.cflag = Flags(@, {}, {"CRTSCTS"}),
                                     !.iflag = Flags(@, {"IXON", "IXOFF"}, {})]
    [] f = "FC_NONE"    -> [t EXCEPT !.cflag = Flags(@, {}, {"CRTSCTS"}),
                                     !.iflag = Flags(@, {}, IFlag)]

(* Faulty variant: the flag word is assigned, not modified.                *)
SetLocalWord(t, on) == [t EXCEPT !.cflag = IF on THEN {"CLOCAL"} ELSE {}]

SetLocal(t, on) ==
  [t EXCEPT !.cflag = IF on THEN Flags(@, {"CLOCAL"}, {})
                            ELSE Flags(@, {}, {"CLOCAL"})]

SetHupcl(t, on) ==
  [t EXCEPT !.cflag = IF on THEN Flags(@, {"HUPCL"}, {})
                            ELSE Flags(@, {}, {"HUPCL"})]

-----------------------------------------------------------------------------
GetParity(t) ==
  CASE "PARENB" \notin t.cflag -> "P_NONE"
    [] {"PARENB", "CMSPAR"} \subseteq t.cflag ->
         IF "PARODD" \in t.cflag THEN "P_MARK" ELSE "P_SPACE"
    [] OTHER -> IF "PARODD" \in t.cflag THEN "P_ODD" ELSE "P_EVEN"

GetStopBits(t) == IF "CSTOPB" \in t.cflag THEN 2 ELSE 1

GetFlow(t) ==
  LET rtscts == "CRTSCTS" \in t.cflag
      xoff   == "IXOFF" \in t.iflag
      xon    == t.iflag \cap {"IXON", "IXANY"} # {}
  IN  CASE rtscts /\ ~xoff /\ ~xon  -> "FC_RTSCTS"
        [] ~rtscts /\ xoff /\ xon   -> "FC_XONXOFF"
        [] ~rtscts /\ ~xoff /\ ~xon -> "FC_NONE"
        [] OTHER                    -> "FC_OTHER"

Hupcl(t) == "HUPCL" \in t.cflag
Local(t) == "CLOCAL" \in t.cflag

(* What the getters report of a value, one entry per setter.               *)
Report(t) == [raw |-> t.mode = "raw", baud |-> t.speed, parity |-> GetParity(t),
              bits |-> t.csize, stop |-> GetStopBits(t), flow |-> GetFlow(t),
              local |-> Local(t), hupcl |-> Hupcl(t)]

-----------------------------------------------------------------------------
(* The arguments of term_set().  An argument record may hold a value no    *)
(* setter accepts ("P_ERROR", 9 data bits, ...); ValidArgs says when every *)
(* one of the eight setters term_set() calls succeeds.                     *)
ValidArgs(a) == /\ a.baud \in Speed
                /\ a.parity \in Parity
                /\ a.bits \in DataBits
                /\ a.stop \in StopBits
                /\ a.flow \in Flow

(* One of the setters, with the argument the record has for it; a setter  *)
(* refuses an argument it does not know and leaves the structure alone.    *)
OneSetting(t, a) ==
  {SetLocal(t, a.local), SetHupcl(t, a.hupcl)}
  \cup (IF a.raw                THEN {SetRaw(t)}              ELSE {})
  \cup (IF a.baud \in Speed    THEN {SetBaud(t, a.baud)}     ELSE {})
  \cup (IF a.parity \in Parity THEN {SetParity(t, a.parity)} ELSE {})
  \cup (IF a.bits \in DataBits THEN {SetDataBits(t, a.bits)} ELSE {})
  \cup (IF a.stop \in StopBits THEN {SetStopBits(t, a.stop)} ELSE {})
  \cup (IF a.flow \in Flow     THEN {SetFlow(t, a.flow)}     ELSE {})

(* Faulty variant: raw mode set after the character format.                *)
SetAllRawLast(t, a) ==
  LET t1 == SetDataBits(SetParity(SetBaud(t, a.baud), a.parity), a.bits)
      t2 == SetFlow(SetStopBits(t1, a.stop), a.flow)
      t3 == SetHupcl(SetLocal(t2, a.local), a.hupcl)
  IN  IF a.raw THEN SetRaw(t3) ELSE t3

(* term_set() calls the setters in this order, raw mode first because      *)
(* cfmakeraw() also forces 8N and clears IXON, and stops at the first that *)
(* refuses its argument.                                                   *)
SetAll(t, a) ==
  LET t0 == IF a.raw THEN SetRaw(t) ELSE t
      t1 == SetBaud(t0, a.baud)
      t2 == SetParity(t1, a.parity)
      t3 == SetDataBits(t2, a.bits)
      t4 == SetStopBits(t3, a.stop)
      t5 == SetFlow(t4, a.flow)
  IN  IF a.baud \notin Speed    THEN t0
      ELSE IF a.parity \notin Parity THEN t1
      ELSE IF a.bits \notin DataBits THEN t2
      ELSE IF a.stop \notin StopBits THEN t3
      ELSE IF a.flow \notin Flow     THEN t4
      ELSE SetHupcl(SetLocal(t5, a.local), a.hupcl)
=============================================================================
