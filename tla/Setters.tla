------------------------------- MODULE Setters -------------------------------
(***************************************************************************)
(* One nexttermios structure under the library's setters, started from     *)
(* every content a device could hand to tcgetattr(3).  The last call is    *)
(* kept in "call" so that the properties can speak of it.                  *)
(***************************************************************************)
EXTENDS Termios

VARIABLES tio, call

settervars == <<tio, call>>
-----------------------------------------------------------------------------
SetterInit == tio \in TermiosType /\ call = <<"none">>

Do(op, arg, t) == tio' = t /\ call' = <<op, arg>>

(* One call after another would only revisit the same values: every value  *)
(* is an initial state, so one call from each of them covers them all.     *)
SetOne == /\ call = <<"none">>
          /\ \/ Do("raw", TRUE, SetRaw(tio))
             \/ \E b \in Speed    : Do("baud", b, SetBaud(tio, b))
             \/ \E p \in Parity   : Do("parity", p, SetParity(tio, p))
             \/ \E n \in DataBits : Do("bits", n, SetDataBits(tio, n))
             \/ \E n \in StopBits : Do("stop", n, SetStopBits(tio, n))
             \/ \E f \in Flow     : Do("flow", f, SetFlow(tio, f))
             \/ \E on \in BOOLEAN : Do("local", on, SetLocal(tio, on))
             \/ \E on \in BOOLEAN : Do("hupcl", on, SetHupcl(tio, on))

SetterSpec == SetterInit /\ [][SetOne]_settervars
-----------------------------------------------------------------------------
(* After setter op its own getter returns the argument and no other one    *)
(* changes what it returns, whatever flags (mark/space parity, a half-set  *)
(* XON/XOFF, ...) the structure held before: parity and flow are spread    *)
(* over several flags in two words, and a flag a setter forgets to clear   *)
(* changes what is decoded only for some of the previous modes.            *)
SetsItsOwn(op, arg, t, u) ==
  \A f \in DOMAIN Report(t) : /\ op = f => Report(u)[f] = arg
                              /\ op # f /\ op # "raw" => Report(u)[f] = Report(t)[f]

(* The keys C-b, C-y, C-i, C-j and C-f, each of which calls one setter, may *)
(* be used in any order.                                                   *)
SetterSetsItsOwn == [][SetsItsOwn(call'[1], call'[2], tio, tio')]_settervars

(* Arguments as ppcom.cpp passes them: raw mode, every one valid, and a     *)
(* rate to talk at.                                                        *)
RawArgs == [raw : {TRUE}, baud : Speed \ {0}, parity : Parity, bits : DataBits,
            stop : StopBits, flow : Flow, local : BOOLEAN, hupcl : BOOLEAN]

(* term_set() makes the structure read back as all its arguments at once,  *)
(* whatever the port was set to before.  It holds only because raw mode,   *)
(* which forces 8 data bits, no parity and IXON off, is set first.         *)
SetAllReadsBack ==
  call = <<"none">> => \A a \in RawArgs : Report(SetAll(tio, a)) = a
=============================================================================
