------------------------------- MODULE MCTerm -------------------------------
(***************************************************************************)
(* Instances for TLC of Term, the library, and of Commands, the settings   *)
(* of one port under the keys.  They share nothing: a behaviour is in one  *)
(* scene or the other.                                                     *)
(***************************************************************************)
EXTENDS Term, Commands

VARIABLE scene   \* library or keys

-----------------------------------------------------------------------------
(* A port left by its last user at 8N1, without hang-up on close.          *)
Cooked8N1 == SetHupcl([iflag |-> {}, cflag |-> {"CLOCAL"}, csize |-> 8,
                       speed |-> 9600, mode |-> "cooked"], FALSE)
MCOne == {Cooked8N1}

(* A device without RTS/CTS lines.                                         *)
MCNoRtscts == [t \in TermiosType |-> [t EXCEPT !.cflag = @ \ {"CRTSCTS"}]]

MCArg(h, f, p) == [raw |-> FALSE, baud |-> 9600, parity |-> p, bits |-> 8,
                   stop |-> 1, flow |-> f, local |-> TRUE, hupcl |-> h]

(* Arguments as parse_args() and the key commands produce them, one of     *)
(* them more than the device takes, and one that a setter refuses.         *)
MCArgs == {MCArg(TRUE, "FC_NONE", "P_NONE"), MCArg(FALSE, "FC_RTSCTS", "P_NONE"),
           MCArg(TRUE, "FC_NONE", "P_ERROR")}

(* A port at 7E1 with XON/XOFF and the lowest rate, and the options.       *)
MCDevices == {SetFlow(SetParity(SetDataBits(SetBaud(Cooked8N1, 50), 7), "P_EVEN"), "FC_XONXOFF")}
MCAsked == {[baud |-> 9600, parity |-> "P_NONE", bits |-> 8, stop |-> 1, flow |-> "FC_NONE"]}
MCWishes == {[DTR |-> "leave", RTS |-> "leave"], [DTR |-> "lower", RTS |-> "lower"],
             [DTR |-> "raise", RTS |-> "lower"]}

(* What a slot held before it was freed is overwritten before it is read   *)
(* again, so that states differing only there are explored once.           *)
MCView ==
  <<scene, kvars, init, slot, rval, exited, dev,
    [i \in Slots |-> IF InUse(i) THEN <<orig[i], curr[i], nxt[i], first[i]>> ELSE <<>>]>>

-----------------------------------------------------------------------------
BothInit == /\ Init /\ KeyInit
            /\ scene \in {"library", "keys"}
            /\ scene = "library" =>
                 refuses = {} /\ line = {} /\ told = {} /\ wish = [DTR |-> "leave", RTS |-> "leave"]

InLibrary == /\ scene = "library"
             /\ Next
             /\ UNCHANGED <<scene, kvars>>

OnKeys == /\ scene = "keys"
          /\ KeyNext
          /\ UNCHANGED <<scene, vars>>

BothSpec == BothInit /\ [][InLibrary \/ OnKeys]_<<scene, vars, kvars>>
=============================================================================
