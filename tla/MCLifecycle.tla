---------------------------- MODULE MCLifecycle ----------------------------
(* Instances of Lifecycle for TLC.                                         *)
EXTENDS Lifecycle

(* A line in canonical mode at 8N1, with hang-up on close or without.      *)
Line(h, f) == SetFlow(SetHupcl([iflag |-> {}, cflag |-> {}, csize |-> 8, speed |-> 9600,
                                mode |-> "cooked"], h), f)
MCDevices == {Line(h, f) : h \in BOOLEAN, f \in {"FC_NONE", "FC_XONXOFF"}}
MCLines   == {Line(FALSE, "FC_NONE"), Line(TRUE, "FC_XONXOFF")}
MCAdoptAll == [t \in TermiosType |-> t]

MCConfig == [raw |-> TRUE, baud |-> 9600, parity |-> "P_NONE", bits |-> 8, stop |-> 1,
             flow |-> "FC_NONE", local |-> TRUE, hupcl |-> TRUE]
MCArgs == {[MCConfig EXCEPT !.hupcl = h, !.flow = f, !.baud = b] :
             h \in BOOLEAN, f \in Flow, b \in {0, 9600}}

MCOpt(n, r, h, e, f) == [noinit |-> n, noreset |-> r, hangup |-> h, exit |-> e, flow |-> f]
MCOptions == {MCOpt(FALSE, r, h, FALSE, "FC_NONE") : r, h \in BOOLEAN}
               \cup {MCOpt(TRUE, r, ~r, FALSE, "FC_NONE") : r \in BOOLEAN}
               \cup {MCOpt(FALSE, r, FALSE, ~r, "FC_XONXOFF") : r \in BOOLEAN}
MCFlowOptions == {MCOpt(n, r, TRUE, FALSE, f) : n, r \in BOOLEAN, f \in {"FC_NONE", "FC_RTSCTS"}}
=============================================================================
