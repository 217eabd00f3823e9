------------------------------ MODULE MCTermios ------------------------------
(***************************************************************************)
(* The pure parts of ppcom in one instance: a nexttermios structure under  *)
(* the library's setters (Setters) and, from one of its contents, the      *)
(* character mapping, the splitting of a command and the options.          *)
(***************************************************************************)
EXTENDS Setters, CharMap, SplitQuoted, Options

allvars == <<vars, settervars, splitvars, optvars>>

AllInit == SetterInit /\ Init /\ SplitInit /\ OptInit

Setter == SetOne /\ UNCHANGED <<vars, splitvars, optvars>>

(* The other parts do not look at the structure.                           *)
Cooked == [iflag |-> {}, cflag |-> {}, csize |-> 8, speed |-> 0, mode |-> "cooked"]

Other(part) == /\ tio = Cooked /\ call[1] \in {"none", part}
               /\ call' = <<part>> /\ UNCHANGED tio

MapStep   == Other("map") /\ Next /\ UNCHANGED <<splitvars, optvars>>
SplitStep == Other("split") /\ SplitNext /\ UNCHANGED <<vars, optvars>>
ParseStep == Other("parse") /\ OptNext /\ UNCHANGED <<vars, splitvars>>

AllSpec == AllInit /\ [][Setter \/ MapStep \/ SplitStep \/ ParseStep]_allvars
==============================================================================
