---------------------------- MODULE TransferAbs ----------------------------
(***************************************************************************)
(* What a file transfer promises the rest of ppcom, and what Lifecycle     *)
(* takes it for: from one key to the next the user's terminal and the port *)
(* are ppcom's; a child puts the terminal back as it was found; only the   *)
(* program it becomes may set either; and when it has ended, in whatever   *)
(* way, ppcom makes the terminal raw again and leaves the port alone.      *)
(***************************************************************************)
CONSTANT
  Fallible    \* calls that may fail: setattr

VARIABLES
  stage,      \* loop, child, program or over: the child has ended
  terminal,   \* settings of the user's terminal: raw, found or other
  line        \* settings of the port: ppcom's or other

absvars == <<stage, terminal, line>>
-----------------------------------------------------------------------------
Init == stage = "loop" /\ terminal = "raw" /\ line = "ppcom"

Begin == /\ stage = "loop" /\ stage' = "child"
         /\ UNCHANGED <<terminal, line>>

PutBack == /\ stage = "child" /\ terminal' = "found"
           /\ UNCHANGED <<stage, line>>

Start == /\ stage = "child" /\ stage' = "program"
         /\ UNCHANGED <<terminal, line>>

Set == /\ stage = "program"
       /\ terminal' \in {terminal, "other"} /\ line' \in {line, "other"}
       /\ UNCHANGED stage

(* The program, or the child before it, exits or is killed.                *)
End == /\ stage \in {"child", "program"} /\ stage' = "over"
       /\ UNCHANGED <<terminal, line>>

BackToRaw == /\ stage = "over" /\ stage' = "loop"
             /\ terminal' = "raw" \/ ("setattr" \in Fallible /\ UNCHANGED terminal)
             /\ UNCHANGED line

Next == Begin \/ PutBack \/ Start \/ Set \/ End \/ BackToRaw

Spec == Init /\ [][Next]_absvars
=============================================================================
