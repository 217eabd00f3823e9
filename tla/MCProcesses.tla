----------------------------- MODULE MCProcesses -----------------------------
(***************************************************************************)
(* Instances for TLC of the three modules with processes: UucpLock, those  *)
(* that want one port, RunCmd, ppcom and its child, and FfwdSrv, the       *)
(* stand-alone server with its clients.  They share nothing: a behaviour   *)
(* is in one of three scenes.                                              *)
(***************************************************************************)
EXTENDS UucpLock, RunCmd, FfwdSrv

VARIABLE scene   \* lock, command or server

allvars == <<scene, vars, runvars, srvvars>>
-----------------------------------------------------------------------------
AllInit == /\ scene \in {"lock", "command", "server"}
           /\ Init /\ RunInit /\ SrvInit
           /\ scene # "lock" => file = NoFile

InLock    == scene = "lock" /\ Next /\ UNCHANGED <<scene, runvars, srvvars>>
InCommand == scene = "command" /\ RunNext /\ UNCHANGED <<scene, vars, srvvars>>
InServer  == scene = "server" /\ SrvNext /\ UNCHANGED <<scene, vars, runvars>>

(* The fairness of RunCmd.                                                 *)
ParentRuns == scene = "command" /\ Parent /\ UNCHANGED <<scene, vars, srvvars>>
ChildRuns  == scene = "command" /\ ChildStep /\ UNCHANGED <<scene, vars, srvvars>>

AllSpec == /\ AllInit
           /\ [][InLock \/ InCommand \/ InServer]_allvars
           /\ WF_allvars(ParentRuns) /\ WF_allvars(ChildRuns)

(* Once the server has ended nothing of it matters.                        *)
MCView == IF where \in {"ended", "aborted"} THEN <<where>> ELSE allvars
=============================================================================
