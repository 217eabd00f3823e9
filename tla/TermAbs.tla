------------------------------- MODULE TermAbs -------------------------------
(***************************************************************************)
(* What the term library promises its client (ppcom/src/term.h), without   *)
(* the table of slots: a finite map from managed descriptors to their      *)
(* three settings structures, with room for MAX_TERMS of them.             *)
(***************************************************************************)
EXTENDS Integers, FiniteSets, Functions

CONSTANTS MAX_TERMS, FD, Settings, Adopt, Hangup(_, _)

VARIABLES init, port, dev, rval, exited

vars == <<init, port, dev, rval, exited>>

Managed == DOMAIN port
Fresh(fd) == [orig |-> dev[fd], curr |-> dev[fd], nxt |-> dev[fd]]
Holding(fd, p) == [x \in Managed \cup {fd} |-> IF x = fd THEN p ELSE port[x]]

AbsInit == /\ init = FALSE
           /\ port = [x \in {} |-> 0]
           /\ dev \in [FD -> Settings]
           /\ rval = 0
           /\ exited = FALSE

(* Forget all descriptors, resetting those devices that can be reset.      *)
DropAll == /\ port' = [x \in {} |-> 0]
           /\ \E S \in SUBSET Managed :
                dev' = [fd \in FD |-> IF fd \in S THEN Adopt[port[fd].orig] ELSE dev[fd]]

Start == init' = TRUE /\ DropAll /\ rval' = 0 /\ UNCHANGED exited
NotStarted == ~init /\ rval' = -1 /\ UNCHANGED <<init, port, dev, exited>>
Exit  == exited' = TRUE /\ DropAll /\ UNCHANGED <<init, rval>>

Room(fd) == init /\ fd \notin Managed /\ Cardinality(Managed) < MAX_TERMS

Add(fd) == Room(fd) /\ port' = Holding(fd, Fresh(fd)) /\ UNCHANGED dev

(* term_set() on a new descriptor: added with next settings of its own.    *)
AddPlanned(fd) ==
  /\ Room(fd) /\ fd \in Managed'
  /\ port'[fd].nxt \in Settings
  /\ port' = Holding(fd, [Fresh(fd) EXCEPT !.nxt = port'[fd].nxt])
  /\ UNCHANGED dev

Remove(fd) == /\ fd \in Managed
              /\ port' = Restrict(port, Managed \ {fd})
              /\ dev' \in {dev, [dev EXCEPT ![fd] = Adopt[port[fd].orig]]}

Replace(old, new) ==
  /\ old \in Managed /\ new \notin Managed
  /\ dev' = [dev EXCEPT ![new] = Adopt[port[old].curr]]
  /\ port' = [x \in (Managed \ {old}) \cup {new} |->
                IF x = new THEN [port[old] EXCEPT !.curr = dev'[new]] ELSE port[x]]

(* The next settings change in any way: the setters and term_revert().     *)
Plan(fd) == /\ fd \in Managed /\ fd \in Managed'
            /\ port'[fd].nxt \in Settings
            /\ port' = [port EXCEPT ![fd] = [@ EXCEPT !.nxt = port'[fd].nxt]]
            /\ UNCHANGED dev

Refresh(fd) == /\ fd \in Managed
               /\ port' = [port EXCEPT ![fd] = [@ EXCEPT !.curr = dev[fd]]]
               /\ UNCHANGED dev

Reset(fd) == /\ fd \in Managed
             /\ dev' = [dev EXCEPT ![fd] = Adopt[port[fd].orig]]
             /\ port' = [port EXCEPT ![fd] = [orig |-> @.orig, curr |-> dev'[fd], nxt |-> dev'[fd]]]

Apply(fd) == /\ fd \in Managed
             /\ dev' = [dev EXCEPT ![fd] = Adopt[port[fd].nxt]]
             /\ port' = [port EXCEPT ![fd] = [orig |-> Hangup(@.orig, dev'[fd]),
                                              curr |-> dev'[fd], nxt |-> dev'[fd]]]

(* At most one device has changed, in any way.                             *)
OneDevice == \E x \in FD : /\ dev'[x] \in Settings
                           /\ dev' = [dev EXCEPT ![x] = dev'[x]]

Done(A) == A /\ rval' = 0 /\ UNCHANGED <<init, exited>>

(* A call that fails manages no descriptor it did not manage before and    *)
(* keeps the settings of all of them; "current" may have been re-read, the *)
(* descriptor may be gone (term_remove), and one device may have changed.  *)
Failed(fd) ==
  /\ rval' = -1
  /\ \/ UNCHANGED port
     \/ fd \in Managed /\ port' = [port EXCEPT ![fd] = [@ EXCEPT !.curr = dev[fd]]]
     \/ fd \in Managed /\ port' = Restrict(port, Managed \ {fd})
  /\ OneDevice
  /\ UNCHANGED <<init, exited>>

(* A successful call that leaves everything as it is.                      *)
Inert == init /\ UNCHANGED <<port, dev>>

Outside == /\ OneDevice
           /\ UNCHANGED <<init, port, rval, exited>>

AbsNext ==
  /\ ~exited
  /\ \/ Start \/ NotStarted \/ Exit \/ Outside
     \/ Done(Inert)
     \/ \E fd \in FD :
          \/ Done(Add(fd)) \/ Done(AddPlanned(fd))
          \/ Done(Remove(fd))
          \/ \E new \in FD : Done(Replace(fd, new))
          \/ Done(Plan(fd)) \/ Done(Refresh(fd))
          \/ Done(Reset(fd)) \/ Done(Apply(fd))
          \/ Failed(fd)

AbsSpec == AbsInit /\ [][AbsNext]_vars
==============================================================================
