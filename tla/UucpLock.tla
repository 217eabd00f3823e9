------------------------------ MODULE UucpLock ------------------------------
(***************************************************************************)
(* The lock file of a port (ppcom/src/ppcom.cpp, with UUCP_LOCK_DIR): any  *)
(* number of ppcom processes that want the same port, each of which makes  *)
(* its lock in steps - read the file, wait and remove a stale one, create  *)
(* it anew, write its number into it - and may be killed between any two.  *)
(* The file is known by the process that created it, since a process that  *)
(* has it open writes into what it created and not into a later file.      *)
(*                                                                         *)
(* A process number is not used again while the file with it is there.     *)
(***************************************************************************)
EXTENDS Integers

CONSTANTS Proc, \* the processes, each started once
          Old   \* the process number a file may hold when the first starts

ASSUME LockAssumption == Old \notin Proc

NoFile == [by |-> Old, full |-> FALSE, there |-> FALSE]
FileType == [by : Proc \cup {Old}, full : BOOLEAN, there : BOOLEAN]

VARIABLES
  file,     \* who created the file, and whether its number is in it
  pc,       \* off read stale create write using refused leaving gone
  named,    \* lockname[0] # '\0'
  overlap,  \* history: see Read and Create
  torn      \* history: a process was killed before it wrote its number

vars == <<file, pc, named, overlap, torn>>

Live(p) == p \in Proc /\ pc[p] \notin {"off", "gone"}
Holds(p) == named[p] /\ pc[p] \in {"write", "using"}

-----------------------------------------------------------------------------
Init == /\ file \in {NoFile, [by |-> Old, full |-> TRUE, there |-> TRUE]}
        /\ pc = [p \in Proc |-> "off"]
        /\ named = [p \in Proc |-> FALSE]
        /\ overlap = FALSE /\ torn = FALSE

Go(p, next) == pc' = [pc EXCEPT ![p] = next]

(* uucp_lockname(), unless --nolock is given; without the lock directory   *)
(* there is no name, and nothing is locked.                                *)
Start(p) ==
  /\ pc[p] = "off"
  /\ \/ named' = [named EXCEPT ![p] = TRUE] /\ Go(p, "read")
     \/ Go(p, "using") /\ UNCHANGED named
  /\ UNCHANGED <<file, overlap, torn>>

(* Faulty variant: the name is kept, cleanup() will unlink the file.       *)
ForgetsNothing(p) == UNCHANGED named

(* uucp_lock() fails, which is fatal: the name is cleared, so that         *)
(* cleanup() does not remove the other's file.                             *)
Forgets(p) == named' = [named EXCEPT ![p] = FALSE]

Refuse(p) == Forgets(p) /\ Go(p, "refused")

(* Faulty variant: any failure of kill(2) is taken for a live process.     *)
AnswersAnyway(q) == q \in Proc

(* kill(q, 0) does not fail with ESRCH.                                    *)
Answers(q) == Live(q)

(* What is read: no file; a number that is, or is not, that of a live      *)
(* process; or nothing, which leaves the buffer as it was, so that the     *)
(* number is whatever was there.                                           *)
Read(p) ==
  /\ pc[p] = "read"
  /\ \/ ~file.there /\ Go(p, "create") /\ UNCHANGED <<named, overlap>>
     \/ /\ file.there /\ (file.full => ~Answers(file.by))
        /\ overlap' = (overlap \/ Live(file.by))
        /\ Go(p, "stale")
        /\ UNCHANGED named
     \/ /\ file.there /\ (file.full => Answers(file.by))
        /\ Refuse(p)
        /\ UNCHANGED overlap
  /\ UNCHANGED <<file, torn>>

(* A second after it was found stale, whatever is there then.              *)
Remove(p) == /\ pc[p] = "stale"
             /\ file' = NoFile
             /\ Go(p, "create")
             /\ UNCHANGED <<named, overlap, torn>>

(* O_CREAT|O_EXCL.  Another that is about to remove the stale file will    *)
(* remove this one.                                                        *)
Create(p) ==
  /\ pc[p] = "create"
  /\ \/ /\ ~file.there
        /\ file' = [by |-> p, full |-> FALSE, there |-> TRUE]
        /\ overlap' = (overlap \/ \E q \in Proc : pc[q] = "stale")
        /\ Go(p, "write")
        /\ UNCHANGED named
     \/ file.there /\ Refuse(p) /\ UNCHANGED <<file, overlap>>
  /\ UNCHANGED torn

(* Nobody looks whether the number could be written.                       *)
Write(p) ==
  /\ pc[p] = "write"
  /\ \/ /\ file' = IF file.by = p THEN [file EXCEPT !.full = TRUE] ELSE file
        /\ UNCHANGED torn
     \/ UNCHANGED file /\ torn' = TRUE
  /\ Go(p, "using")
  /\ UNCHANGED <<named, overlap>>

(* cleanup(), at the end or after a fatal error: uucp_unlock() unlinks the *)
(* file that has the name, whoever made it.                                *)
Leave(p) == /\ pc[p] \in {"using", "refused"}
            /\ file' = IF named[p] THEN NoFile ELSE file
            /\ Go(p, "leaving")
            /\ UNCHANGED <<named, overlap, torn>>

(* The exit handler, which still restores the port, runs without the lock. *)
Exit(p) == /\ pc[p] = "leaving"
           /\ Go(p, "gone")
           /\ UNCHANGED <<file, named, overlap, torn>>

Killed(p) == /\ Live(p)
             /\ Go(p, "gone")
             /\ torn' = (torn \/ pc[p] = "write")
             /\ UNCHANGED <<file, named, overlap>>

Next == \E p \in Proc : \/ Start(p) \/ Read(p) \/ Remove(p) \/ Create(p)
                        \/ Write(p) \/ Leave(p) \/ Exit(p) \/ Killed(p)

Spec == Init /\ [][Next]_vars
-----------------------------------------------------------------------------
(* At most one ppcom has the lock, from its file on until its cleanup(),   *)
(* whoever starts, leaves or is killed in between - but for two races: a   *)
(* second process has found the same stale file and removes the first's    *)
(* new one, or a process has read a file that its maker had created and    *)
(* not yet written, and taken what the buffer held for a dead process.     *)
OneHolder == ~overlap => \A p, q \in Proc : Holds(p) /\ Holds(q) => p = q

(* The lock a ppcom that was killed left behind does not keep a later one  *)
(* from the port, when nobody else is there, unless it was killed between  *)
(* creating the file and writing its number, or could not write it: an     *)
(* empty file may be refused for ever.                                     *)
LeftLockIsTaken ==
  [][\A p \in Proc :
       pc[p] = "read" /\ pc'[p] = "refused" /\ (\A q \in Proc \ {p} : ~Live(q)) => torn]_vars
=============================================================================
