-------------------------------- MODULE Term --------------------------------
(***************************************************************************)
(* The terminal management library of ppcom (ppcom/src/term.cpp, term.h):  *)
(* a table of MAX_TERMS slots, each with a managed file descriptor and the *)
(* original, current and next settings of its device.  One action is one   *)
(* call of a library function; "rval" is what the call returned (0 or -1). *)
(* The device behind a descriptor is environment: "dev" is what tcgetattr  *)
(* would report of it.                                                     *)
(***************************************************************************)
EXTENDS Termios, FiniteSets

CONSTANTS
  MAX_TERMS,   \* number of slots (16 in term.h)
  FD,          \* the descriptors the client may pass
  Ttys,        \* those for which isatty(3) is true
  DevSettings, \* settings a device may have before it is first touched
  Adopt,       \* Adopt[t]: what a device takes over of settings t
  SetArgs,     \* the argument records term_set() is called with
  Fallible,    \* device calls that may fail: "getattr", "setattr", ...
  OthersSet,   \* TRUE: other programs may change a device's settings
  Strict       \* TRUE: the client calls as ppcom.cpp does (see MaySet)

DeviceCalls == {"getattr", "setattr", "flush", "drain", "mctl", "atexit"}

ASSUME TermAssumption ==
  /\ MAX_TERMS \in Nat \ {0}
  /\ FD \subseteq Nat
  /\ Ttys \subseteq FD
  /\ DevSettings \subseteq TermiosType
  /\ Adopt \in [TermiosType -> TermiosType]
  /\ \A t \in TermiosType : Adopt[Adopt[t]] = Adopt[t]
  /\ \A t \in TermiosType : Hupcl(Adopt[t]) = Hupcl(t)
  /\ \A t \in DevSettings : Adopt[t] = t
  /\ Fallible \subseteq DeviceCalls
  /\ OthersSet \in BOOLEAN
  /\ Strict \in BOOLEAN

Slots == 0 .. MAX_TERMS - 1
Free == -1            \* term.fd[i] of an unused slot

VARIABLES
  init,      \* term.init
  slot,      \* term.fd: the descriptor in every slot
  orig,      \* term.origtermios
  curr,      \* term.currtermios
  nxt,       \* term.nexttermios
  rval,      \* the value the last library call returned
  exited,    \* exit(3) has run the library's atexit handler
  dev,       \* the settings each device has
  first      \* history: settings of the slot's device when it was added

table == <<slot, orig, curr, nxt>>
vars == <<init, slot, orig, curr, nxt, rval, exited, dev, first>>

-----------------------------------------------------------------------------
SlotsOf(fd) == {i \in Slots : slot[i] = fd}
Lowest(S) == CHOOSE i \in S : \A j \in S : i <= j
Highest(S) == CHOOSE i \in S : \A j \in S : j <= i

(* Faulty variant: only slot 0 is looked at.                               *)
ManagedInFirst(fd) == init /\ slot[0] = fd

(* term_find(): the lowest slot that holds fd; nothing before init.        *)
Managed(fd) == init /\ SlotsOf(fd) # {}
Find(fd) == Lowest(SlotsOf(fd))

(* A device call may or must succeed, as the run's Fallible says.          *)
MayFail(c) == c \in Fallible

Fail == rval' = -1
Succeed == rval' = 0

Unmanaged(fd) == /\ ~Managed(fd)
                 /\ Fail
                 /\ UNCHANGED <<table, first, dev>>
Refused == Fail /\ UNCHANGED <<table, first, dev>>

(* Faulty variant: the current settings are not read.                      *)
EnterStale(fd, i) == /\ slot' = [slot EXCEPT ![i] = fd]
                     /\ orig' = [orig EXCEPT ![i] = dev[fd]]
                     /\ nxt' = [nxt EXCEPT ![i] = dev[fd]]
                     /\ first' = [first EXCEPT ![i] = dev[fd]]
                     /\ UNCHANGED curr

(* fd takes slot i, its settings are read into all three structures.       *)
Enter(fd, i) == /\ slot' = [slot EXCEPT ![i] = fd]
                /\ orig' = [orig EXCEPT ![i] = dev[fd]]
                /\ curr' = [curr EXCEPT ![i] = dev[fd]]
                /\ nxt' = [nxt EXCEPT ![i] = dev[fd]]
                /\ first' = [first EXCEPT ![i] = dev[fd]]

-----------------------------------------------------------------------------
(* term_lib_init(), first call: empty the table and register the exit      *)
(* handler, or fail when atexit(3) does.  A later call resets and drops    *)
(* every managed descriptor; a reset that fails is only reported.          *)
term_lib_init ==
  /\ slot' = [i \in Slots |-> Free]
  /\ \/ ~init /\ init' = TRUE /\ Succeed /\ UNCHANGED dev
     \/ ~init /\ MayFail("atexit") /\ Fail /\ UNCHANGED <<init, dev>>
     \/ /\ init /\ init' = TRUE /\ Succeed
        /\ \E bad \in SUBSET {i \in Slots : slot[i] # Free} :
             /\ bad # {} => MayFail("setattr")
             /\ dev' = [fd \in FD |->
                          LET S == SlotsOf(fd) \ bad
                          IN  IF S = {} THEN dev[fd] ELSE Adopt[orig[Highest(S)]]]
  /\ UNCHANGED <<orig, curr, nxt, first, exited>>

term_add(fd) ==
  LET empty == SlotsOf(Free)
  IN  \/ /\ \/ ~init \/ Managed(fd) \/ fd \notin Ttys \/ empty = {}
            \/ MayFail("getattr")
         /\ Refused
      \/ /\ init /\ ~Managed(fd) /\ fd \in Ttys /\ empty # {}
         /\ Enter(fd, Lowest(empty))
         /\ Succeed
         /\ UNCHANGED dev

(* The slot is freed also when the flush or the reset fails.               *)
term_remove(fd) ==
  \/ Unmanaged(fd)
  \/ /\ Managed(fd)
     /\ slot' = [slot EXCEPT ![Find(fd)] = Free]
     /\ \/ /\ dev' = [dev EXCEPT ![fd] = Adopt[orig[Find(fd)]]]
           /\ Succeed
        \/ /\ MayFail("flush") \/ MayFail("setattr")
           /\ Fail
           /\ UNCHANGED dev
     /\ UNCHANGED <<orig, curr, nxt, first>>

term_erase(fd) ==
  \/ Unmanaged(fd)
  \/ /\ Managed(fd)
     /\ slot' = [slot EXCEPT ![Find(fd)] = Free]
     /\ Succeed
     /\ UNCHANGED <<orig, curr, nxt, first, dev>>

term_replace(oldfd, newfd) ==
  \/ Unmanaged(oldfd)
  \/ /\ Managed(oldfd)
     /\ LET i == Find(oldfd)
            got == Adopt[curr[i]]
        IN  \/ /\ newfd \notin Ttys \/ MayFail("setattr")
               /\ Refused
            \/ /\ newfd \in Ttys
               /\ dev' = [dev EXCEPT ![newfd] = got]
               /\ \/ /\ curr' = [curr EXCEPT ![i] = got]
                     /\ slot' = [slot EXCEPT ![i] = newfd]
                     /\ Succeed
                  \/ /\ MayFail("getattr")
                     /\ Fail
                     /\ UNCHANGED <<curr, slot>>
               /\ UNCHANGED <<orig, nxt, first>>

term_reset(fd) ==
  \/ Unmanaged(fd)
  \/ /\ Managed(fd)
     /\ LET i == Find(fd)
            got == Adopt[orig[i]]
        IN  \/ (MayFail("flush") \/ MayFail("setattr")) /\ Refused
            \/ /\ dev' = [dev EXCEPT ![fd] = got]
               /\ \/ /\ curr' = [curr EXCEPT ![i] = got]
                     /\ nxt' = [nxt EXCEPT ![i] = got]
                     /\ Succeed
                  \/ /\ MayFail("getattr")
                     /\ Fail
                     /\ UNCHANGED <<curr, nxt>>
               /\ UNCHANGED <<slot, orig, first>>

term_revert(fd) ==
  \/ Unmanaged(fd)
  \/ /\ Managed(fd)
     /\ nxt' = [nxt EXCEPT ![Find(fd)] = curr[Find(fd)]]
     /\ Succeed
     /\ UNCHANGED <<slot, orig, curr, first, dev>>

term_refresh(fd) ==
  \/ Unmanaged(fd)
  \/ Managed(fd) /\ MayFail("getattr") /\ Refused
  \/ /\ Managed(fd)
     /\ curr' = [curr EXCEPT ![Find(fd)] = dev[fd]]
     /\ Succeed
     /\ UNCHANGED <<slot, orig, nxt, first, dev>>

(* Faulty variants: all settings are copied; nothing is copied.            *)
KeepAll(o, t) == t
KeepNone(o, t) == o

(* HUPCL of the applied settings goes into the original ones: exit(3)      *)
(* restores those before it closes the descriptor, and HUPCL decides what  *)
(* that close does.                                                        *)
KeepHangup(o, t) == SetHupcl(o, Hupcl(t))

(* Faulty variant: HUPCL is kept before it is known what was applied.      *)
HangupTooEarly(i) == /\ orig' = [orig EXCEPT ![i] = KeepHangup(@, nxt[i])]
                     /\ UNCHANGED <<nxt, curr>>

(* The settings were applied and could not be read back.                   *)
NotReadBack(i) == UNCHANGED <<nxt, curr, orig>>

(* Apply the next settings, re-read them, make them current.               *)
term_apply(fd) ==
  \/ Unmanaged(fd)
  \/ /\ Managed(fd)
     /\ LET i == Find(fd)
            got == Adopt[nxt[i]]
        IN  \/ MayFail("setattr") /\ Refused
            \/ /\ dev' = [dev EXCEPT ![fd] = got]
               /\ \/ /\ nxt' = [nxt EXCEPT ![i] = got]
                     /\ curr' = [curr EXCEPT ![i] = got]
                     /\ orig' = [orig EXCEPT ![i] = KeepHangup(@, got)]
                     /\ Succeed
                  \/ /\ MayFail("getattr")
                     /\ Fail
                     /\ NotReadBack(i)
               /\ UNCHANGED <<slot, first>>

(* One of term_set_raw(), term_set_baudrate(), term_set_parity(), ...: it  *)
(* changes nexttermios, or refuses its argument.                           *)
term_set_one(fd, a) ==
  \/ Unmanaged(fd)
  \/ Managed(fd) /\ ~ValidArgs(a) /\ Refused
  \/ /\ Managed(fd)
     /\ \E t \in OneSetting(nxt[Find(fd)], a) : nxt' = [nxt EXCEPT ![Find(fd)] = t]
     /\ Succeed
     /\ UNCHANGED <<slot, orig, curr, first, dev>>

(* Faulty variant: the neighbour is freed.                                 *)
NeighbourOf(i) == i + 1

(* The slot freed when an argument was refused for a new descriptor that   *)
(* took slot i: the 0 that term_add() returned.                            *)
FreedFor(i) == 0

(* All settings at once.  A managed descriptor gets its next settings back *)
(* when an argument is refused.  A descriptor that is not managed is added *)
(* first; "ni" is then the 0 that term_add() returns, not the slot it      *)
(* took, so that on a refused argument it is slot 0 that is freed.         *)
term_set(fd, a) ==
  LET empty == SlotsOf(Free)
      i == Lowest(empty)
  IN  \/ /\ Managed(fd)
         /\ nxt' = [nxt EXCEPT ![Find(fd)] = IF ValidArgs(a) THEN SetAll(@, a) ELSE @]
         /\ IF ValidArgs(a) THEN Succeed ELSE Fail
         /\ UNCHANGED <<slot, orig, curr, first, dev>>
      \/ /\ ~Managed(fd)
         /\ ~init \/ fd \notin Ttys \/ empty = {} \/ MayFail("getattr")
         /\ Refused
      \/ /\ ~Managed(fd) /\ init /\ fd \in Ttys /\ empty # {}
         /\ orig' = [orig EXCEPT ![i] = dev[fd]]
         /\ curr' = [curr EXCEPT ![i] = dev[fd]]
         /\ nxt' = [nxt EXCEPT ![i] = SetAll(dev[fd], a)]
         /\ first' = [first EXCEPT ![i] = dev[fd]]
         /\ \/ /\ ValidArgs(a)
               /\ slot' = [slot EXCEPT ![i] = fd]
               /\ Succeed
            \/ /\ ~ValidArgs(a)
               /\ slot' = [slot EXCEPT ![i] = fd, ![FreedFor(i)] = Free]
               /\ Fail
         /\ UNCHANGED dev

(* Wait for the output with flow control off, then put the settings back   *)
(* that the device had.  A failure on the way leaves the device without    *)
(* flow control.                                                           *)
term_fake_flush(fd) ==
  \/ Unmanaged(fd)
  \/ Managed(fd) /\ MayFail("getattr") /\ Refused
  \/ /\ Managed(fd)
     /\ LET i == Find(fd)
            noflow == Adopt[SetFlow(dev[fd], "FC_NONE")]
        IN  /\ curr' = [curr EXCEPT ![i] = dev[fd]]
            /\ \/ dev' = [dev EXCEPT ![fd] = Adopt[curr'[i]]] /\ Succeed
               \/ /\ MayFail("setattr")
                  /\ dev' \in {dev, [dev EXCEPT ![fd] = noflow]}
                  /\ Fail
               \/ /\ MayFail("drain")
                  /\ dev' = [dev EXCEPT ![fd] = noflow]
                  /\ Fail
     /\ UNCHANGED <<slot, orig, nxt, first>>

(* term_drain(), term_flush(), term_break(), term_pulse_dtr(),             *)
(* term_raise_dtr(), ..., term_get_mctl(): a call to the device that       *)
(* touches neither the table nor the settings.                             *)
term_device_call(fd) ==
  \/ Unmanaged(fd)
  \/ /\ Managed(fd) /\ \E c \in {"flush", "drain", "mctl"} : MayFail(c)
     /\ Refused
  \/ Managed(fd) /\ Succeed /\ UNCHANGED <<table, first, dev>>

-----------------------------------------------------------------------------
(* term_exitfunc(), run by exit(3): drain, reset and close every managed   *)
(* descriptor and free its slot.  A descriptor in two slots is closed by   *)
(* the first, so that the reset of the second fails.                       *)
term_exitfunc ==
  /\ exited' = TRUE
  /\ IF ~init THEN UNCHANGED <<slot, dev>>
     ELSE /\ slot' = [i \in Slots |-> Free]
          /\ \E bad \in SUBSET {i \in Slots : slot[i] # Free} :
               /\ bad # {} => MayFail("setattr")
               /\ dev' = [fd \in FD |->
                            IF SlotsOf(fd) = {} \/ Find(fd) \in bad THEN dev[fd]
                            ELSE Adopt[orig[Find(fd)]]]
  /\ UNCHANGED <<init, orig, curr, nxt, first, rval>>

(* Environment: another program sets the device (stty(1), getty, ...).     *)
OutsideChange(fd) ==
  /\ OthersSet
  /\ \E t \in DevSettings : dev' = [dev EXCEPT ![fd] = t]
  /\ UNCHANGED <<init, table, first, rval, exited>>

-----------------------------------------------------------------------------
(* ppcom.cpp calls term_set() on a new descriptor only while the table is  *)
(* empty, and never replaces a descriptor by a managed one.                *)
MaySet(fd, a) == Strict => Managed(fd) \/ ValidArgs(a) \/ slot[0] = Free
MayReplace(newfd) == Strict => ~Managed(newfd)

(* A zeroed struct termios: "term" is a static object.                     *)
Zero == [iflag |-> {}, cflag |-> {}, csize |-> 5, speed |-> 0, mode |-> "cooked"]

Init == /\ init = FALSE
        /\ slot = [i \in Slots |-> 0]
        /\ orig = [i \in Slots |-> Zero]
        /\ curr = [i \in Slots |-> Zero]
        /\ nxt = [i \in Slots |-> Zero]
        /\ rval = 0
        /\ exited = FALSE
        /\ dev \in [FD -> DevSettings]
        /\ first = [i \in Slots |-> Zero]

Call(fd) ==
  \/ term_add(fd)
  \/ term_remove(fd)
  \/ term_erase(fd)
  \/ \E newfd \in FD : MayReplace(newfd) /\ term_replace(fd, newfd)
  \/ term_reset(fd)
  \/ term_revert(fd)
  \/ term_refresh(fd)
  \/ term_apply(fd)
  \/ \E a \in SetArgs : term_set_one(fd, a)
  \/ \E a \in SetArgs : MaySet(fd, a) /\ term_set(fd, a)
  \/ term_fake_flush(fd)
  \/ term_device_call(fd)

Next == /\ ~exited
        /\ \/ term_lib_init
           \/ \E fd \in FD : Call(fd) /\ UNCHANGED <<init, exited>>
           \/ term_exitfunc
           \/ \E fd \in FD : OutsideChange(fd)

Spec == Init /\ [][Next]_vars
-----------------------------------------------------------------------------
InUse(i) == init /\ slot[i] # Free

TypeOK == /\ init \in BOOLEAN
          /\ slot \in [Slots -> FD \cup {Free, 0}]
          /\ orig \in [Slots -> TermiosType]
          /\ curr \in [Slots -> TermiosType]
          /\ nxt \in [Slots -> TermiosType]
          /\ rval \in {-1, 0}
          /\ exited \in BOOLEAN
          /\ dev \in [FD -> TermiosType]
          /\ first \in [Slots -> TermiosType]

(* No descriptor is in two slots: term_find() would only ever see the      *)
(* first of them and the other could never be removed.                     *)
UniqueFds == \A i, j \in Slots : InUse(i) /\ slot[i] = slot[j] => i = j

(* origtermios stays what the device had when it was added, HUPCL apart,   *)
(* through every apply, reset, refresh, replace and every failure: it is   *)
(* what term_remove() and the atexit handler put back.                     *)
OrigKept == \A i \in Slots :
  InUse(i) => orig[i] = SetHupcl(first[i], Hupcl(orig[i]))

(* currtermios is what the device has: the getters behind the C-v and      *)
(* "*** baud:" messages tell the truth.                                    *)
CurrIsDevice == \A i \in Slots : InUse(i) => curr[i] = dev[slot[i]]

(* term.h on term_set(), term_replace(), term_apply(), term_reset() and    *)
(* term_refresh(): a call that fails leaves no descriptor in the framework *)
(* that was not there before and the settings structures unaffected (all   *)
(* but the current settings, which term_fake_flush() may have re-read).    *)
FailedCallChangesNothing ==
  [][rval' = -1 /\ ~exited' =>
       /\ \A fd \in FD : Managed(fd)' => Managed(fd)
       /\ \A i \in Slots : InUse(i) => /\ orig'[i] = orig[i]
                                       /\ nxt'[i] = nxt[i]
                                       /\ curr'[i] \in {curr[i], dev[slot[i]]}]_vars

(* term.h: the atexit handler resets every managed terminal.  Without      *)
(* failures and outside changes each device ends as it was when it was     *)
(* added, except for HUPCL, which stays as it was last applied.            *)
ExitRestores ==
  [][exited' => \A i \in Slots :
       InUse(i) => dev'[slot[i]] = Adopt[SetHupcl(first[i], Hupcl(dev[slot[i]]))]]_vars

(* The settings of the device are read back after every call that sets     *)
(* them: while the current settings of every descriptor are the device's,  *)
(* they stay so through any call but one that fails after it has changed   *)
(* something, also where the device does not take all it is asked for.     *)
CurrTellsDevice ==
  [][CurrIsDevice /\ (rval' = 0 \/ UNCHANGED <<table, dev>>) => CurrIsDevice']_vars

-----------------------------------------------------------------------------
(* The three settings structures of every managed descriptor.              *)
Port == [fd \in {x \in FD : Managed(x)} |->
           [orig |-> orig[Find(fd)], curr |-> curr[Find(fd)], nxt |-> nxt[Find(fd)]]]

(* The table implements the finite map of TermAbs.                         *)
Abs == INSTANCE TermAbs WITH
  Settings <- TermiosType,
  Hangup <- LAMBDA o, t : SetHupcl(o, Hupcl(t)),
  port <- Port

(* Every library call is one step of the map, whichever slots it uses.     *)
ImplementsMap == Abs!AbsSpec
==============================================================================
