-------------------------- MODULE LifecycleProofs --------------------------
(***************************************************************************)
(* What main(), the commands and cleanup() do to the library is a client   *)
(* that Term allows, so that what is proved of the library holds for the   *)
(* program, for any options, devices, failures and ways to end.  Then that *)
(* the terminal and the port are put back as they were found.              *)
(***************************************************************************)
EXTENDS Lifecycle, TermProofs

-----------------------------------------------------------------------------
(* The type of the options.                                                *)
OptsType == [noinit : BOOLEAN, noreset : BOOLEAN, hangup : BOOLEAN,
             exit : BOOLEAN, flow : Flow]

(* The options keep their type, and the exit handler runs last.            *)
LifeInv == /\ opts \in OptsType
           /\ exited => pc = "done"

(* It holds at the start.                                                  *)
LEMMA LifeInvInit == LifeInit => LifeInv
BY LifecycleAssumption DEF LifeInit, Init, LifeInv, OptsType

(* What main() hands to term_set() is valid: parse_args() refuses          *)
(* anything else.                                                          *)
LEMMA StartArgsValid ==
  ASSUME LifeInv
  PROVE  StartArgs \in SetArgs /\ ValidArgs(StartArgs)
<1>1. opts.noreset \in BOOLEAN /\ opts.flow \in Flow
  BY DEF LifeInv, OptsType
<1>2. StartArgs \in SetArgs
  BY <1>1, LifecycleAssumption DEF StartArgs
<1>3. ValidArgs(StartArgs)
  BY <1>1, LifecycleAssumption DEF StartArgs, ValidArgs
<1> QED
  BY <1>2, <1>3

(* The flow-control key goes round the three modes.                        *)
LEMMA FlowNextTyped == \A f \in Flow : FlowNext(f) \in Flow
BY DEF Flow, FlowNext

(* Only the flow-control key and quit write the options: both keep the     *)
(* type.                                                                   *)
LEMMA OptsStep ==
  ASSUME LifeInv, LifeNext
  PROVE  opts' \in OptsType
<1>1. \/ opts' = opts
      \/ opts' = [opts EXCEPT !.noreset = TRUE]
      \/ opts' = [opts EXCEPT !.flow = FlowNext(@)]
  BY DEF LifeNext, Startup, InLoop, Ending, LibInit, OpenPort, AddPort, set_dtr_rts, ConfigurePort,
     CheckSettings, AddStdin, SetStdinRaw, ConfigureStdin, MakeQueue, WriteToPort, SettingKey,
     FlushForKey, ApplyForKey, StatusKey, Transfer, BackToRaw, LeaveLoop, Abort, Cleanup, DrainPort,
     FlushPort, FakeFlush, SetHangup, ApplyHangup, ErasePort, Exit, deadly_handler, Peer
<1> QED
  BY <1>1, FlowNextTyped DEF LifeInv, OptsType

(* The library is not called after exit(3), and the process goes nowhere   *)
(* after it.                                                               *)
LEMMA ExitIsLast ==
  ASSUME LifeInv, LifeNext
  PROVE  ~exited /\ (exited' => pc' = "done")
<1>1. pc # "done"
  BY DEF LifeNext, Startup, InLoop, Ending, LibInit, OpenPort, AddPort, set_dtr_rts, ConfigurePort,
     CheckSettings, AddStdin, SetStdinRaw, ConfigureStdin, MakeQueue, WriteToPort, SettingKey, KeyTyped,
     FlushForKey, ApplyForKey, StatusKey, Transfer, BackToRaw, LeaveLoop, Abort, Cleanup, DrainPort,
     FlushPort, FakeFlush, SetHangup, ApplyHangup, ErasePort, Exit, deadly_handler, Peer, Running
<1>2. pc' = "done" \/ exited' = exited
  BY DEF LifeNext, Startup, InLoop, Ending, LibInit, OpenPort, AddPort, set_dtr_rts, ConfigurePort,
     CheckSettings, AddStdin, SetStdinRaw, ConfigureStdin, MakeQueue, WriteToPort, SettingKey,
     FlushForKey, ApplyForKey, StatusKey, Transfer, BackToRaw, LeaveLoop, Abort, Cleanup, DrainPort,
     FlushPort, FakeFlush, SetHangup, ApplyHangup, ErasePort, Exit, deadly_handler, Peer,
     Try, OrFatal, Ignore, Go, Fatal, vars, term_lib_init, OutsideChange
<1> QED
  BY <1>1, <1>2 DEF LifeInv
-----------------------------------------------------------------------------
(* A call of the library, wherever it comes from.                          *)
LEMMA CallIsStep ==
  ASSUME ~exited, NEW fd \in FD, Call(fd), UNCHANGED <<init, exited>>
  PROVE  Next
BY DEF Next

(* Every step of the program is a step of the library or leaves it alone.  *)
LEMMA LifeStep ==
  ASSUME LifeInv, LifeNext
  PROVE  [Next]_vars
<1>0. ~exited /\ TTY \in FD /\ STI \in FD
  BY ExitIsLast, LifecycleAssumption
<1>1. CASE LibInit
  BY <1>0, <1>1 DEF LibInit, Next
<1>2. CASE AddPort
  <2>1. MaySet(TTY, StartArgs)
    BY StartArgsValid DEF MaySet
  <2>2. term_add(TTY) \/ term_set(TTY, StartArgs)
    BY <1>2 DEF AddPort, Try, OrFatal
  <2>3. Call(TTY)
    BY <2>1, <2>2, StartArgsValid DEF Call
  <2> QED
    BY <1>0, <1>2, <2>3, CallIsStep DEF AddPort, Try, OrFatal
<1>3. CASE set_dtr_rts
  BY <1>0, <1>3, CallIsStep DEF set_dtr_rts, Try, OrFatal, Call
<1>4. CASE ConfigurePort
  BY <1>0, <1>4, CallIsStep DEF ConfigurePort, Try, OrFatal, Call
<1>5. CASE CheckSettings
  BY <1>0, <1>5, CallIsStep DEF CheckSettings, Ignore, Go, Call
<1>6. CASE AddStdin
  BY <1>0, <1>6, CallIsStep DEF AddStdin, Try, OrFatal, Go, Call
<1>7. CASE SetStdinRaw
  BY <1>0, <1>7, CallIsStep DEF SetStdinRaw, Setter, Ignore, Call
<1>8. CASE ConfigureStdin
  BY <1>0, <1>8, CallIsStep DEF ConfigureStdin, Try, OrFatal, Call
<1>9. CASE SettingKey
  BY <1>0, <1>9, CallIsStep DEF SettingKey, Setter, Ignore, Call
<1>10. CASE FlushForKey \/ DrainPort \/ FlushPort
  BY <1>0, <1>10, CallIsStep DEF FlushForKey, DrainPort, FlushPort, Ignore, Call
<1>11. CASE ApplyForKey \/ BackToRaw \/ ApplyHangup
  BY <1>0, <1>11, CallIsStep DEF ApplyForKey, BackToRaw, ApplyHangup, Ignore, Call
<1>12. CASE StatusKey
  BY <1>0, <1>12, CallIsStep DEF StatusKey, Ignore, Call
<1>13. CASE Transfer
  BY <1>0, <1>13 DEF Transfer, Next
<1>14. CASE FakeFlush
  BY <1>0, <1>14, CallIsStep DEF FakeFlush, Ignore, Go, Call
<1>15. CASE SetHangup
  BY <1>0, <1>15, CallIsStep DEF SetHangup, Setter, Ignore, Call
<1>16. CASE ErasePort
  BY <1>0, <1>16, CallIsStep DEF ErasePort, Ignore, Call
<1>17. CASE Exit
  BY <1>0, <1>17 DEF Exit, Next
<1>18. CASE OpenPort \/ MakeQueue \/ WriteToPort \/ LeaveLoop \/ Abort \/ Cleanup \/ deadly_handler \/ Peer
  BY <1>18 DEF OpenPort, MakeQueue, WriteToPort, LeaveLoop, Abort, Cleanup, deadly_handler, Peer,
     Go, Fatal
<1> QED
  BY <1>1, <1>2, <1>3, <1>4, <1>5, <1>6, <1>7, <1>8, <1>9, <1>10, <1>11, <1>12, <1>13, <1>14, <1>15,
     <1>16, <1>17, <1>18 DEF LifeNext, Startup, InLoop, Ending

(* ppcom is a client of the library as Term describes it, whatever its     *)
(* options, the failures and the way it ends.                              *)
THEOREM LifeUsesTheLibrary == Life => Spec
<1>1. LifeInv /\ [LifeNext]_lvars => LifeInv'
  <2>1. ASSUME LifeInv, LifeNext PROVE LifeInv'
    BY <2>1, OptsStep, ExitIsLast DEF LifeInv
  <2>2. ASSUME LifeInv, UNCHANGED lvars PROVE LifeInv'
    BY <2>2 DEF LifeInv, lvars, vars, process
  <2> QED
    BY <2>1, <2>2
<1>2. LifeInv /\ [LifeNext]_lvars => [Next]_vars
  BY LifeStep DEF lvars
<1>3. LifeInit => Init
  BY DEF LifeInit
<1> QED
  BY <1>1, <1>2, <1>3, LifeInvInit, PTL DEF Life, Spec

(* The settings that the exit handler puts back are those found when the   *)
(* descriptor was added, HUPCL apart, through start, commands, transfers,  *)
(* failures and cleanup.                                                   *)
THEOREM OriginalsOutliveTheSession == Life => []OrigKept
BY LifeUsesTheLibrary, OriginalKept, PTL

(* However a session goes and ends, and whatever it could not flush or     *)
(* drain on the way, the atexit handler of the library puts back what main *)
(* and cleanup() left managed, HUPCL apart.                                *)
THEOREM HandlerPutsBack ==
  ASSUME Strict, ~OthersSet, Fallible \subseteq {"flush", "drain", "mctl", "atexit"}
  PROVE  Life => ExitRestores
<1>1. Spec => ExitRestores
  BY DevicesPutBack
<1> QED
  BY <1>1, LifeUsesTheLibrary, PTL

-----------------------------------------------------------------------------
(* The settings of standard input.  While it is managed, what exit(3) puts *)
(* back is what was found, HUPCL included, because nothing sets HUPCL of   *)
(* it; while it is not, nothing touches it.                                *)
StdinInv ==
  /\ found \in [FD -> DevSettings]
  /\ pc = "start" => ~init
  /\ \A i \in Slots : InUse(i) /\ slot[i] = STI =>
       orig[i] = found[STI] /\ (Hupcl(nxt[i]) <=> Hupcl(found[STI]))
  /\ ~exited /\ ~Managed(STI) => dev[STI] = found[STI]
  /\ StdinRestored

(* A step that leaves standard input alone.                                *)
KeepsTerminal ==
  /\ init' = init /\ dev'[STI] = dev[STI]
  /\ \A i \in Slots : /\ slot'[i] = STI <=> slot[i] = STI
                      /\ slot[i] = STI => orig'[i] = orig[i] /\ nxt'[i] = nxt[i]

(* No descriptor is that of a free slot, and the two are not the same.     *)
LEMMA Descriptors == STI \in FD /\ TTY \in FD /\ STI # TTY /\ STI # Free /\ TTY # Free
<1>1. STI \in FD /\ TTY \in FD /\ STI # TTY
  BY LifecycleAssumption
<1>2. FD \subseteq Nat
  BY TermAssumption
<1> QED
  BY <1>1, <1>2 DEF Free

(* Such a step changes nothing the invariant speaks of.                    *)
LEMMA TerminalKept ==
  ASSUME StdinInv, KeepsTerminal, UNCHANGED <<found, exited>>, pc' \notin {"start", "done"}
  PROVE  StdinInv'
<1>1. Managed(STI)' <=> Managed(STI)
  BY DEF KeepsTerminal, Managed, SlotsOf
<1> QED
  BY <1>1 DEF StdinInv, KeepsTerminal, InUse, StdinRestored

(* The calls that ppcom makes for the port leave standard input alone.     *)
LEMMA PortCallKeepsTerminal ==
  ASSUME TypeInv, LifeInv, init' = init,
         \/ term_add(TTY) \/ term_set(TTY, StartArgs) \/ term_device_call(TTY)
         \/ term_apply(TTY) \/ term_refresh(TTY) \/ term_fake_flush(TTY) \/ term_erase(TTY)
         \/ \E a \in SetArgs : term_set_one(TTY, a)
  PROVE  KeepsTerminal
<1> USE Descriptors DEF TypeInv, TypeOK, Placed, KeepsTerminal, Refused, Unmanaged, table
<1>1. CASE term_add(TTY)
  BY <1>1, FreeSlot DEF term_add, Enter
<1>2. CASE term_set(TTY, StartArgs)
  BY <1>2, FreeSlot, FindSlot, StartArgsValid DEF term_set
<1>3. CASE term_device_call(TTY)
  BY <1>3 DEF term_device_call
<1>4. CASE term_apply(TTY)
  BY <1>4, FindSlot DEF term_apply, NotReadBack
<1>5. CASE term_refresh(TTY)
  BY <1>5 DEF term_refresh
<1>6. CASE term_fake_flush(TTY)
  BY <1>6 DEF term_fake_flush
<1>7. CASE term_erase(TTY)
  BY <1>7, FindSlot DEF term_erase
<1>8. ASSUME NEW a \in SetArgs, term_set_one(TTY, a)
      PROVE  KeepsTerminal
  BY <1>8, FindSlot DEF term_set_one
<1> QED
  BY <1>1, <1>2, <1>3, <1>4, <1>5, <1>6, <1>7, <1>8

(* Settings that were found are what the device takes when put back.       *)
LEMMA FoundIsAdopted ==
  ASSUME StdinInv
  PROVE  found[STI] \in TermiosType /\ Adopt[found[STI]] = found[STI]
BY Descriptors, TermAssumption DEF StdinInv

(* Adding, changing and applying the settings of standard input.           *)
LEMMA AddTerminal ==
  ASSUME TypeInv, StdinInv, ~exited, UNCHANGED <<init, exited, found>>, pc' \notin {"start", "done"},
         term_add(STI)
  PROVE  StdinInv'
<1> USE Descriptors DEF TypeInv, TypeOK, Placed
<1>1. CASE UNCHANGED <<table, dev>>
  BY <1>1, TerminalKept DEF KeepsTerminal, table
<1>2. CASE ~UNCHANGED <<table, dev>>
  <2> DEFINE i == Lowest(SlotsOf(Free))
  <2>1. init /\ ~Managed(STI) /\ SlotsOf(Free) # {} /\ Enter(STI, i) /\ UNCHANGED dev
    BY <1>2 DEF term_add, Refused, table
  <2>2. i \in Slots
    BY <2>1, FreeSlot
  <2>3. dev[STI] = found[STI] /\ \A j \in Slots : slot[j] # STI
    BY <2>1 DEF StdinInv, Managed, SlotsOf
  <2> HIDE DEF i
  <2>4. /\ slot' = [slot EXCEPT ![i] = STI] /\ orig'[i] = found[STI] /\ nxt'[i] = found[STI]
    BY <2>1, <2>2, <2>3 DEF Enter
  <2>5. \A j \in Slots : slot'[j] = STI <=> j = i
    BY <2>2, <2>3, <2>4
  <2>6. Managed(STI)'
    BY <2>1, <2>2, <2>5 DEF Managed, SlotsOf
  <2> QED
    BY <2>4, <2>5, <2>6 DEF StdinInv, InUse, StdinRestored
<1> QED
  BY <1>1, <1>2

(* term_set_raw() leaves HUPCL alone.                                      *)
LEMMA RawKeepsHangup ==
  ASSUME NEW t \in TermiosType
  PROVE  Hupcl(SetRaw(t)) <=> Hupcl(t)
BY DEF SetRaw, Hupcl, Flags, TermiosType

(* term_set_raw() of standard input: HUPCL is left alone in the next       *)
(* settings, the device is not touched.                                    *)
LEMMA RawTerminal ==
  ASSUME TypeInv, StdinInv, UNCHANGED <<init, exited, found>>, pc' \notin {"start", "done"},
         Setter(STI, SetRaw)
  PROVE  StdinInv'
<1> USE Descriptors DEF TypeInv, TypeOK
<1>1. PICK a \in SetArgs : /\ term_set_one(STI, a)
                           /\ Managed(STI) => nxt'[Find(STI)] = SetRaw(nxt[Find(STI)])
  BY DEF Setter
<1>2. UNCHANGED <<slot, orig, dev>>
  BY <1>1 DEF term_set_one, Unmanaged, Refused, table
<1>3. Managed(STI)' <=> Managed(STI)
  BY <1>2 DEF Managed, SlotsOf
<1>4. \A i \in Slots : Hupcl(nxt'[i]) <=> Hupcl(nxt[i])
  <2>1. CASE nxt' = nxt
    BY <2>1
  <2>2. CASE Managed(STI) /\ \E t : nxt' = [nxt EXCEPT ![Find(STI)] = t]
    <3>1. Find(STI) \in Slots
      BY <2>2, FindSlot
    <3> QED
      BY <1>1, <2>2, <3>1, RawKeepsHangup
  <2> QED
    BY <1>1, <2>1, <2>2 DEF term_set_one, Unmanaged, Refused, table
<1> QED
  BY <1>2, <1>3, <1>4 DEF StdinInv, InUse, StdinRestored

(* term_apply() of standard input: HUPCL stays that of the original        *)
(* settings, which therefore do not change.                                *)
LEMMA ApplyTerminal ==
  ASSUME TypeInv, StdinInv, UNCHANGED <<init, exited, found>>, pc' \notin {"start", "done"},
         term_apply(STI)
  PROVE  StdinInv'
<1> USE Descriptors DEF TypeInv, TypeOK
<1>1. CASE UNCHANGED <<table, dev>>
  BY <1>1, TerminalKept DEF KeepsTerminal, table
<1>2. CASE Managed(STI) /\ ~UNCHANGED <<table, dev>>
  <2> DEFINE i == Find(STI)
             got == Adopt[nxt[i]]
  <2>1. i \in Slots /\ init /\ slot[i] = STI
    BY <1>2, FindSlot
  <2>2. UNCHANGED slot /\ Managed(STI)'
    <3>1. UNCHANGED <<slot, init>>
      BY <1>2 DEF term_apply, Unmanaged, Refused, table
    <3> QED
      BY <1>2, <3>1 DEF Managed, SlotsOf
  <2>3. orig[i] = found[STI] /\ (Hupcl(nxt[i]) <=> Hupcl(found[STI]))
    BY <2>1 DEF StdinInv, InUse
  <2>4. Hupcl(got) <=> Hupcl(found[STI])
    BY <2>1, <2>3, AdoptTyped
  <2>5. KeepHangup(orig[i], got) = found[STI]
    <3>1. Hupcl(got) = Hupcl(found[STI])
      BY <2>4 DEF Hupcl
    <3> QED
      BY <2>3, <3>1, FoundIsAdopted, HupclFacts DEF KeepHangup
  <2>6. \/ UNCHANGED <<orig, nxt>>
        \/ /\ orig' = [orig EXCEPT ![i] = KeepHangup(orig[i], got)]
           /\ nxt' = [nxt EXCEPT ![i] = got]
    BY <1>2 DEF term_apply, Unmanaged, Refused, NotReadBack
  <2> HIDE DEF i, got
  <2>7. \A j \in Slots : slot[j] = STI =>
          orig'[j] = found[STI] /\ (Hupcl(nxt'[j]) <=> Hupcl(found[STI]))
    <3> TAKE j \in Slots
    <3> HAVE slot[j] = STI
    <3>1. orig[j] = found[STI] /\ (Hupcl(nxt[j]) <=> Hupcl(found[STI]))
      BY <2>1 DEF StdinInv, InUse
    <3>2. CASE j = i
      BY <3>1, <3>2, <2>1, <2>4, <2>5, <2>6
    <3>3. CASE j # i
      BY <3>1, <3>3, <2>6
    <3> QED
      BY <3>2, <3>3
  <2> QED
    BY <2>2, <2>7 DEF StdinInv, InUse, StdinRestored
<1> QED
  BY <1>1, <1>2 DEF term_apply, Unmanaged

(* exit(3) puts the settings back that were found.                         *)
LEMMA ExitRestoresTerminal ==
  ASSUME CleanupWorks, TypeInv, StdinInv, ~exited, Exit
  PROVE  StdinInv'
<1> USE Descriptors DEF TypeInv, TypeOK
<1>1. found' = found /\ pc' = "done" /\ exited' /\ init' = init
  BY DEF Exit, term_exitfunc
<1>2. CASE Managed(STI)
  <2>1. orig[Find(STI)] = found[STI]
    BY <1>2, FindSlot DEF StdinInv, InUse
  <2>2. dev'[STI] = found[STI]
    BY <1>2, <2>1, FoundIsAdopted DEF Exit
  <2>3. \A i \in Slots : slot'[i] # STI
    BY <1>2 DEF Exit, term_exitfunc, Managed
  <2> QED
    BY <1>1, <2>2, <2>3 DEF StdinInv, StdinRestored
<1>3. CASE ~Managed(STI) /\ init
  <2>1. SlotsOf(STI) = {}
    BY <1>3 DEF Managed
  <2>2. dev'[STI] = dev[STI] /\ \A i \in Slots : slot'[i] # STI
    BY <1>3, <2>1 DEF Exit, term_exitfunc
  <2> QED
    BY <1>1, <1>3, <2>2 DEF StdinInv, StdinRestored
<1>4. CASE ~init
  BY <1>1, <1>4 DEF StdinInv, StdinRestored, InUse, Exit, term_exitfunc, Managed
<1> QED
  BY <1>2, <1>3, <1>4

(* At the start nothing is managed and the devices are as found.           *)
LEMMA StdinInvInit == LifeInit => StdinInv
BY Descriptors DEF LifeInit, Init, StdinInv, InUse, StdinRestored, Managed

(* Every step of the process keeps the invariant of standard input.        *)
LEMMA StdinStep ==
  ASSUME CleanupWorks, TypeInv, LifeInv, StdinInv, LifeNext
  PROVE  StdinInv'
<1>0. ~exited
  BY ExitIsLast
<1>1. CASE LibInit
  <2>1. ~init /\ pc' \in {"open", "cleanup"}
    BY <1>1 DEF LibInit, OrFatal, StdinInv
  <2>2. UNCHANGED <<dev, found, exited>> /\ \A i \in Slots : slot'[i] # STI
    BY <1>1, <2>1, Descriptors DEF LibInit, term_lib_init
  <2> QED
    BY <1>0, <2>1, <2>2 DEF StdinInv, StdinRestored, InUse, Managed
<1>2. CASE AddPort \/ set_dtr_rts \/ ConfigurePort
  <2>1. UNCHANGED <<found, exited, init>> /\ pc' \notin {"start", "done"}
    BY <1>2 DEF AddPort, set_dtr_rts, ConfigurePort, Try, OrFatal
  <2>2. KeepsTerminal
    BY <1>2, <2>1, PortCallKeepsTerminal DEF AddPort, set_dtr_rts, ConfigurePort, Try, OrFatal
  <2> QED
    BY <2>1, <2>2, TerminalKept
<1>3. CASE FlushForKey \/ ApplyForKey \/ StatusKey
             \/ DrainPort \/ FlushPort \/ ApplyHangup \/ ErasePort
  <2>1. UNCHANGED <<found, exited, init>> /\ pc' \notin {"start", "done"}
    BY <1>3 DEF FlushForKey, ApplyForKey, StatusKey, DrainPort, FlushPort, ApplyHangup,
       ErasePort, Ignore
  <2>2. KeepsTerminal
    BY <1>3, <2>1, PortCallKeepsTerminal DEF FlushForKey, ApplyForKey, StatusKey, DrainPort,
       FlushPort, ApplyHangup, ErasePort, Ignore
  <2> QED
    BY <2>1, <2>2, TerminalKept
<1>4. CASE SettingKey \/ SetHangup
  <2>1. UNCHANGED <<found, exited, init>> /\ pc' \notin {"start", "done"}
    BY <1>4 DEF SettingKey, SetHangup, Ignore
  <2>2. \E a \in SetArgs : term_set_one(TTY, a)
    BY <1>4 DEF SettingKey, SetHangup, Ignore, Setter
  <2>3. KeepsTerminal
    BY <2>1, <2>2, PortCallKeepsTerminal
  <2> QED
    BY <2>1, <2>3, TerminalKept
<1>5. CASE CheckSettings \/ FakeFlush
  <2>1. UNCHANGED <<found, exited, init>> /\ pc' \notin {"start", "done"}
    BY <1>5 DEF CheckSettings, FakeFlush, Ignore, Go, vars
  <2>2. UNCHANGED vars \/ term_refresh(TTY) \/ term_fake_flush(TTY)
    BY <1>5 DEF CheckSettings, FakeFlush, Ignore, Go
  <2>3. KeepsTerminal
    BY <2>1, <2>2, PortCallKeepsTerminal DEF KeepsTerminal, vars
  <2> QED
    BY <2>1, <2>3, TerminalKept
<1>6. CASE AddStdin
  <2>1. UNCHANGED <<found, exited, init>> /\ pc' \notin {"start", "done"}
    BY <1>6 DEF AddStdin, Try, OrFatal, Go, vars
  <2>2. UNCHANGED vars \/ term_add(STI)
    BY <1>6 DEF AddStdin, Try, OrFatal, Go
  <2> QED
    BY <1>0, <2>1, <2>2, AddTerminal, TerminalKept DEF KeepsTerminal, vars
<1>7. CASE SetStdinRaw
  BY <1>7, RawTerminal DEF SetStdinRaw, Ignore
<1>8. CASE ConfigureStdin
  BY <1>8, ApplyTerminal DEF ConfigureStdin, Try, OrFatal
<1>9. CASE BackToRaw
  BY <1>9, ApplyTerminal DEF BackToRaw, Ignore
<1>10. CASE Transfer
  <2>1. UNCHANGED <<init, slot, orig, nxt, exited, found>> /\ pc' = "child"
    BY <1>10 DEF Transfer, OutsideChange, vars, table
  <2>2. Managed(STI)' <=> Managed(STI)
    BY <2>1 DEF Managed, SlotsOf
  <2>3. ~Managed(STI) => dev' = dev
    BY <1>10 DEF Transfer, vars
  <2> QED
    BY <2>1, <2>2, <2>3 DEF StdinInv, StdinRestored, InUse
<1>11. CASE Exit
  BY <1>0, <1>11, ExitRestoresTerminal
<1>12. CASE OpenPort \/ MakeQueue \/ WriteToPort \/ LeaveLoop \/ Abort \/ Cleanup
  <2>1. UNCHANGED <<vars, found>> /\ pc' \notin {"start", "done"}
    BY <1>12 DEF OpenPort, MakeQueue, WriteToPort, LeaveLoop, Abort, Cleanup, Go, Fatal
  <2> QED
    BY <2>1, TerminalKept DEF KeepsTerminal, vars
<1>13. CASE deadly_handler \/ Peer
  <2>1. UNCHANGED <<vars, found, pc>>
    BY <1>13 DEF deadly_handler, Peer
  <2> QED
    BY <2>1 DEF StdinInv, StdinRestored, InUse, Managed, SlotsOf, vars
<1> QED
  BY <1>1, <1>2, <1>3, <1>4, <1>5, <1>6, <1>7, <1>8, <1>9, <1>10, <1>11, <1>12, <1>13
     DEF LifeNext, Startup, InLoop, Ending

(* The user's terminal is put back as it was found however ppcom ends,     *)
(* whatever failed and whatever a transfer program did to it, if no call   *)
(* fails to set a terminal in cleanup() and the exit handler.              *)
THEOREM TerminalPutBack == ASSUME CleanupWorks PROVE Life => []StdinRestored
<1>1. LifeInit => TypeInv /\ LifeInv /\ StdinInv
  <2>1. Init => TypeInv
    BY ZeroTyped, TermAssumption DEF Init, TypeInv, TypeOK, Placed
  <2> QED
    BY <2>1, LifeInvInit, StdinInvInit DEF LifeInit
<1>2. TypeInv /\ LifeInv /\ StdinInv /\ [LifeNext]_lvars => TypeInv' /\ LifeInv' /\ StdinInv'
  <2>1. ASSUME TypeInv, LifeInv, StdinInv, LifeNext
        PROVE  TypeInv' /\ LifeInv' /\ StdinInv'
    BY <2>1, LifeStep, TypeInvStep, OptsStep, ExitIsLast, StdinStep DEF LifeInv
  <2>2. ASSUME TypeInv, LifeInv, StdinInv, UNCHANGED lvars
        PROVE  TypeInv' /\ LifeInv' /\ StdinInv'
    <3>1. UNCHANGED <<vars, pc, opts, found>>
      BY <2>2 DEF lvars, process
    <3>2. TypeInv'
      BY <2>2, <3>1, TypeInvStep
    <3>3. LifeInv'
      BY <2>2, <3>1 DEF LifeInv, vars
    <3>4. StdinInv'
      BY <2>2, <3>1 DEF StdinInv, StdinRestored, InUse, Managed, SlotsOf, vars
    <3> QED
      BY <3>2, <3>3, <3>4
  <2> QED
    BY <2>1, <2>2
<1>3. StdinInv => StdinRestored
  BY DEF StdinInv
<1> QED
  BY <1>1, <1>2, <1>3, PTL DEF Life

-----------------------------------------------------------------------------
(* The settings of the port: those found at the start are its first ones;  *)
(* what cleanup() asks of HUPCL reaches the device and the settings that   *)
(* exit(3) puts back, because the apply after it succeeds.                 *)
Closing == {"drain", "flush", "fake", "hupcl", "capply", "erase"}

(* The port's slots, and whether it is open.                               *)
FoundInv ==
  /\ found \in [FD -> DevSettings] /\ hungup \in BOOLEAN
  /\ pc = "start" => ~init
  /\ pc \in {"start", "open", "add"} => ~Managed(TTY) /\ dev[TTY] = found[TTY]
  /\ Managed(TTY) => open \/ exited
  /\ pc = "add" => open
  /\ \A i \in Slots : InUse(i) /\ slot[i] = TTY => first[i] = found[TTY]

(* What cleanup() has done of HUPCL so far.                                *)
HangupInv ==
  /\ pc \in Closing /\ last.managed => Managed(TTY)
  /\ pc = "capply" /\ last.managed => (Hupcl(nxt[Find(TTY)]) <=> Hangup)
  /\ pc \in {"erase", "exit"} /\ Managed(TTY) /\ last.managed =>
       (Hupcl(orig[Find(TTY)]) <=> Hangup) /\ (Hupcl(dev[TTY]) <=> Hangup)
  /\ pc = "erase" => opts.noreset
  /\ pc = "exit" /\ last.managed /\ ~Managed(TTY) =>
       opts.noreset /\ ~open /\ (hungup <=> Hangup)

(* Both, with the two properties of the end.                               *)
PortInv == FoundInv /\ HangupInv /\ PortRestored /\ HangupAsDocumented

(* A step that keeps the port in its slots, with the settings it was found *)
(* with.                                                                   *)
KeepsSlots ==
  /\ init' = init
  /\ \A i \in Slots : /\ slot'[i] = TTY <=> slot[i] = TTY
                      /\ slot[i] = TTY => first'[i] = first[i]

(* After such a step the port is managed as before, in the same slot.      *)
LEMMA SameSlots ==
  ASSUME KeepsSlots
  PROVE  (Managed(TTY)' <=> Managed(TTY)) /\ Find(TTY)' = Find(TTY)
<1>1. SlotsOf(TTY)' = SlotsOf(TTY)
  BY DEF KeepsSlots, SlotsOf
<1> QED
  BY <1>1 DEF KeepsSlots, Managed, Find

(* Calls for the port that neither add nor drop it.                        *)
LEMMA PortCallKeepsSlots ==
  ASSUME TypeInv, init' = init,
         \/ term_device_call(TTY) \/ term_apply(TTY) \/ term_refresh(TTY) \/ term_fake_flush(TTY)
         \/ \E a \in SetArgs : term_set_one(TTY, a)
  PROVE  KeepsSlots
BY DEF term_device_call, term_apply, NotReadBack, term_refresh, term_fake_flush, term_set_one,
   Unmanaged, Refused, table, KeepsSlots

(* Calls for standard input leave the port alone.                          *)
LEMMA TerminalCallKeepsSlots ==
  ASSUME TypeInv, init' = init,
         \/ term_add(STI) \/ term_apply(STI)
         \/ \E a \in SetArgs : term_set_one(STI, a)
  PROVE  KeepsSlots
<1> USE Descriptors DEF TypeInv, TypeOK, Placed, KeepsSlots, Unmanaged, Refused, table
<1>1. CASE term_add(STI)
  BY <1>1, FreeSlot DEF term_add, Enter
<1>2. CASE term_apply(STI)
  BY <1>2 DEF term_apply, NotReadBack
<1>3. CASE \E a \in SetArgs : term_set_one(STI, a)
  BY <1>3 DEF term_set_one
<1> QED
  BY <1>1, <1>2, <1>3

(* Before cleanup() only the slots and the first settings matter.          *)
Before == {"lines", "apply", "lines2", "status", "stdin", "raw", "rawapply", "queue", "loop",
           "cmdflush", "cmdapply", "child", "cleanup", "aborted"}

(* A step that ends before cleanup() and keeps the slots keeps the         *)
(* invariant.                                                              *)
LEMMA KeptBefore ==
  ASSUME FoundInv, KeepsSlots, UNCHANGED <<exited, open, hungup, found>>, pc' \in Before
  PROVE  PortInv'
BY SameSlots DEF FoundInv, KeepsSlots, PortInv, HangupInv, PortRestored, HangupAsDocumented,
   Before, Closing, InUse

(* The first calls: the table is empty and the port as found.              *)
LEMMA StartPort ==
  ASSUME TypeInv, LifeInv, PortInv, ~exited, LibInit \/ OpenPort
  PROVE  PortInv'
<1>1. CASE LibInit
  <2>1. ~init /\ pc' \in {"open", "cleanup"} /\ pc = "start"
    BY <1>1 DEF LibInit, OrFatal, PortInv, FoundInv
  <2>2. /\ UNCHANGED <<dev, found, exited, open, hungup>>
        /\ \A i \in Slots : slot'[i] # TTY
    BY <1>1, <2>1, Descriptors DEF LibInit, term_lib_init
  <2>3. ~Managed(TTY)'
    BY <2>2 DEF Managed, SlotsOf
  <2> QED
    BY <2>1, <2>2, <2>3 DEF PortInv, FoundInv, HangupInv, PortRestored, HangupAsDocumented, Closing
<1>2. CASE OpenPort
  <2>1. UNCHANGED <<vars, found, hungup>> /\ pc = "open"
    BY <1>2 DEF OpenPort, Go, Fatal
  <2>2. ~Managed(TTY)' /\ dev'[TTY] = found[TTY]
    BY <2>1 DEF PortInv, FoundInv, Managed, SlotsOf, vars
  <2>3. (pc' = "add" /\ open') \/ pc' = "cleanup"
    BY <1>2 DEF OpenPort, Go, Fatal
  <2>4. \A i \in Slots : InUse(i)' => slot'[i] # TTY
    BY <2>2 DEF Managed, SlotsOf, InUse
  <2> QED
    BY <2>1, <2>2, <2>3, <2>4
       DEF PortInv, FoundInv, HangupInv, PortRestored, HangupAsDocumented, Closing
<1> QED
  BY <1>1, <1>2

(* The port enters the table as it was found.                              *)
LEMMA AddPortStep ==
  ASSUME TypeInv, LifeInv, PortInv, AddPort
  PROVE  PortInv'
<1> USE Descriptors DEF TypeInv, TypeOK, Placed
<1>1. UNCHANGED <<init, exited, open, hungup, found>> /\ pc' \in {"lines", "cleanup"} /\ pc = "add"
  BY DEF AddPort, Try, OrFatal
<1>2. ~Managed(TTY) /\ dev[TTY] = found[TTY] /\ open
  BY <1>1 DEF PortInv, FoundInv
<1>3. \A i \in Slots : init' /\ slot'[i] = TTY => first'[i] = found[TTY]
  <2>1. term_add(TTY) \/ term_set(TTY, StartArgs)
    BY DEF AddPort, Try, OrFatal
  <2>2. init => \A i \in Slots : slot[i] # TTY
    BY <1>2 DEF Managed, SlotsOf
  <2>3. CASE UNCHANGED table
    BY <1>1, <2>2, <2>3 DEF table
  <2>4. CASE /\ SlotsOf(Free) # {} /\ init
             /\ slot' = [slot EXCEPT ![Lowest(SlotsOf(Free))] = TTY]
             /\ first' = [first EXCEPT ![Lowest(SlotsOf(Free))] = dev[TTY]]
    BY <1>2, <2>2, <2>4, FreeSlot
  <2> QED
    BY <1>2, <2>1, <2>3, <2>4, StartArgsValid DEF term_add, term_set, Enter, Refused
<1> QED
  BY <1>1, <1>2, <1>3 DEF PortInv, FoundInv, HangupInv, PortRestored, HangupAsDocumented, Closing, InUse

(* The rest of main() up to cleanup(), and the commands.                   *)
LEMMA BeforeStep ==
  ASSUME TypeInv, LifeInv, PortInv,
         \/ set_dtr_rts \/ ConfigurePort \/ CheckSettings \/ AddStdin \/ SetStdinRaw
         \/ ConfigureStdin \/ MakeQueue \/ InLoop
  PROVE  PortInv'
<1>0. FoundInv
  BY DEF PortInv
<1>1. CASE set_dtr_rts \/ ConfigurePort
  <2>1. UNCHANGED <<init, exited, open, hungup, found>> /\ pc' \in Before
    BY <1>1 DEF set_dtr_rts, ConfigurePort, Try, OrFatal, Before
  <2>2. KeepsSlots
    BY <1>1, <2>1, PortCallKeepsSlots DEF set_dtr_rts, ConfigurePort, Try, OrFatal
  <2> QED
    BY <1>0, <2>1, <2>2, KeptBefore
<1>2. CASE FlushForKey \/ ApplyForKey \/ StatusKey \/ CheckSettings
  <2>1. UNCHANGED <<init, exited, open, hungup, found>> /\ pc' \in Before
    BY <1>2 DEF FlushForKey, ApplyForKey, StatusKey, CheckSettings, Ignore, Go, vars, Before
  <2>2. UNCHANGED vars \/ term_device_call(TTY) \/ term_apply(TTY) \/ term_refresh(TTY)
    BY <1>2 DEF FlushForKey, ApplyForKey, StatusKey, CheckSettings, Ignore, Go
  <2>3. KeepsSlots
    BY <2>1, <2>2, PortCallKeepsSlots DEF KeepsSlots, vars
  <2> QED
    BY <1>0, <2>1, <2>3, KeptBefore
<1>3. CASE SettingKey
  <2>1. UNCHANGED <<init, exited, open, hungup, found>> /\ pc' \in Before
    BY <1>3 DEF SettingKey, Ignore, Before
  <2>2. \E a \in SetArgs : term_set_one(TTY, a)
    BY <1>3 DEF SettingKey, Ignore, Setter
  <2>3. KeepsSlots
    BY <2>1, <2>2, PortCallKeepsSlots
  <2> QED
    BY <1>0, <2>1, <2>3, KeptBefore
<1>4. CASE AddStdin \/ ConfigureStdin \/ BackToRaw
  <2>1. UNCHANGED <<init, exited, open, hungup, found>> /\ pc' \in Before
    BY <1>4 DEF AddStdin, ConfigureStdin, BackToRaw, Try, OrFatal, Ignore, Go, vars, Before
  <2>2. UNCHANGED vars \/ term_add(STI) \/ term_apply(STI)
    BY <1>4 DEF AddStdin, ConfigureStdin, BackToRaw, Try, OrFatal, Ignore, Go
  <2>3. KeepsSlots
    BY <2>1, <2>2, TerminalCallKeepsSlots DEF KeepsSlots, vars
  <2> QED
    BY <1>0, <2>1, <2>3, KeptBefore
<1>5. CASE SetStdinRaw
  <2>1. UNCHANGED <<init, exited, open, hungup, found>> /\ pc' \in Before
    BY <1>5 DEF SetStdinRaw, Ignore, Before
  <2>2. \E a \in SetArgs : term_set_one(STI, a)
    BY <1>5 DEF SetStdinRaw, Ignore, Setter
  <2>3. KeepsSlots
    BY <2>1, <2>2, TerminalCallKeepsSlots
  <2> QED
    BY <1>0, <2>1, <2>3, KeptBefore
<1>6. CASE MakeQueue \/ WriteToPort \/ Transfer \/ LeaveLoop \/ Abort
  <2>1. UNCHANGED <<init, slot, first, exited, open, hungup, found>> /\ pc' \in Before
    BY <1>6 DEF MakeQueue, WriteToPort, Transfer, LeaveLoop, Abort, Go, Fatal, OutsideChange,
       vars, table, Before
  <2>2. KeepsSlots
    BY <2>1 DEF KeepsSlots
  <2> QED
    BY <1>0, <2>1, <2>2, KeptBefore
<1> QED
  BY <1>1, <1>2, <1>3, <1>4, <1>5, <1>6 DEF InLoop
-----------------------------------------------------------------------------
(* The calls of cleanup() before the last apply: the port stays managed if *)
(* it was, and the next settings get HUPCL as Hangup says.                 *)
LEMMA ClosingCalls ==
  ASSUME TypeInv, LifeInv, PortInv, Cleanup \/ DrainPort \/ FlushPort \/ FakeFlush \/ SetHangup
  PROVE  PortInv'
<1> USE DEF PortInv, FoundInv, HangupInv, PortRestored, HangupAsDocumented, Closing
<1>1. CASE Cleanup
  <2>1. /\ UNCHANGED <<vars, opts, open, hungup, found>>
        /\ last'.managed = Managed(TTY)
        /\ pc' \in {"exit", "drain", "flush"} /\ (pc' = "exit" => ~open)
        /\ pc = "cleanup"
    BY <1>1 DEF Cleanup
  <2>2. KeepsSlots
    BY <2>1 DEF KeepsSlots, vars
  <2>3. ~exited
    BY <2>1 DEF LifeInv
  <2>4. pc' = "exit" => ~last'.managed
    BY <2>1, <2>3
  <2> QED
    BY <2>1, <2>2, <2>4, SameSlots DEF vars, InUse
<1>2. CASE DrainPort \/ FlushPort \/ FakeFlush
  <2>1. /\ UNCHANGED <<init, exited, opts, open, hungup, found, last>>
        /\ pc' \in {"flush", "fake", "hupcl"} /\ pc \in Closing
    BY <1>2 DEF DrainPort, FlushPort, FakeFlush, Ignore, Go, vars
  <2>2. UNCHANGED vars \/ term_device_call(TTY) \/ term_fake_flush(TTY)
    BY <1>2 DEF DrainPort, FlushPort, FakeFlush, Ignore, Go
  <2>3. KeepsSlots
    BY <2>1, <2>2, PortCallKeepsSlots DEF KeepsSlots, vars
  <2> QED
    BY <2>1, <2>3, SameSlots DEF KeepsSlots, InUse
<1>3. CASE SetHangup
  <2>1. /\ UNCHANGED <<init, exited, opts, open, hungup, found, last>>
        /\ pc' = "capply" /\ pc = "hupcl"
    BY <1>3 DEF SetHangup, Ignore
  <2>2. PICK a \in SetArgs : /\ term_set_one(TTY, a)
                             /\ Managed(TTY) => nxt'[Find(TTY)] = SetHupcl(nxt[Find(TTY)], Hangup)
    BY <1>3 DEF SetHangup, Ignore, Setter
  <2>3. KeepsSlots
    BY <2>1, <2>2, PortCallKeepsSlots
  <2>4. Managed(TTY) => (Hupcl(nxt'[Find(TTY)]) <=> Hangup)
    <3> SUFFICES ASSUME Managed(TTY)
                 PROVE  Hupcl(nxt'[Find(TTY)]) <=> Hangup
      OBVIOUS
    <3>1. nxt[Find(TTY)] \in TermiosType
      BY FindSlot DEF TypeInv, TypeOK
    <3>2. Hangup \in BOOLEAN
      BY DEF Hangup
    <3> QED
      BY <2>2, <3>1, <3>2, HupclFacts
  <2>5. Hangup' = Hangup
    BY <2>1 DEF Hangup
  <2> QED
    BY <2>1, <2>3, <2>4, <2>5, SameSlots DEF KeepsSlots, InUse
<1> QED
  BY <1>1, <1>2, <1>3

(* The apply succeeds, so that HUPCL is in the device and in the original  *)
(* settings.                                                               *)
LEMMA ApplyHangupStep ==
  ASSUME CleanupWorks, TypeInv, LifeInv, PortInv, ApplyHangup
  PROVE  PortInv'
<1> DEFINE i == Find(TTY)
           got == Adopt[nxt[i]]
<1>1. /\ UNCHANGED <<init, exited, opts, open, hungup, found, last>>
      /\ pc' = (IF opts.noreset THEN "erase" ELSE "exit") /\ pc = "capply" /\ term_apply(TTY)
  BY DEF ApplyHangup, Ignore, KeepPort
<1>2. KeepsSlots
  BY <1>1, PortCallKeepsSlots
<1>3. ASSUME last.managed
      PROVE  Managed(TTY) /\ (Hupcl(orig'[i]) <=> Hangup) /\ (Hupcl(dev'[TTY]) <=> Hangup)
  <2>1. Managed(TTY) /\ (Hupcl(nxt[i]) <=> Hangup)
    BY <1>1, <1>3 DEF PortInv, HangupInv, Closing
  <2>2. i \in Slots /\ nxt[i] \in TermiosType /\ orig[i] \in TermiosType
    BY <2>1, FindSlot DEF TypeInv, TypeOK
  <2>3. rval' = 0
    BY <2>1 DEF ApplyHangup
  <2>4. dev' = [dev EXCEPT ![TTY] = got] /\ orig' = [orig EXCEPT ![i] = KeepHangup(orig[i], got)]
    BY <1>1, <2>1, <2>3 DEF term_apply, Unmanaged, Refused, Fail
  <2>5. Hupcl(got) <=> Hangup
    BY <2>1, <2>2, AdoptTyped
  <2>6. dev'[TTY] = got /\ orig'[i] = SetHupcl(orig[i], Hupcl(got))
    BY <2>2, <2>4, Descriptors DEF TypeInv, TypeOK, KeepHangup
  <2>7. Hupcl(got) \in BOOLEAN
    BY DEF Hupcl
  <2> HIDE DEF got, i
  <2>8. Hupcl(orig'[i]) <=> Hupcl(got)
    BY <2>2, <2>6, <2>7, HupclFacts
  <2> QED
    BY <2>1, <2>5, <2>6, <2>8
<1>4. Hangup' = Hangup
  BY <1>1 DEF Hangup
<1>5. Managed(TTY)' <=> Managed(TTY)
  BY <1>2, SameSlots
<1>6. Find(TTY)' = i
  BY <1>2, SameSlots
<1>7. FoundInv'
  BY <1>1, <1>2, <1>5 DEF PortInv, FoundInv, KeepsSlots, InUse
<1>8. HangupInv'
  <2> HIDE DEF i
  <2> QED
    BY <1>1, <1>3, <1>4, <1>5, <1>6 DEF HangupInv, Closing
<1> QED
  BY <1>1, <1>7, <1>8 DEF PortInv, PortRestored, HangupAsDocumented

(* The port is in one slot, so that term_erase() really forgets it.        *)
LEMMA ErasedIsGone ==
  ASSUME TypeInv, UniqueFds, ErasePort
  PROVE  ~Managed(TTY)'
<1>1. init' = init /\ term_erase(TTY)
  BY DEF ErasePort, Ignore
<1>2. CASE ~Managed(TTY)
  BY <1>1, <1>2 DEF term_erase, Unmanaged, table, Managed, SlotsOf
<1>3. CASE Managed(TTY)
  <2>1. slot' = [slot EXCEPT ![Find(TTY)] = Free] /\ Find(TTY) \in Slots /\ slot[Find(TTY)] = TTY /\ init
    BY <1>1, <1>3, FindSlot DEF term_erase, Unmanaged
  <2>2. \A j \in Slots : slot[j] = TTY => j = Find(TTY)
    BY <2>1, Descriptors DEF UniqueFds, InUse
  <2>3. \A j \in Slots : slot'[j] # TTY
    BY <2>1, <2>2, Descriptors DEF TypeInv, TypeOK
  <2> QED
    BY <2>3 DEF Managed, SlotsOf
<1> QED
  BY <1>2, <1>3

(* Without a reset, the close of the port does what HUPCL says.            *)
LEMMA ErasePortStep ==
  ASSUME TypeInv, LifeInv, PortInv, UniqueFds, ErasePort
  PROVE  PortInv'
<1>1. /\ UNCHANGED <<init, exited, opts, found, last>> /\ ~open'
      /\ pc' = "exit" /\ pc = "erase" /\ hungup' = Hupcl(dev[TTY]) /\ term_erase(TTY)
  BY DEF ErasePort, Ignore
<1>2. UNCHANGED first
  BY <1>1 DEF term_erase, Unmanaged, table
<1>3. ~Managed(TTY)'
  BY ErasedIsGone
<1>4. \A j \in Slots : InUse(j)' => slot'[j] # TTY
  BY <1>3 DEF Managed, SlotsOf, InUse
<1>5. FoundInv'
  BY <1>1, <1>3, <1>4 DEF PortInv, FoundInv, Hupcl
<1>6. last.managed => (hungup' <=> Hangup) /\ opts.noreset
  BY <1>1 DEF PortInv, HangupInv, Closing
<1>7. HangupInv'
  BY <1>1, <1>3, <1>6 DEF HangupInv, Closing, Hangup
<1> QED
  BY <1>1, <1>5, <1>7 DEF PortInv, PortRestored, HangupAsDocumented

(* What every device takes: settings it has, with HUPCL on or off.         *)
TakesHangup == \A t \in DevSettings : \A h \in BOOLEAN : Adopt[SetHupcl(t, h)] = SetHupcl(t, h)

(* exit(3): the port, if it is still managed, gets its original settings,  *)
(* with the HUPCL that cleanup() put there, and then is closed.            *)
LEMMA ExitPortStep ==
  ASSUME CleanupWorks, TakesHangup, TypeInv, LifeInv, PortInv, OrigKept, ~exited, Exit
  PROVE  PortInv'
<1> DEFINE i == Find(TTY)
<1>1. /\ UNCHANGED <<init, opts, found, last>> /\ pc' = "done" /\ exited' /\ pc = "exit"
      /\ hungup' = IF open THEN Hupcl(dev'[TTY]) ELSE hungup
  BY DEF Exit, term_exitfunc
<1>2. \A j \in Slots : InUse(j)' => slot'[j] # TTY
  BY <1>1, Descriptors DEF Exit, term_exitfunc, InUse
<1>3. FoundInv'
  <2>1. Hupcl(dev'[TTY]) \in BOOLEAN
    BY DEF Hupcl
  <2>2. hungup' \in BOOLEAN
    BY <1>1, <2>1 DEF PortInv, FoundInv
  <2>3. found' \in [FD -> DevSettings]
    BY <1>1 DEF PortInv, FoundInv
  <2> QED
    BY <1>1, <1>2, <2>2, <2>3 DEF FoundInv
<1>4. HangupInv'
  BY <1>1 DEF HangupInv, Closing
<1>5. Hangup \in BOOLEAN /\ Hangup' = Hangup
  BY <1>1 DEF Hangup
<1>6. ASSUME last.managed, Managed(TTY)
      PROVE  dev'[TTY] = SetHupcl(found[TTY], Hangup) /\ open
  <2>1. i \in Slots /\ init /\ slot[i] = TTY
    BY <1>6, FindSlot
  <2>2. open
    BY <1>6 DEF PortInv, FoundInv
  <2>3. Hupcl(orig[i]) <=> Hangup
    BY <1>1, <1>6 DEF PortInv, HangupInv, Closing
  <2>4. dev'[TTY] = Adopt[orig[i]]
    BY <1>6 DEF Exit
  <2>5. found[TTY] \in DevSettings
    BY Descriptors DEF PortInv, FoundInv
  <2> HIDE DEF i
  <2>6. InUse(i)
    BY <2>1, Descriptors DEF InUse
  <2>7. first[i] = found[TTY]
    BY <2>1, <2>6 DEF PortInv, FoundInv
  <2>8. orig[i] = SetHupcl(first[i], Hupcl(orig[i]))
    BY <2>1, <2>6 DEF OrigKept
  <2>9. Hupcl(orig[i]) = Hangup
    BY <2>3, <1>5 DEF Hupcl
  <2>10. orig[i] = SetHupcl(found[TTY], Hangup)
    BY <2>7, <2>8, <2>9
  <2> QED
    BY <1>5, <2>2, <2>4, <2>5, <2>10 DEF TakesHangup
<1>7. ASSUME last.managed
      PROVE  (hungup' <=> Hangup) /\ (~opts.noreset => dev'[TTY] = SetHupcl(found[TTY], Hangup))
  <2>1. CASE Managed(TTY)
    <3>1. found[TTY] \in TermiosType
      BY Descriptors, TermAssumption DEF PortInv, FoundInv
    <3>2. Hupcl(SetHupcl(found[TTY], Hangup)) <=> Hangup
      BY <1>5, <3>1, HupclFacts
    <3> QED
      BY <1>1, <1>6, <1>7, <2>1, <3>2
  <2>2. CASE ~Managed(TTY)
    BY <1>1, <1>7, <2>2 DEF PortInv, HangupInv
  <2> QED
    BY <2>1, <2>2
<1>8. hungup' \in BOOLEAN
  BY <1>3 DEF FoundInv
<1>9. PortRestored' /\ HangupAsDocumented'
  BY <1>1, <1>5, <1>7, <1>8 DEF PortRestored, HangupAsDocumented, Hangup
<1> QED
  BY <1>3, <1>4, <1>9 DEF PortInv

(* Every step of the process keeps the invariant of the port.              *)
LEMMA PortStep ==
  ASSUME CleanupWorks, TakesHangup, TypeInv, LifeInv, PortInv, OrigKept, UniqueFds, LifeNext
  PROVE  PortInv'
<1>1. CASE deadly_handler \/ Peer
  <2>1. UNCHANGED <<vars, pc, opts, open, hungup, found, last>>
    BY <1>1 DEF deadly_handler, Peer
  <2>2. KeepsSlots
    BY <2>1 DEF KeepsSlots, vars
  <2>3. FoundInv'
    BY <2>1, <2>2, SameSlots DEF PortInv, FoundInv, InUse, vars
  <2>4. HangupInv'
    BY <2>1, <2>2, SameSlots DEF PortInv, HangupInv, Hangup, vars
  <2> QED
    BY <2>1, <2>3, <2>4 DEF PortInv, PortRestored, HangupAsDocumented, Hangup, vars
<1> QED
  BY <1>1, ExitIsLast, StartPort, AddPortStep, BeforeStep, ClosingCalls, ApplyHangupStep, ErasePortStep,
     ExitPortStep DEF LifeNext, Startup, Ending

(* The invariant of the port holds in every behaviour of the process.      *)
LEMMA PortInvHolds ==
  ASSUME CleanupWorks, TakesHangup, Strict
  PROVE  Life => []PortInv
<1>1. LifeInit => TypeInv /\ LifeInv /\ PortInv
  <2>1. Init => TypeInv
    BY ZeroTyped, TermAssumption DEF Init, TypeInv, TypeOK, Placed
  <2>2. LifeInit => PortInv
    BY DEF LifeInit, Init, PortInv, FoundInv, HangupInv, PortRestored, HangupAsDocumented, Closing,
       InUse, Managed
  <2> QED
    BY <2>1, <2>2, LifeInvInit DEF LifeInit
<1>2. /\ TypeInv /\ LifeInv /\ PortInv /\ OrigKept /\ UniqueFds /\ [LifeNext]_lvars
      => TypeInv' /\ LifeInv' /\ PortInv'
  <2>1. ASSUME TypeInv, LifeInv, PortInv, OrigKept, UniqueFds, LifeNext
        PROVE  TypeInv' /\ LifeInv' /\ PortInv'
    BY <2>1, LifeStep, TypeInvStep, OptsStep, ExitIsLast, PortStep DEF LifeInv
  <2>2. ASSUME TypeInv, LifeInv, PortInv, UNCHANGED lvars
        PROVE  TypeInv' /\ LifeInv' /\ PortInv'
    <3>1. UNCHANGED <<vars, pc, opts, open, hungup, found, last>>
      BY <2>2 DEF lvars, process
    <3>2. TypeInv'
      BY <2>2, <3>1, TypeInvStep
    <3>3. LifeInv'
      BY <2>2, <3>1 DEF LifeInv, vars
    <3>4. KeepsSlots
      BY <3>1 DEF KeepsSlots, vars
    <3>5. FoundInv'
      BY <2>2, <3>1, <3>4, SameSlots DEF PortInv, FoundInv, InUse, vars
    <3>6. HangupInv'
      BY <2>2, <3>1, <3>4, SameSlots DEF PortInv, HangupInv, Hangup, vars
    <3>7. PortInv'
      BY <2>2, <3>1, <3>5, <3>6 DEF PortInv, PortRestored, HangupAsDocumented, Hangup, vars
    <3> QED
      BY <3>2, <3>3, <3>7
  <2> QED
    BY <2>1, <2>2
<1> QED
  BY <1>1, <1>2, LifeUsesTheLibrary, OriginalKept, EachOnce, PTL DEF Life

(* Without --noreset (or quit) the port ends as it was found, HUPCL set,   *)
(* however ppcom ends and whatever failed before.                          *)
THEOREM PortPutBack ==
  ASSUME CleanupWorks, TakesHangup, Strict
  PROVE  Life => []PortRestored
<1>1. PortInv => PortRestored
  BY DEF PortInv
<1> QED
  BY <1>1, PortInvHolds, PTL

(* Whether the close of the port clears the modem lines is what the manual *)
(* says of --noreset and --hangup, however ppcom ends.                     *)
THEOREM HangupFollowsManual ==
  ASSUME CleanupWorks, TakesHangup, Strict
  PROVE  Life => []HangupAsDocumented
<1>1. PortInv => HangupAsDocumented
  BY DEF PortInv
<1> QED
  BY <1>1, PortInvHolds, PTL

-----------------------------------------------------------------------------
(* With --noreset the port keeps its settings: what the library is about   *)
(* to apply is what the device has, whenever cleanup() may begin, so that  *)
(* the apply of cleanup() changes HUPCL and nothing else.                  *)

(* What a driver takes, it takes with HUPCL on or off.                     *)
TakesAnyHangup == \A t \in TermiosType : Adopt[t] = t =>
                    \A h \in BOOLEAN : Adopt[SetHupcl(t, h)] = SetHupcl(t, h)

(* No call fails but a flush or a drain, or the start of the library.      *)
SettingWorks == Fallible \subseteq {"flush", "drain", "atexit"}

(* Between the first apply and cleanup(), but for a command key.           *)
AtRest == {"lines2", "status", "stdin", "raw", "rawapply", "queue", "loop", "child", "cleanup"}

(* In cleanup(), before HUPCL is set.                                      *)
Emptying == {"drain", "flush", "fake", "hupcl"}

(* The settings of the port at rest, and what becomes of them.             *)
PendingInv ==
  /\ last.port \in TermiosType /\ Adopt[dev[TTY]] = dev[TTY]
  /\ pc \in AtRest /\ Managed(TTY) => nxt[Find(TTY)] = dev[TTY]
  /\ pc \in Emptying /\ Managed(TTY) => nxt[Find(TTY)] = last.port
  /\ pc \in Emptying \cup {"capply"} => Adopt[last.port] = last.port
  /\ pc = "capply" /\ Managed(TTY) => nxt[Find(TTY)] = SetHupcl(last.port, Hangup)
  /\ pc \in {"erase", "exit"} /\ last.managed => dev[TTY] = SetHupcl(last.port, Hangup)
  /\ pc = "exit" /\ last.managed /\ opts.noreset => ~Managed(TTY)
  /\ PortKept

(* A step that leaves the port alone.                                      *)
KeepsPort ==
  /\ KeepsSlots /\ dev'[TTY] = dev[TTY]
  /\ \A i \in Slots : slot[i] = TTY => nxt'[i] = nxt[i]

(* Such a step changes nothing while the port is at rest or emptied.       *)
LEMMA RestKept ==
  ASSUME TypeInv, PendingInv, KeepsPort, UNCHANGED last,
         \/ pc \in AtRest /\ pc' \in AtRest \cup {"cmdflush", "aborted"}
         \/ pc \in {"cmdflush", "lines"} /\ pc' \in {"cmdapply", "apply"}
         \/ pc \in Emptying /\ pc' \in Emptying
  PROVE  PendingInv'
<1>1. (Managed(TTY)' <=> Managed(TTY)) /\ Find(TTY)' = Find(TTY)
  BY SameSlots DEF KeepsPort
<1>2. Managed(TTY) => nxt'[Find(TTY)] = nxt[Find(TTY)]
  BY FindSlot DEF KeepsPort
<1>3. dev'[TTY] = dev[TTY]
  BY DEF KeepsPort
<1> QED
  BY <1>1, <1>2, <1>3 DEF PendingInv, AtRest, Emptying, PortKept

(* Calls for standard input leave the port alone, and so do calls to its   *)
(* device that change no setting.                                          *)
LEMMA OtherCallKeepsPort ==
  ASSUME TypeInv, UNCHANGED init,
         \/ term_add(STI) \/ term_apply(STI) \/ \E a \in SetArgs : term_set_one(STI, a)
         \/ OutsideChange(STI)
         \/ term_device_call(TTY) \/ term_refresh(TTY)
         \/ UNCHANGED <<table, first, dev>>
  PROVE  KeepsPort
<1> USE Descriptors DEF TypeInv, TypeOK, Placed, KeepsPort, KeepsSlots, Unmanaged, Refused, table
<1>1. CASE term_add(STI)
  BY <1>1, FreeSlot DEF term_add, Enter
<1>2. CASE term_apply(STI)
  BY <1>2, FindSlot DEF term_apply, NotReadBack
<1>3. ASSUME NEW a \in SetArgs, term_set_one(STI, a)
      PROVE  KeepsPort
  BY <1>3, FindSlot DEF term_set_one
<1>4. CASE OutsideChange(STI)
  BY <1>4 DEF OutsideChange
<1>5. CASE term_device_call(TTY)
  BY <1>5 DEF term_device_call
<1>6. CASE term_refresh(TTY)
  BY <1>6 DEF term_refresh
<1>7. CASE UNCHANGED <<table, first, dev>>
  BY <1>7
<1> QED
  BY <1>1, <1>2, <1>3, <1>4, <1>5, <1>6, <1>7

(* After term_apply() of the port its next settings are the device's.      *)
LEMMA ApplyMakesRest ==
  ASSUME SettingWorks, TypeInv, PendingInv, UNCHANGED <<init, last>>, term_apply(TTY),
         pc' \in AtRest
  PROVE  PendingInv'
<1> DEFINE i == Find(TTY)
           got == Adopt[nxt[i]]
<1>1. CASE ~Managed(TTY)
  <2>1. KeepsPort /\ ~Managed(TTY)'
    BY <1>1 DEF term_apply, Unmanaged, table, KeepsPort, KeepsSlots, Managed, SlotsOf
  <2> QED
    BY <2>1 DEF PendingInv, KeepsPort, AtRest, Emptying, PortKept
<1>2. CASE Managed(TTY)
  <2>1. i \in Slots /\ nxt[i] \in TermiosType
    BY <1>2, FindSlot DEF TypeInv, TypeOK
  <2>2. dev' = [dev EXCEPT ![TTY] = got] /\ nxt' = [nxt EXCEPT ![i] = got] /\ UNCHANGED <<slot, first>>
    BY <1>2 DEF term_apply, Unmanaged, MayFail, SettingWorks
  <2>3. Find(TTY)' = i
    BY <2>2 DEF Find, SlotsOf
  <2>4. Adopt[got] = got
    BY <2>1, TermAssumption
  <2> HIDE DEF got, i
  <2>5. dev'[TTY] = got /\ nxt'[i] = got
    BY <2>1, <2>2, Descriptors DEF TypeInv, TypeOK
  <2> QED
    BY <2>3, <2>4, <2>5 DEF PendingInv, AtRest, Emptying, PortKept
<1> QED
  BY <1>1, <1>2

(* The start: the port is not managed before it is added, and until it is  *)
(* applied nothing ends ppcom with the port managed.                       *)
LEMMA StartPending ==
  ASSUME SettingWorks, TypeInv, LifeInv, PortInv, PendingInv, ~exited,
         LibInit \/ OpenPort \/ AddPort \/ set_dtr_rts \/ ConfigurePort
  PROVE  PendingInv'
<1>1. CASE LibInit
  <2>1. UNCHANGED <<dev, last>> /\ pc' \in {"open", "cleanup"} /\ \A i \in Slots : slot'[i] # TTY
    BY <1>1, Descriptors DEF LibInit, OrFatal, term_lib_init, PortInv, FoundInv
  <2>2. ~Managed(TTY)'
    BY <2>1 DEF Managed, SlotsOf
  <2> QED
    BY <2>1, <2>2 DEF PendingInv, AtRest, Emptying, PortKept
<1>2. CASE OpenPort
  <2>1. UNCHANGED <<vars, last>> /\ pc = "open" /\ pc' \in {"add", "cleanup"}
    BY <1>2 DEF OpenPort, Go, Fatal
  <2>2. ~Managed(TTY)'
    BY <2>1 DEF PortInv, FoundInv, vars, Managed, SlotsOf
  <2> QED
    BY <2>1, <2>2 DEF PendingInv, AtRest, Emptying, PortKept, vars
<1>3. CASE AddPort
  <2>1. /\ UNCHANGED <<init, last>> /\ ~Managed(TTY)
        /\ term_add(TTY) \/ term_set(TTY, StartArgs)
        /\ \/ rval' = 0 /\ pc' = "lines"
           \/ rval' = -1 /\ pc' = "cleanup"
    BY <1>3 DEF AddPort, Try, OrFatal, PortInv, FoundInv
  <2>2. UNCHANGED dev
    BY <2>1 DEF term_add, term_set, Refused
  <2>3. rval' = -1 => UNCHANGED slot
    BY <2>1, StartArgsValid DEF term_add, term_set, Refused, Succeed, Fail, table
  <2>4. pc' = "cleanup" => ~Managed(TTY)'
    BY <2>1, <2>3 DEF Managed, SlotsOf
  <2> QED
    BY <2>1, <2>2, <2>4 DEF PendingInv, AtRest, Emptying, PortKept
<1>4. CASE set_dtr_rts
  <2>1. /\ UNCHANGED <<init, last>> /\ term_device_call(TTY) /\ pc \in {"lines", "lines2"}
        /\ pc' = IF pc = "lines" THEN "apply" ELSE "status"
    BY <1>4 DEF set_dtr_rts, Try, OrFatal, MayFail, SettingWorks
  <2> QED
    BY <2>1, OtherCallKeepsPort, RestKept DEF AtRest
<1>5. CASE ConfigurePort
  <2>1. /\ UNCHANGED <<init, last>> /\ term_apply(TTY) /\ pc' \in AtRest
    BY <1>5 DEF ConfigurePort, Try, OrFatal, AtRest
  <2> QED
    BY <2>1, ApplyMakesRest
<1> QED
  BY <1>1, <1>2, <1>3, <1>4, <1>5

(* The rest of main() and the loop: what a command key plans is applied    *)
(* before the loop goes on.                                                *)
LEMMA LoopPending ==
  ASSUME SettingWorks, TypeInv, LifeInv, PortInv, PendingInv,
         \/ CheckSettings \/ AddStdin \/ SetStdinRaw \/ ConfigureStdin \/ MakeQueue \/ InLoop
  PROVE  PendingInv'
<1>1. CASE CheckSettings \/ StatusKey \/ FlushForKey
  <2>1. /\ UNCHANGED <<init, last>>
        /\ UNCHANGED vars \/ term_refresh(TTY) \/ term_device_call(TTY)
        /\ \/ pc \in AtRest /\ pc' \in AtRest
           \/ pc = "cmdflush" /\ pc' = "cmdapply"
    BY <1>1 DEF CheckSettings, StatusKey, KeyTyped, FlushForKey, Ignore, Go, vars, AtRest
  <2>2. KeepsPort
    BY <2>1, OtherCallKeepsPort DEF vars, table
  <2> QED
    BY <2>1, <2>2, RestKept
<1>2. CASE AddStdin \/ SetStdinRaw \/ ConfigureStdin \/ BackToRaw \/ Transfer
  <2>1. /\ UNCHANGED <<init, last>>
        /\ \/ UNCHANGED vars \/ term_add(STI) \/ term_apply(STI) \/ OutsideChange(STI)
           \/ \E a \in SetArgs : term_set_one(STI, a)
        /\ pc \in AtRest /\ pc' \in AtRest
    BY <1>2 DEF AddStdin, SetStdinRaw, ConfigureStdin, BackToRaw, Transfer, KeyTyped, Ignore, Try, OrFatal, Go,
       Setter, OutsideChange, vars, AtRest
  <2>2. KeepsPort
    BY <2>1, OtherCallKeepsPort DEF vars, table
  <2> QED
    BY <2>1, <2>2, RestKept
<1>3. CASE MakeQueue \/ WriteToPort \/ LeaveLoop \/ Abort
  <2>1. UNCHANGED <<vars, last>> /\ pc \in AtRest /\ pc' \in AtRest \cup {"aborted"}
    BY <1>3 DEF MakeQueue, WriteToPort, LeaveLoop, Abort, Go, Fatal, AtRest
  <2>2. KeepsPort
    BY <2>1, OtherCallKeepsPort DEF vars, table
  <2> QED
    BY <2>1, <2>2, RestKept
<1>4. CASE SettingKey
  <2>1. UNCHANGED <<init, last>> /\ pc = "loop" /\ pc' = "cmdflush"
    BY <1>4 DEF SettingKey, KeyTyped, Ignore
  <2>2. \E a \in SetArgs : term_set_one(TTY, a)
    BY <1>4 DEF SettingKey, Ignore, Setter
  <2>3. UNCHANGED dev
    BY <2>2 DEF term_set_one, Unmanaged, Refused
  <2> QED
    BY <2>1, <2>3 DEF PendingInv, AtRest, Emptying, PortKept
<1>5. CASE ApplyForKey
  <2>1. UNCHANGED <<init, last>> /\ term_apply(TTY) /\ pc' \in AtRest
    BY <1>5 DEF ApplyForKey, Ignore, AtRest
  <2> QED
    BY <2>1, ApplyMakesRest
<1> QED
  BY <1>1, <1>2, <1>3, <1>4, <1>5 DEF InLoop

(* cleanup(): what is emptied on the way is put back by the apply, which   *)
(* sets HUPCL.                                                             *)
LEMMA CleanupPending ==
  ASSUME TypeInv, LifeInv, PortInv, PendingInv,
         Cleanup \/ DrainPort \/ FlushPort \/ FakeFlush \/ SetHangup
  PROVE  PendingInv'
<1>1. CASE Cleanup
  <2>1. /\ UNCHANGED <<vars, opts>> /\ last' = [port |-> dev[TTY], managed |-> Managed(TTY)]
        /\ pc = "cleanup" /\ pc' \in {"exit", "drain", "flush"}
        /\ pc' = "exit" => ~Managed(TTY)
    BY <1>1 DEF Cleanup, PortInv, FoundInv, LifeInv
  <2>2. dev[TTY] \in TermiosType
    BY Descriptors DEF TypeInv, TypeOK
  <2>3. (Managed(TTY)' <=> Managed(TTY)) /\ Find(TTY)' = Find(TTY) /\ UNCHANGED <<nxt, dev>>
    BY <2>1 DEF vars, Managed, Find, SlotsOf
  <2> QED
    BY <2>1, <2>2, <2>3 DEF PendingInv, AtRest, Emptying, PortKept
<1>2. CASE DrainPort \/ FlushPort
  <2>1. /\ UNCHANGED <<init, last>> /\ term_device_call(TTY)
        /\ pc \in Emptying /\ pc' \in Emptying
    BY <1>2 DEF DrainPort, FlushPort, Ignore, Emptying
  <2> QED
    BY <2>1, OtherCallKeepsPort, RestKept
<1>3. CASE FakeFlush
  <2>1. /\ UNCHANGED <<init, last>> /\ pc \in Emptying /\ pc' = "hupcl"
        /\ UNCHANGED vars \/ term_fake_flush(TTY)
    BY <1>3 DEF FakeFlush, Ignore, Go, Emptying, vars
  <2>2. UNCHANGED <<slot, nxt>>
    BY <2>1 DEF term_fake_flush, Unmanaged, Refused, table, vars
  <2>3. (Managed(TTY)' <=> Managed(TTY)) /\ Find(TTY)' = Find(TTY)
    BY <2>1, <2>2 DEF Managed, Find, SlotsOf
  <2>4. Adopt[dev'[TTY]] = dev'[TTY]
    <3>1. CASE UNCHANGED dev
      BY <3>1 DEF PendingInv
    <3>2. CASE ~UNCHANGED dev
      <4>1. Managed(TTY) /\ term_fake_flush(TTY)
        BY <2>1, <3>2 DEF term_fake_flush, Unmanaged, vars
      <4>2. Find(TTY) \in Slots /\ dev[TTY] \in TermiosType
        BY <4>1, FindSlot, Descriptors DEF TypeInv, TypeOK
      <4>3. curr'[Find(TTY)] = dev[TTY]
        BY <3>2, <4>1, <4>2 DEF term_fake_flush, Unmanaged, Refused, TypeInv, TypeOK
      <4>4. SetFlow(dev[TTY], "FC_NONE") \in TermiosType
        BY <4>2, SettersTyped DEF Flow
      <4>5. \/ dev' = [dev EXCEPT ![TTY] = Adopt[dev[TTY]]]
            \/ dev' = [dev EXCEPT ![TTY] = Adopt[SetFlow(dev[TTY], "FC_NONE")]]
        BY <3>2, <4>1, <4>3 DEF term_fake_flush, Unmanaged, Refused
      <4> QED
        BY <4>2, <4>4, <4>5, Descriptors, TermAssumption DEF TypeInv, TypeOK
    <3> QED
      BY <3>1, <3>2
  <2> QED
    BY <2>1, <2>2, <2>3, <2>4 DEF PendingInv, AtRest, Emptying, PortKept
<1>4. CASE SetHangup
  <2>1. UNCHANGED <<init, opts, last>> /\ pc = "hupcl" /\ pc' = "capply"
    BY <1>4 DEF SetHangup, Ignore
  <2>2. PICK a \in SetArgs : /\ term_set_one(TTY, a)
                             /\ Managed(TTY) => nxt'[Find(TTY)] = SetHupcl(nxt[Find(TTY)], Hangup)
    BY <1>4 DEF SetHangup, Ignore, Setter
  <2>3. UNCHANGED <<slot, dev>>
    BY <2>2 DEF term_set_one, Unmanaged, Refused, table
  <2>4. (Managed(TTY)' <=> Managed(TTY)) /\ Find(TTY)' = Find(TTY)
    BY <2>1, <2>3 DEF Managed, Find, SlotsOf
  <2>5. Hangup' = Hangup
    BY <2>1 DEF Hangup
  <2> QED
    BY <2>1, <2>2, <2>3, <2>4, <2>5 DEF PendingInv, AtRest, Emptying, PortKept
<1> QED
  BY <1>1, <1>2, <1>3, <1>4

(* The apply of cleanup() succeeds, the port leaves the table, exit(3)     *)
(* finds nothing to put back.                                              *)
LEMMA EndPending ==
  ASSUME CleanupWorks, TakesAnyHangup, TypeInv, LifeInv, PortInv, PendingInv, UniqueFds,
         (ApplyHangup \/ ErasePort) \/ (Exit /\ ~exited)
  PROVE  PendingInv'
<1> DEFINE i == Find(TTY)
<1>1. Hangup \in BOOLEAN
  BY DEF Hangup
<1>2. CASE ApplyHangup
  <2>1. /\ UNCHANGED <<init, opts, last>> /\ pc = "capply" /\ term_apply(TTY)
        /\ pc' = IF opts.noreset THEN "erase" ELSE "exit"
        /\ Managed(TTY) => rval' = 0
    BY <1>2 DEF ApplyHangup, Ignore, KeepPort
  <2>2. CASE ~Managed(TTY)
    <3>1. UNCHANGED dev /\ ~last.managed
      BY <2>1, <2>2 DEF term_apply, Unmanaged, PortInv, HangupInv, Closing
    <3> QED
      BY <2>1, <3>1 DEF PendingInv, AtRest, Emptying, PortKept
  <2>3. CASE Managed(TTY)
    <3>1. dev' = [dev EXCEPT ![TTY] = Adopt[nxt[i]]]
      BY <2>1, <2>3 DEF term_apply, Unmanaged, Refused, Fail
    <3>2. nxt[i] = SetHupcl(last.port, Hangup) /\ Adopt[last.port] = last.port /\ last.port \in TermiosType
      BY <2>1, <2>3 DEF PendingInv
    <3>3. Adopt[nxt[i]] = nxt[i]
      BY <1>1, <3>2 DEF TakesAnyHangup
    <3> HIDE DEF i
    <3>4. dev'[TTY] = SetHupcl(last.port, Hangup) /\ Adopt[dev'[TTY]] = dev'[TTY]
      BY <3>1, <3>2, <3>3, Descriptors DEF TypeInv, TypeOK
    <3>5. Hangup' = Hangup
      BY <2>1 DEF Hangup
    <3> QED
      BY <2>1, <3>4, <3>5 DEF PendingInv, AtRest, Emptying, PortKept
  <2> QED
    BY <2>2, <2>3
<1>3. CASE ErasePort
  <2>1. UNCHANGED <<init, opts, last, dev>> /\ pc = "erase" /\ pc' = "exit" /\ term_erase(TTY)
    BY <1>3 DEF ErasePort, Ignore, term_erase, Unmanaged
  <2>2. ~Managed(TTY)'
    BY <1>3, ErasedIsGone
  <2>3. Hangup' = Hangup
    BY <2>1 DEF Hangup
  <2> QED
    BY <2>1, <2>2, <2>3 DEF PendingInv, AtRest, Emptying, PortKept
<1>4. CASE Exit /\ ~exited
  <2>1. UNCHANGED <<init, opts, last>> /\ pc = "exit" /\ pc' = "done" /\ term_exitfunc
    BY <1>4 DEF Exit, term_exitfunc
  <2>2. ASSUME ~Managed(TTY) PROVE dev'[TTY] = dev[TTY]
    BY <2>1, <2>2, Descriptors DEF term_exitfunc, Managed
  <2>3. ASSUME Managed(TTY) PROVE Adopt[dev'[TTY]] = dev'[TTY]
    <3>1. dev'[TTY] = Adopt[orig[i]]
      BY <1>4, <2>3 DEF Exit
    <3>2. orig[i] \in TermiosType
      BY <2>3, FindSlot DEF TypeInv, TypeOK
    <3> QED
      BY <3>1, <3>2, TermAssumption
  <2>4. Hangup' = Hangup
    BY <2>1 DEF Hangup
  <2>5. PortKept'
    BY <2>1, <2>2, <2>4 DEF PendingInv, PortKept
  <2>6. Adopt[dev'[TTY]] = dev'[TTY]
    BY <2>2, <2>3 DEF PendingInv
  <2> QED
    BY <2>1, <2>5, <2>6 DEF PendingInv, AtRest, Emptying
<1> QED
  BY <1>2, <1>3, <1>4

(* Every step of the process keeps the settings pending as they are asked. *)
LEMMA PendingStep ==
  ASSUME CleanupWorks, TakesAnyHangup, SettingWorks, TypeInv, LifeInv, PortInv, PendingInv, UniqueFds,
         LifeNext
  PROVE  PendingInv'
<1>1. CASE deadly_handler \/ Peer
  <2>1. UNCHANGED <<vars, pc, opts, last>>
    BY <1>1 DEF deadly_handler, Peer
  <2> QED
    BY <2>1 DEF PendingInv, PortKept, Hangup, Managed, Find, SlotsOf, vars
<1> QED
  BY <1>1, ExitIsLast, StartPending, LoopPending, CleanupPending, EndPending DEF LifeNext, Startup, Ending

(* With --noreset (or quit) the port keeps the settings it had when        *)
(* cleanup() began, but for HUPCL: nothing is pending then that its apply  *)
(* would bring into force, and exit(3) does not know the port any more.    *)
THEOREM PortKeptByNoreset ==
  ASSUME CleanupWorks, TakesAnyHangup, SettingWorks, Strict
  PROVE  Life => []PortKept
<1>1. TakesHangup
  BY TermAssumption DEF TakesAnyHangup, TakesHangup
<1>2. LifeInit => TypeInv /\ LifeInv /\ PendingInv
  <2>1. Init => TypeInv
    BY ZeroTyped, TermAssumption DEF Init, TypeInv, TypeOK, Placed
  <2>2. LifeInit => PendingInv
    BY Descriptors, TermAssumption DEF LifeInit, Init, PendingInv, AtRest, Emptying, PortKept
  <2> QED
    BY <2>1, <2>2, LifeInvInit DEF LifeInit
<1>3. /\ TypeInv /\ LifeInv /\ PortInv /\ PendingInv /\ UniqueFds /\ [LifeNext]_lvars
      => TypeInv' /\ LifeInv' /\ PendingInv'
  <2>1. ASSUME TypeInv, LifeInv, PortInv, PendingInv, UniqueFds, LifeNext
        PROVE  TypeInv' /\ LifeInv' /\ PendingInv'
    BY <2>1, LifeStep, TypeInvStep, OptsStep, ExitIsLast, PendingStep DEF LifeInv
  <2>2. ASSUME TypeInv, LifeInv, PendingInv, UNCHANGED lvars
        PROVE  TypeInv' /\ LifeInv' /\ PendingInv'
    <3>1. UNCHANGED <<vars, pc, opts, last>>
      BY <2>2 DEF lvars, process
    <3>2. TypeInv'
      BY <2>2, <3>1, TypeInvStep
    <3>3. LifeInv'
      BY <2>2, <3>1 DEF LifeInv, vars
    <3>4. PendingInv'
      BY <2>2, <3>1 DEF PendingInv, PortKept, Hangup, Managed, Find, SlotsOf, vars
    <3> QED
      BY <3>2, <3>3, <3>4
  <2> QED
    BY <2>1, <2>2
<1>4. PendingInv => PortKept
  BY DEF PendingInv
<1> QED
  BY <1>1, <1>2, <1>3, <1>4, PortInvHolds, LifeUsesTheLibrary, EachOnce, PTL DEF Life
============================================================================
