--------------------------- MODULE CommandsProofs ---------------------------
(***************************************************************************)
(* Proofs about Commands, for any table of rates, any port, any options,   *)
(* any calls that fail and any number of keys and changes by others.       *)
(***************************************************************************)
EXTENDS Commands, TermProofs

(* The values a key or an option may ask of a setting.                     *)
Value(f) == CASE f = "baud"   -> Speed
              [] f = "parity" -> Parity
              [] f = "bits"   -> DataBits
              [] f = "stop"   -> StopBits
              [] f = "flow"   -> Flow

AskedType == [baud : Speed \ {0}, parity : Parity, bits : DataBits, stop : StopBits, flow : Flow]

(* The rate 0, which hangs up, is not asked for by an option or set by     *)
(* others, and no port refuses to change its flow control.                 *)
PortAssumption == /\ Devices \subseteq {t \in TermiosType : t.speed # 0}
                  /\ Asked \subseteq AskedType
                  /\ Wishes \subseteq LineWish
                  /\ Stubborn \subseteq Setting \ {"flow"}

-----------------------------------------------------------------------------
(* A setter moves its own setting and no other.                            *)
LEMMA SetMovesOne ==
  ASSUME NEW t \in TermiosType, NEW f \in Setting, NEW v \in Value(f)
  PROVE  /\ Set(t, f, v) \in TermiosType
         /\ Reading(Set(t, f, v))[f] = v
         /\ \A g \in Setting \ {f} : Reading(Set(t, f, v))[g] = Reading(t)[g]
<1>1. Set(t, f, v) \in TermiosType /\ SameReport(t, Set(t, f, v), f)
  BY SettersTyped, SettersReport DEF Set, Value, Setting
<1>2. Reading(Set(t, f, v))[f] = v
  BY SettersWrite, ReadsItsOwn DEF Set, Value, Setting, Reading
<1>3. \A g \in Setting \ {f} : Reading(Set(t, f, v))[g] = Reading(t)[g]
  BY <1>1 DEF SameReport, Setting, Reading
<1> QED
  BY <1>1, <1>2, <1>3

(* term_set() at the start: every setting is as it was asked for.          *)
LEMMA StartReads ==
  ASSUME opts \in AskedType, NEW t \in TermiosType
  PROVE  LET u == SetAll(t, StartArgs)
         IN  u \in TermiosType /\ \A f \in Setting : Reading(u)[f] = opts[f]
<1> DEFINE u == SetAll(t, StartArgs)
<1>1. StartArgs \in RawArgs /\ \A f \in Setting : StartArgs[f] = opts[f]
  BY DEF StartArgs, RawArgs, AskedType, Setting
<1>2. Report(u) = StartArgs
  BY <1>1, ReadsAllBack
<1>3. u \in TermiosType
  BY SetAllTyped
<1> HIDE DEF u
<1>4. \A f \in Setting : Reading(u)[f] = Report(u)[f]
  BY ReportFields DEF Reading, Setting
<1> QED
  BY <1>1, <1>2, <1>3, <1>4 DEF u

(* What a port makes of the settings it is given.                          *)
KeepsOf(u, f) == IF f \in refuses THEN Set(u, f, Reading(device)[f]) ELSE u

LEMMA KeepsRead ==
  ASSUME device \in TermiosType, NEW u \in TermiosType, NEW f \in Setting, f \in refuses => f # "flow"
  PROVE  /\ KeepsOf(u, f) \in TermiosType
         /\ f # "baud" => Reading(KeepsOf(u, f))["baud"] = Reading(u)["baud"]
         /\ f = "baud" => Reading(KeepsOf(u, f))["baud"] = (IF "baud" \in refuses THEN device.speed ELSE u.speed)
<1>1. f # "flow" => Reading(device)[f] \in Value(f)
  BY DEF Reading, Value, Setting, TermiosType, GetParity, Parity, DataBits, GetStopBits, StopBits
<1>2. CASE f \in refuses
  <2>1. KeepsOf(u, f) = Set(u, f, Reading(device)[f])
    BY <1>2 DEF KeepsOf
  <2>2. /\ KeepsOf(u, f) \in TermiosType
        /\ Reading(KeepsOf(u, f))[f] = Reading(device)[f]
        /\ \A g \in Setting \ {f} : Reading(KeepsOf(u, f))[g] = Reading(u)[g]
    BY <1>1, <1>2, <2>1, SetMovesOne
  <2>3. Reading(device)["baud"] = device.speed /\ "baud" \in Setting
    BY DEF Reading, Setting
  <2> QED
    BY <1>2, <2>2, <2>3
<1>3. CASE f \notin refuses
  BY <1>3 DEF KeepsOf, Reading
<1> QED
  BY <1>2, <1>3

LEMMA TakesRead ==
  ASSUME device \in TermiosType, NEW t \in TermiosType, refuses \subseteq Setting \ {"flow"}
  PROVE  /\ Takes(t) \in TermiosType
         /\ Takes(t).speed = IF "baud" \in refuses THEN device.speed ELSE t.speed
<1> DEFINE t1 == KeepsOf(t, "baud")
           t2 == KeepsOf(t1, "parity")
           t3 == KeepsOf(t2, "bits")
           t4 == KeepsOf(t3, "stop")
           t5 == KeepsOf(t4, "flow")
           rate == IF "baud" \in refuses THEN device.speed ELSE t.speed
<1>0. Takes(t) = t5
  BY DEF Takes, KeepsOf
<1>1. t1 \in TermiosType /\ Reading(t1)["baud"] = rate
  BY KeepsRead DEF Setting
<1> HIDE DEF t1, rate
<1>2. t2 \in TermiosType /\ Reading(t2)["baud"] = rate
  BY <1>1, KeepsRead DEF Setting
<1> HIDE DEF t2
<1>3. t3 \in TermiosType /\ Reading(t3)["baud"] = rate
  BY <1>2, KeepsRead DEF Setting
<1> HIDE DEF t3
<1>4. t4 \in TermiosType /\ Reading(t4)["baud"] = rate
  BY <1>3, KeepsRead DEF Setting
<1> HIDE DEF t4
<1>5. t5 \in TermiosType /\ Reading(t5)["baud"] = rate
  BY <1>4, KeepsRead DEF Setting
<1> QED
  BY <1>0, <1>5 DEF Reading, rate

-----------------------------------------------------------------------------
(* The invariant.                                                          *)
PortTypeOK == /\ opts \in AskedType /\ wish \in LineWish
              /\ device \in TermiosType /\ nexttermios \in TermiosType /\ currtermios \in TermiosType
              /\ up \subseteq Lines /\ line \subseteq Lines
              /\ refuses \subseteq Setting \ {"flow"}
              /\ told \subseteq Setting

(* Nothing hangs the line up.                                              *)
RateInv == device.speed # 0 /\ nexttermios.speed # 0

(* What was asked for is pending in the library, and on the port if it was *)
(* applied.                                                                *)
SettingsInv == /\ \A f \in told : Reading(nexttermios)[f] = opts[f]
               /\ pc \in {"lines2", "run"} /\ inforce => \A f \in told : Reading(device)[f] = opts[f]

(* Once they were set again, the lines are as shown, but for those lost.   *)
LinesInv == pc = "run" => Changed(up, line) \subseteq lost

(* The rate that the size of a write goes by.                              *)
SizeInv == /\ pc = "lines2" => currtermios.speed = device.speed /\ nexttermios.speed = device.speed
           /\ pc = "run" /\ "rate" \notin lost => sized = device.speed /\ nexttermios.speed = device.speed

KeyInv == PortTypeOK /\ RateInv /\ SettingsInv /\ LinesInv /\ SizeInv

-----------------------------------------------------------------------------
LEMMA KeysStart == ASSUME PortAssumption, KeyInit PROVE KeyInv
<1>1. /\ opts \in AskedType /\ wish \in LineWish /\ device \in TermiosType /\ currtermios = device
      /\ device.speed # 0 /\ up = Lines /\ line \subseteq Lines /\ refuses \subseteq Setting \ {"flow"}
      /\ pc = "lines"
  BY DEF PortAssumption, KeyInit
<1>2. CASE told = {} /\ nexttermios = device
  BY <1>1, <1>2 DEF KeyInv, PortTypeOK, RateInv, SettingsInv, LinesInv, SizeInv
<1>3. CASE told = Setting /\ nexttermios = SetAll(device, StartArgs)
  <2>1. nexttermios \in TermiosType /\ \A f \in Setting : Reading(nexttermios)[f] = opts[f]
    BY <1>1, <1>3, StartReads
  <2>2. nexttermios.speed # 0
    <3>1. Reading(nexttermios)["baud"] = opts["baud"] /\ Reading(nexttermios)["baud"] = nexttermios.speed
      BY <2>1 DEF Setting, Reading
    <3> QED
      BY <1>1, <3>1 DEF AskedType
  <2> QED
    BY <1>1, <1>3, <2>1, <2>2 DEF KeyInv, PortTypeOK, RateInv, SettingsInv, LinesInv, SizeInv
<1> QED
  BY <1>2, <1>3 DEF KeyInit

(* What term_apply() does, however it ends: o is what was asked for.       *)
LEMMA Applies ==
  ASSUME KeyInv, NEW o \in AskedType, NEW t \in TermiosType, t.speed # 0, NEW F \in SUBSET Setting,
         \A f \in told \cup F : Reading(t)[f] = o[f], ApplyTo(t, F), up' = up
  PROVE  /\ device' \in TermiosType /\ nexttermios' \in TermiosType /\ currtermios' \in TermiosType
         /\ told' \subseteq Setting /\ line' \subseteq Lines
         /\ device'.speed # 0 /\ nexttermios'.speed # 0
         /\ \A f \in told' : Reading(nexttermios')[f] = o[f]
         /\ inforce' => \A f \in told' : Reading(device')[f] = o[f]
         /\ pc = "run" /\ Changed(up, line) \subseteq lost => Changed(up', line') \subseteq lost'
         /\ inforce' => nexttermios' = device' /\ currtermios' = device'
         /\ "rate" \notin lost' => inforce' \/ ("baud" \notin F /\ "rate" \notin lost)
         /\ "baud" \notin F /\ "rate" \notin lost' => "rate" \notin lost
         /\ "baud" \notin F /\ t.speed = device.speed =>
              device'.speed = device.speed /\ nexttermios'.speed = device.speed
<1> DEFINE took == Takes(t)
           taken == {f \in Setting : Reading(took)[f] = Reading(t)[f]}
           rate == IF "baud" \in F THEN {"rate"} ELSE {}
           moved == IF pc # "run" THEN {} ELSE Changed(line, line')
<1>1. /\ took \in TermiosType /\ took.speed # 0
      /\ t.speed = device.speed => took.speed = device.speed
  BY TakesRead DEF KeyInv, PortTypeOK, RateInv
<1>2. told \subseteq Setting /\ line \subseteq Lines /\ up \subseteq Lines /\ RateInv
  BY DEF KeyInv, PortTypeOK
<1>3. /\ device \in TermiosType /\ nexttermios \in TermiosType /\ currtermios \in TermiosType
  BY DEF KeyInv, PortTypeOK
<1>4. CASE /\ nexttermios' = t /\ told' = told \cup F /\ lost' = lost \cup rate /\ ~inforce'
           /\ currtermios' = currtermios /\ device' = device /\ line' = line
  BY <1>2, <1>3, <1>4 DEF RateInv
<1>5. CASE /\ device' = took /\ line' \in LinesAfter(took) /\ told' = (told \cup F) \cap taken
           /\ \/ /\ nexttermios' = took /\ currtermios' = took
                 /\ lost' = (lost \ rate) \cup moved /\ inforce'
              \/ /\ nexttermios' = t /\ currtermios' = currtermios
                 /\ lost' = lost \cup rate \cup moved /\ ~inforce'
  <2>1. line' \subseteq Lines
    BY <1>1, <1>2, <1>5 DEF LinesAfter
  <2>2. \A f \in told' : Reading(took)[f] = o[f] /\ Reading(t)[f] = o[f]
    BY <1>5
  <2>3. "rate" \notin Lines /\ moved \subseteq Lines
    BY <1>2, <2>1 DEF Lines, Changed
  <2>4. pc = "run" /\ Changed(up, line) \subseteq lost => Changed(up, line') \subseteq lost'
    BY <1>2, <1>5, <2>1, <2>3 DEF Changed
  <2>5. told' \subseteq Setting
    BY <1>2, <1>5
  <2>6. "rate" \in lost => "rate" \in lost' \/ (inforce' /\ "baud" \in F)
    BY <1>5
  <2>7. "baud" \in F /\ ~inforce' => "rate" \in lost'
    BY <1>5
  <2> HIDE DEF took, taken, rate, moved
  <2> QED
    BY <1>1, <1>3, <1>5, <2>1, <2>2, <2>4, <2>5, <2>6, <2>7
<1> QED
  BY <1>1, <1>4, <1>5 DEF ApplyTo, Pending

-----------------------------------------------------------------------------
(* Every step keeps the invariant.                                         *)
LEMMA LinesStep ==
  ASSUME KeyInv, NEW next \in {"apply", "run"}, set_dtr_rts(next),
         next = "run" => pc = "lines2" /\ sized' = currtermios.speed,
         next = "apply" => pc = "lines"
  PROVE  KeyInv'
<1>1. UNCHANGED <<keys, wish, opts, told, nexttermios, currtermios, device, refuses, inforce>>
  BY DEF set_dtr_rts
<1>2. /\ up \subseteq Lines /\ line \subseteq Lines /\ wish \in LineWish
  BY DEF KeyInv, PortTypeOK
<1>3. Wished(up) \subseteq Lines /\ Wished(line) \subseteq Lines
  BY <1>2 DEF Wished
<1>4. up' \subseteq Lines /\ line' \subseteq Lines
  BY <1>2, <1>3 DEF set_dtr_rts
<1>5. PortTypeOK'
  BY <1>1, <1>4 DEF KeyInv, PortTypeOK
<1>6. RateInv' /\ SettingsInv' /\ SizeInv'
  <2>1. pc' \in {next, "fatal"}
    BY DEF set_dtr_rts
  <2> QED
    BY <1>1, <2>1 DEF KeyInv, RateInv, SettingsInv, SizeInv
<1>7. LinesInv'
  <2>1. CASE line' = Wished(line) /\ up' = line'
    BY <2>1 DEF LinesInv, Changed
  <2>2. CASE /\ line' = Wished(line) /\ up' = Wished(up)
             /\ lost' = lost \cup {l \in Lines : wish[l] = "leave"}
    <3>1. \A l \in Lines : wish[l] \in {"leave", "raise", "lower"}
      BY <1>2 DEF LineWish
    <3>2. \A l \in Changed(up', line') : wish[l] = "leave" /\ l \in Lines
      BY <1>2, <2>2, <3>1 DEF Changed, Wished
    <3> QED
      BY <2>2, <3>2 DEF LinesInv
  <2>3. CASE pc' = "fatal"
    BY <2>3 DEF LinesInv
  <2> QED
    BY <2>1, <2>2, <2>3 DEF set_dtr_rts
<1> QED
  BY <1>5, <1>6, <1>7 DEF KeyInv

LEMMA ConfigureStep == ASSUME KeyInv, Configure PROVE KeyInv'
<1>1. /\ pc = "apply" /\ ApplyTo(nexttermios, told) /\ up' = up
      /\ pc' = IF inforce' THEN "lines2" ELSE "fatal"
      /\ UNCHANGED <<wish, opts, refuses>>
  BY DEF Configure, Configured
<1>2. /\ opts \in AskedType /\ nexttermios \in TermiosType /\ nexttermios.speed # 0
      /\ told \in SUBSET Setting /\ \A f \in told \cup told : Reading(nexttermios)[f] = opts[f]
  BY DEF KeyInv, PortTypeOK, RateInv, SettingsInv
<1>3. /\ device' \in TermiosType /\ nexttermios' \in TermiosType /\ currtermios' \in TermiosType
      /\ told' \subseteq Setting /\ line' \subseteq Lines
      /\ device'.speed # 0 /\ nexttermios'.speed # 0
      /\ \A f \in told' : Reading(nexttermios')[f] = opts[f]
      /\ inforce' => \A f \in told' : Reading(device')[f] = opts[f]
      /\ inforce' => nexttermios' = device' /\ currtermios' = device'
  BY <1>1, <1>2, Applies
<1> QED
  BY <1>1, <1>3 DEF KeyInv, PortTypeOK, RateInv, SettingsInv, LinesInv, SizeInv

LEMMA ChangeStep ==
  ASSUME KeyInv, NEW f \in Setting, NEW v \in Value(f), f = "baud" => v # 0, Change(f, v)
  PROVE  KeyInv'
<1> DEFINE t == Set(nexttermios, f, v)
<1>1. /\ pc = "run" /\ pc' = "run" /\ ApplyTo(t, {f}) /\ up' = up
      /\ opts' = [opts EXCEPT ![f] = v] /\ UNCHANGED <<wish, refuses>>
      /\ sized' = IF f = "baud" THEN currtermios'.speed ELSE sized
  BY DEF Change, Key, RateReported
<1>2. /\ opts \in AskedType /\ nexttermios \in TermiosType /\ told \subseteq Setting
      /\ nexttermios.speed # 0 /\ \A g \in told : Reading(nexttermios)[g] = opts[g]
  BY DEF KeyInv, PortTypeOK, RateInv, SettingsInv
<1>3. opts' \in AskedType
  <2>1. CASE f = "baud"    BY <2>1, <1>1, <1>2 DEF AskedType, Value
  <2>2. CASE f = "parity"  BY <2>2, <1>1, <1>2 DEF AskedType, Value
  <2>3. CASE f = "bits"    BY <2>3, <1>1, <1>2 DEF AskedType, Value
  <2>4. CASE f = "stop"    BY <2>4, <1>1, <1>2 DEF AskedType, Value
  <2>5. CASE f = "flow"    BY <2>5, <1>1, <1>2 DEF AskedType, Value
  <2> QED
    BY <2>1, <2>2, <2>3, <2>4, <2>5 DEF Setting
<1>4. /\ opts'[f] = v /\ \A g \in Setting \ {f} : opts'[g] = opts[g]
  BY <1>1, <1>2 DEF AskedType, Setting
<1>5. /\ t \in TermiosType /\ Reading(t)[f] = v
      /\ \A g \in Setting \ {f} : Reading(t)[g] = Reading(nexttermios)[g]
  BY <1>2, SetMovesOne
<1>6. \A u : Reading(u)["baud"] = u.speed
  BY DEF Reading
<1>7. t.speed # 0 /\ (f # "baud" => t.speed = nexttermios.speed)
  <2>1. CASE f = "baud"
    BY <1>5, <1>6, <2>1
  <2>2. CASE f # "baud"
    BY <1>2, <1>5, <1>6, <2>2 DEF Setting
  <2> QED
    BY <2>1, <2>2
<1> HIDE DEF t
<1>8. \A g \in told \cup {f} : Reading(t)[g] = opts'[g]
  BY <1>2, <1>4, <1>5
<1>9. /\ device' \in TermiosType /\ nexttermios' \in TermiosType /\ currtermios' \in TermiosType
      /\ told' \subseteq Setting /\ line' \subseteq Lines
      /\ device'.speed # 0 /\ nexttermios'.speed # 0
      /\ \A g \in told' : Reading(nexttermios')[g] = opts'[g]
      /\ inforce' => \A g \in told' : Reading(device')[g] = opts'[g]
      /\ Changed(up, line) \subseteq lost => Changed(up', line') \subseteq lost'
      /\ inforce' => nexttermios' = device' /\ currtermios' = device'
      /\ "rate" \notin lost' => inforce' \/ (f # "baud" /\ "rate" \notin lost)
      /\ f # "baud" /\ "rate" \notin lost' => "rate" \notin lost
      /\ f # "baud" /\ t.speed = device.speed =>
           device'.speed = device.speed /\ nexttermios'.speed = device.speed
  <2>1. {f} \in SUBSET Setting
    OBVIOUS
  <2>2. /\ device' \in TermiosType /\ nexttermios' \in TermiosType /\ currtermios' \in TermiosType
        /\ told' \subseteq Setting /\ line' \subseteq Lines
        /\ device'.speed # 0 /\ nexttermios'.speed # 0
        /\ \A g \in told' : Reading(nexttermios')[g] = opts'[g]
        /\ inforce' => \A g \in told' : Reading(device')[g] = opts'[g]
        /\ Changed(up, line) \subseteq lost => Changed(up', line') \subseteq lost'
        /\ inforce' => nexttermios' = device' /\ currtermios' = device'
    BY <1>1, <1>3, <1>5, <1>7, <1>8, <2>1, Applies
  <2>3. /\ "rate" \notin lost' => inforce' \/ ("baud" \notin {f} /\ "rate" \notin lost)
        /\ "baud" \notin {f} /\ "rate" \notin lost' => "rate" \notin lost
        /\ "baud" \notin {f} /\ t.speed = device.speed =>
             device'.speed = device.speed /\ nexttermios'.speed = device.speed
    BY <1>1, <1>3, <1>5, <1>7, <1>8, <2>1, Applies
  <2> QED
    BY <2>2, <2>3
<1>10. PortTypeOK' /\ RateInv' /\ SettingsInv' /\ LinesInv'
  BY <1>1, <1>3, <1>9 DEF KeyInv, PortTypeOK, RateInv, SettingsInv, LinesInv
<1>11. SizeInv'
  <2>1. CASE f = "baud"
    BY <1>1, <1>9, <2>1 DEF SizeInv
  <2>2. CASE f # "baud"
    <3>1. "rate" \notin lost => sized = device.speed /\ nexttermios.speed = device.speed
      BY <1>1 DEF KeyInv, SizeInv
    <3> QED
      BY <1>1, <1>7, <1>9, <2>2, <3>1 DEF SizeInv
  <2> QED
    BY <2>1, <2>2
<1> QED
  BY <1>10, <1>11 DEF KeyInv

(* The values that the keys step to.                                       *)
LEMMA NextRates ==
  ASSUME NEW b \in Speed \ {0}
  PROVE  term_baud_up(b) \in Speed \ {0} /\ baud_down(b) \in Speed \ {0}
<1>1. Speed \subseteq Nat /\ b \in Nat
  BY SpeedAssumption
<1>2. term_baud_up(b) \in Speed \ {0}
  <2> DEFINE above == {s \in Speed : s > b}
  <2>1. CASE above = {}
    BY <2>1 DEF term_baud_up
  <2>2. CASE above # {}
    <3>1. above \in SUBSET Nat
      BY <1>1
    <3>2. \E s \in above : \A r \in above : s <= r
      <4> HIDE DEF above
      <4> QED
        BY <2>2, <3>1, LeastNat
    <3>3. term_baud_up(b) = CHOOSE s \in above : \A r \in above : s <= r
      BY <2>2 DEF term_baud_up
    <3>4. term_baud_up(b) \in above
      BY <3>2, <3>3
    <3> QED
      BY <1>1, <3>4
  <2> QED
    BY <2>1, <2>2
<1>3. term_baud_down(b) \in Speed
  <2> DEFINE below == {s \in Speed : s < b}
             mirror == {b - s : s \in below}
  <2>1. CASE below = {}
    BY <2>1 DEF term_baud_down
  <2>2. CASE below # {}
    <3>0. \A s \in below : s \in Nat /\ b - s \in Nat
      BY <1>1
    <3>1. mirror \in SUBSET Nat /\ mirror # {}
      <4> HIDE DEF below
      <4> QED
        BY <2>2, <3>0
    <3>2. \E m \in mirror : \A k \in mirror : m <= k
      <4> HIDE DEF mirror
      <4> QED
        BY <3>1, LeastNat
    <3>3. PICK s \in below : \A r \in below : b - s <= b - r
      BY <3>2
    <3>4. \A r \in below : s >= r
      <4> HIDE DEF below
      <4> QED
        BY <1>1, <3>0, <3>3
    <3>5. term_baud_down(b) = CHOOSE x \in below : \A r \in below : x >= r
      BY <2>2 DEF term_baud_down
    <3>6. term_baud_down(b) \in below
      <4> HIDE DEF below
      <4> QED
        BY <3>4, <3>5
    <3> QED
      BY <3>6
  <2> QED
    BY <2>1, <2>2
<1>4. baud_down(b) \in Speed \ {0}
  BY <1>3 DEF baud_down
<1> QED
  BY <1>2, <1>4

LEMMA KeyChanges ==
  ASSUME KeyInv,
         TypedBaud \/ BaudUp \/ BaudDown \/ NextFlow \/ NextParity \/ NextBits \/ NextStop
  PROVE  KeyInv'
<1>1. opts \in AskedType
  BY DEF KeyInv, PortTypeOK
<1>2. /\ opts.baud \in Speed \ {0} /\ opts.bits \in DataBits /\ opts.stop \in StopBits
  BY <1>1 DEF AskedType
<1>3. \E f \in Setting : \E v \in Value(f) : Change(f, v) /\ (f = "baud" => v # 0)
  <2>1. CASE TypedBaud
    BY <2>1 DEF TypedBaud, Value, Setting
  <2>2. CASE BaudUp
    BY <1>2, <2>2, NextRates DEF BaudUp, Value, Setting
  <2>3. CASE BaudDown
    BY <1>2, <2>3, NextRates DEF BaudDown, Value, Setting
  <2>4. CASE NextFlow
    BY <2>4 DEF NextFlow, flow_next, Value, Setting, Flow
  <2>5. CASE NextParity
    BY <2>5 DEF NextParity, parity_next, Value, Setting, Parity
  <2>6. CASE NextBits
    <3>1. bits_next(opts.bits) \in DataBits
      BY <1>2 DEF bits_next, DataBits
    <3> QED
      BY <2>6, <3>1 DEF NextBits, Value, Setting
  <2>7. CASE NextStop
    <3>1. stopbits_next(opts.stop) \in StopBits
      BY <1>2 DEF stopbits_next, StopBits
    <3> QED
      BY <2>7, <3>1 DEF NextStop, Value, Setting
  <2> QED
    BY <2>1, <2>2, <2>3, <2>4, <2>5, <2>6, <2>7
<1> QED
  BY <1>3, ChangeStep

LEMMA ToggleStep == ASSUME KeyInv, NEW l \in Lines, Toggle(l) PROVE KeyInv'
<1>1. /\ UNCHANGED <<pc, wish, refuses, opts, told, nexttermios, currtermios, sized, device, inforce>>
      /\ pc = "run" /\ up \subseteq Lines /\ line \subseteq Lines /\ Changed(up, line) \subseteq lost
      /\ "rate" \notin Lines
  BY DEF Toggle, Key, Untouched, KeyInv, PortTypeOK, LinesInv, Lines
<1>2. /\ up' \subseteq Lines /\ line' \subseteq Lines /\ Changed(up', line') \subseteq lost'
      /\ "rate" \notin lost' => "rate" \notin lost
  <2>1. CASE up' = Changed(up, {l}) /\ line' = (line \ {l}) \cup (up' \cap {l}) /\ lost' = lost \ {l}
    BY <1>1, <2>1 DEF Changed
  <2>2. CASE UNCHANGED <<up, line, lost>>
    BY <1>1, <2>2
  <2> QED
    BY <2>1, <2>2 DEF Toggle
<1> QED
  BY <1>1, <1>2 DEF KeyInv, PortTypeOK, RateInv, SettingsInv, LinesInv, SizeInv

LEMMA PulseStep == ASSUME KeyInv, PulseDTR PROVE KeyInv'
<1>1. /\ UNCHANGED <<pc, wish, refuses, opts, told, nexttermios, currtermios, sized, device, inforce>>
      /\ pc = "run" /\ up \subseteq Lines /\ line \subseteq Lines /\ Changed(up, line) \subseteq lost
  BY DEF PulseDTR, Key, Untouched, KeyInv, PortTypeOK, LinesInv
<1>2. /\ up' \subseteq Lines /\ line' \subseteq Lines /\ Changed(up', line') \subseteq lost'
      /\ "rate" \notin lost' => "rate" \notin lost
  BY <1>1 DEF PulseDTR, Lines, Changed
<1> QED
  BY <1>1, <1>2 DEF KeyInv, PortTypeOK, RateInv, SettingsInv, LinesInv, SizeInv

LEMMA StatusStep == ASSUME KeyInv, show_status PROVE KeyInv'
BY DEF show_status, Key, KeyInv, PortTypeOK, RateInv, SettingsInv, LinesInv, SizeInv

LEMMA OthersStep == ASSUME PortAssumption, KeyInv, OthersChange PROVE KeyInv'
<1>1. /\ device' \in TermiosType /\ device'.speed # 0 /\ line' \subseteq Lines /\ pc = "run"
      /\ ~inforce' /\ "rate" \in lost' /\ lost \cup Changed(line, line') \subseteq lost'
      /\ UNCHANGED <<pc, wish, refuses, opts, told, up, nexttermios, currtermios, sized>>
  BY DEF PortAssumption, OthersChange, Key
<1>2. LinesInv'
  BY <1>1 DEF KeyInv, LinesInv, Changed
<1> QED
  BY <1>1, <1>2 DEF KeyInv, PortTypeOK, RateInv, SettingsInv, SizeInv

LEMMA KeyStep == PortAssumption /\ KeyInv /\ [KeyNext]_kvars => KeyInv'
<1> SUFFICES ASSUME PortAssumption, KeyInv, [KeyNext]_kvars PROVE KeyInv'
  OBVIOUS
<1>1. CASE SetLines
  BY <1>1, LinesStep DEF SetLines
<1>2. CASE SetLinesAgain
  BY <1>2, LinesStep DEF SetLinesAgain
<1>3. CASE Configure
  BY <1>3, ConfigureStep
<1>4. CASE TypedBaud \/ BaudUp \/ BaudDown \/ NextFlow \/ NextParity \/ NextBits \/ NextStop
  BY <1>4, KeyChanges
<1>5. CASE \E l \in Lines : Toggle(l)
  BY <1>5, ToggleStep
<1>6. CASE PulseDTR
  BY <1>6, PulseStep
<1>7. CASE show_status
  BY <1>7, StatusStep
<1>8. CASE OthersChange
  BY <1>8, OthersStep
<1>9. CASE UNCHANGED kvars
  BY <1>9 DEF kvars, KeyInv, PortTypeOK, RateInv, SettingsInv, LinesInv, SizeInv
<1> QED
  BY <1>1, <1>2, <1>3, <1>4, <1>5, <1>6, <1>7, <1>8, <1>9 DEF KeyNext

LEMMA KeysAlways == PortAssumption => (KeySpec => []KeyInv)
<1> SUFFICES ASSUME PortAssumption PROVE KeySpec => []KeyInv
  OBVIOUS
<1>1. KeyInit => KeyInv
  BY KeysStart
<1>2. KeyInv /\ [KeyNext]_kvars => KeyInv'
  BY KeyStep
<1> QED
  BY <1>1, <1>2, PTL DEF KeySpec

-----------------------------------------------------------------------------
(* Whatever fails, whatever the port refuses and others do: once a command *)
(* is applied, all that was ever asked for and not refused is in force.    *)
(* The settings stay pending when term_apply() fails, and each setter      *)
(* moves its own setting only.                                             *)
THEOREM CommandsCatchUp == PortAssumption => (KeySpec => []SettingsCatchUp)
<1> SUFFICES ASSUME PortAssumption PROVE KeySpec => []SettingsCatchUp
  OBVIOUS
<1>1. KeyInv => SettingsCatchUp
  BY DEF KeyInv, PortTypeOK, SettingsInv, SettingsCatchUp, Mismatch, Changed, Lines, Setting
<1> QED
  BY <1>1, KeysAlways, PTL

(* What is shown of DTR and RTS, and toggled, is right but for the lines   *)
(* that moved behind ppcom's back, as long as nobody sets the rate 0.      *)
THEOREM LinesAsShown == PortAssumption => (KeySpec => []LinesAgree)
<1> SUFFICES ASSUME PortAssumption PROVE KeySpec => []LinesAgree
  OBVIOUS
<1>1. KeyInv => LinesAgree
  BY DEF KeyInv, LinesInv, LinesAgree, Mismatch, Lines, Setting
<1> QED
  BY <1>1, KeysAlways, PTL

(* The size of a write goes by the rate of the port, after any sequence of *)
(* keys, unless a change of the rate failed or was made by others.         *)
THEOREM WritesFitRate == PortAssumption => (KeySpec => []WriteSizeFits)
<1> SUFFICES ASSUME PortAssumption PROVE KeySpec => []WriteSizeFits
  OBVIOUS
<1>1. KeyInv => WriteSizeFits
  BY DEF KeyInv, SizeInv, WriteSizeFits
<1> QED
  BY <1>1, KeysAlways, PTL
=============================================================================
