------------------------------ MODULE Commands ------------------------------
(***************************************************************************)
(* The settings of the port as the keys of do_command() change them and as *)
(* show_status() reports them (ppcom/src/ppcom.cpp): what the user asked   *)
(* for (opts, dtr_up, rts_up), what the library has pending and believes   *)
(* to be set (nexttermios, currtermios), and what the device really has.   *)
(* A key is one action with every library call it makes, none of which is  *)
(* checked; a device call may fail, a device may leave a setting as it was *)
(* without an error, and the port may be used by others.                   *)
(***************************************************************************)
EXTENDS Termios

CONSTANTS
  Devices,   \* settings the port may have before it is opened
  Asked,     \* settings the options may ask for, as Reading() gives them
  Noinit,    \* the values of --noinit to try
  Wishes,    \* what the options may ask of the lines: see LineWish
  Stubborn,  \* the settings a device may refuse to change
  KeyFallible, \* device calls that may fail: setattr getattr lines mctl
  Shared,    \* TRUE: others may change the port's settings and lines
  Resets,    \* TRUE: applying settings may raise or drop the lines
  MaxKeys    \* bound: keys typed and changes by others

Lines == {"DTR", "RTS"}
LineWish == [Lines -> {"leave", "raise", "lower"}]
Setting == {"baud", "parity", "bits", "stop", "flow"}

VARIABLES
  keys,      \* the keys typed, and changes by others, so far
  pc,        \* lines, apply, lines2, run or fatal: how far main() is
  wish,      \* opts.raise_rts, opts.lower_rts, opts.raise_dtr, opts.lower_dtr
  opts,      \* opts.baud, opts.parity, opts.databits, opts.stopbits, opts.flow
  up,        \* the lines of which dtr_up and rts_up say that they are up
  nexttermios, currtermios, \* of the port
  sized,     \* the rate tty_write_sz was last computed from
  device, line, \* what the port has: its settings, the lines that are up
  refuses,   \* the settings this device does not change
  told,      \* history: the settings ppcom asked for and the port took over
  lost,      \* history: the lines, and the rate, that changed behind ppcom's back
  inforce    \* history: the last term_apply() succeeded, no one else set the port

kvars == <<keys, pc, wish, opts, up, nexttermios, currtermios, sized, device, line, refuses, told,
           lost, inforce>>

KeyFails(c) == c \in KeyFallible

-----------------------------------------------------------------------------
(* The getters, and the setters by the name of their setting.              *)
Reading(t) == [baud |-> t.speed, parity |-> GetParity(t), bits |-> t.csize,
               stop |-> GetStopBits(t), flow |-> GetFlow(t)]

Set(t, f, v) == CASE f = "baud"   -> SetBaud(t, v)
                  [] f = "parity" -> SetParity(t, v)
                  [] f = "bits"   -> SetDataBits(t, v)
                  [] f = "stop"   -> SetStopBits(t, v)
                  [] f = "flow"   -> SetFlow(t, v)

(* The tables behind the keys that step through the values.                *)
flow_next(f) == CASE f = "FC_NONE"    -> "FC_RTSCTS"
                  [] f = "FC_RTSCTS"  -> "FC_XONXOFF"
                  [] OTHER            -> "FC_NONE"

parity_next(p) == CASE p = "P_NONE" -> "P_EVEN"
                    [] p = "P_EVEN" -> "P_ODD"
                    [] OTHER        -> "P_NONE"

bits_next(n) == IF n + 1 > 8 THEN 5 ELSE n + 1
stopbits_next(n) == IF n + 1 > 2 THEN 1 ELSE n + 1

(* The next rate of the table, or the same at the end of the table.        *)
term_baud_up(b) == LET above == {s \in Speed : s > b}
                   IN  IF above = {} THEN b ELSE CHOOSE s \in above : \A r \in above : s <= r
term_baud_down(b) == LET below == {s \in Speed : s < b}
                     IN  IF below = {} THEN b ELSE CHOOSE s \in below : \A r \in below : s >= r

(* Faulty variant: the rate 0 is not left out.                             *)
BaudDownToZero(b) == term_baud_down(b)

(* The table starts with 0, which hangs the line up.                       *)
baud_down(b) == IF term_baud_down(b) = 0 THEN b ELSE term_baud_down(b)

-----------------------------------------------------------------------------
(* The port: it takes settings t but for those it refuses to change; a     *)
(* change to the rate 0 drops the lines.                                   *)
Takes(t) ==
  LET Keep(s, f) == IF f \in refuses THEN Set(s, f, Reading(device)[f]) ELSE s
  IN  Keep(Keep(Keep(Keep(Keep(t, "baud"), "parity"), "bits"), "stop"), "flow")

LinesAfter(t) == CASE t.speed = 0 /\ device.speed # 0 -> {{}}
                   [] Resets                       -> SUBSET Lines
                   [] OTHER                        -> {line}

Changed(before, after) == (before \ after) \cup (after \ before)

(* Faulty variant: a failure reverts what was pending.                     *)
Reverted(t) == currtermios

(* nexttermios after an attempt to apply t that failed: t is still there,  *)
(* and the next command applies it.                                        *)
Pending(t) == t

(* term_apply() after the setters made t of nexttermios, for setting f or  *)
(* for all of them.                                                        *)
ApplyTo(t, F) ==
  LET took  == Takes(t)
      taken == {f \in Setting : Reading(took)[f] = Reading(t)[f]}
      moved == IF pc # "run" \/ took.speed = 0 THEN {} ELSE Changed(line, line')
      rate  == IF "baud" \in F THEN {"rate"} ELSE {}
  IN  \/ /\ KeyFails("setattr")
         /\ nexttermios' = Pending(t)
         /\ told' = told \cup F /\ lost' = lost \cup rate /\ inforce' = FALSE
         /\ UNCHANGED <<currtermios, device, line>>
      \/ /\ device' = took
         /\ line' \in LinesAfter(took)
         /\ told' = (told \cup F) \cap taken
         /\ \/ /\ nexttermios' = took /\ currtermios' = took
               /\ lost' = (lost \ rate) \cup moved /\ inforce' = TRUE
            \/ /\ KeyFails("getattr")
               /\ nexttermios' = Pending(t) /\ UNCHANGED currtermios
               /\ lost' = lost \cup rate \cup moved /\ inforce' = FALSE

-----------------------------------------------------------------------------
(* main(): the port is opened and added, its lines are set, it is          *)
(* configured, and its lines are set again, since configuring it may have  *)
(* changed them; term_add() and term_set() read its settings first.        *)
StartArgs == [raw |-> TRUE, baud |-> opts.baud, parity |-> opts.parity, bits |-> opts.bits,
              stop |-> opts.stop, flow |-> opts.flow, local |-> TRUE, hupcl |-> TRUE]

KeyInit ==
  /\ keys = 0
  /\ pc = "lines"
  /\ wish \in Wishes
  /\ opts \in Asked
  /\ device \in Devices
  /\ line \in SUBSET Lines
  /\ refuses \in SUBSET Stubborn
  /\ up = Lines
  /\ \E noinit \in Noinit :
       /\ told = IF noinit THEN {} ELSE Setting
       /\ nexttermios = IF noinit THEN device ELSE SetAll(device, StartArgs)
  /\ currtermios = device
  /\ sized = 0
  /\ lost = {}
  /\ inforce = TRUE

Wished(S) == (S \ {l \in Lines : wish[l] = "lower"}) \cup {l \in Lines : wish[l] = "raise"}

(* set_dtr_rts(): RTS, then DTR, and then what the port says of them, when *)
(* it says anything.                                                       *)
set_dtr_rts(next) ==
  /\ \/ /\ line' = Wished(line)
        /\ \/ up' = line' /\ lost' = lost \ Lines
           \/ /\ KeyFails("mctl") /\ up' = Wished(up)
              /\ lost' = lost \cup {l \in Lines : wish[l] = "leave"}
        /\ pc' = next
     \/ /\ KeyFails("lines") /\ \E l \in Lines : wish[l] # "leave"
        /\ line' \in {line, (line \cap {"DTR"}) \cup (Wished(line) \cap {"RTS"})}
        /\ pc' = "fatal"
        /\ UNCHANGED <<up, lost>>
  /\ UNCHANGED <<keys, wish, opts, told, nexttermios, currtermios, device, refuses, inforce>>

SetLines == pc = "lines" /\ set_dtr_rts("apply") /\ UNCHANGED sized

(* Faulty variant: configuring the port is the last step.                  *)
ConfiguredIsReady == "run"

(* The lines are set again after the port is configured.                   *)
Configured == "lines2"

(* A failure to configure the port is fatal.                               *)
Configure == /\ pc = "apply"
             /\ ApplyTo(nexttermios, told)
             /\ pc' = IF inforce' THEN Configured ELSE "fatal"
             /\ sized' = currtermios'.speed
             /\ UNCHANGED <<keys, wish, opts, up, refuses>>

SetLinesAgain == pc = "lines2" /\ set_dtr_rts("run") /\ sized' = currtermios.speed

-----------------------------------------------------------------------------
(* The keys.                                                               *)
Key == /\ pc = "run"
       /\ keys < MaxKeys /\ keys' = keys + 1
       /\ UNCHANGED <<pc, wish, refuses>>

(* Faulty variant: the rate that was asked for.                            *)
RateAsked == opts'.baud

(* term_get_baudrate() after the change: the current settings'.            *)
RateReported == currtermios'.speed

(* C-b, C-u, C-d, C-f, C-y, C-i, C-j: the new value is asked for, set and  *)
(* applied, whether or not the calls succeed.                              *)
Change(f, v) ==
  /\ Key
  /\ opts' = [opts EXCEPT ![f] = v]
  /\ ApplyTo(Set(nexttermios, f, v), {f})
  /\ sized' = IF f = "baud" THEN RateReported ELSE sized
  /\ UNCHANGED up

(* read_baud() takes a rate of the table, not 0; at the end of the input,  *)
(* or after C-c, there is none and nothing is changed.                     *)
TypedBaud == \E b \in Speed \ {0} : Change("baud", b)
BaudUp    == Change("baud", term_baud_up(opts.baud))
BaudDown  == Change("baud", baud_down(opts.baud))
NextFlow   == Change("flow", flow_next(opts.flow))
NextParity == Change("parity", parity_next(opts.parity))
NextBits   == Change("bits", bits_next(opts.bits))
NextStop   == Change("stop", stopbits_next(opts.stop))

Untouched == UNCHANGED <<opts, told, nexttermios, currtermios, sized, device, inforce>>

(* C-t and C-g: what is shown changes only with the line.                  *)
Toggle(l) ==
  /\ Key
  /\ \/ /\ up' = Changed(up, {l})
        /\ line' = (line \ {l}) \cup (up' \cap {l})
        /\ lost' = lost \ {l}
     \/ KeyFails("lines") /\ UNCHANGED <<up, line, lost>>
  /\ Untouched

(* C-p: DTR is lowered and, after a second, raised.  When the second call  *)
(* fails it is left low, and dtr_up as it was.                             *)
PulseDTR ==
  /\ Key
  /\ \/ line' = line \cup {"DTR"} /\ up' = up \cup {"DTR"} /\ lost' = lost \ {"DTR"}
     \/ /\ KeyFails("lines")
        /\ \/ UNCHANGED <<line, lost>>
           \/ line' = line \ {"DTR"} /\ lost' = lost \cup {"DTR"}
        /\ UNCHANGED up
  /\ Untouched

(* show_status() reads the settings of the port anew and marks what is not *)
(* as it was asked for.                                                    *)
show_status ==
  /\ Key
  /\ currtermios' = device \/ (KeyFails("getattr") /\ UNCHANGED currtermios)
  /\ UNCHANGED <<opts, told, up, nexttermios, sized, device, line, lost, inforce>>

Mismatch(t, lines) ==
  {f \in Setting : Reading(t)[f] # opts[f]} \cup Changed(up, lines)

(* Another program, a flow control that works on RTS, the peer's hang-up.  *)
OthersChange ==
  /\ Shared /\ Key
  /\ device' \in Devices
  /\ line' \in SUBSET Lines
  /\ lost' = lost \cup Changed(line, line') \cup {"rate"}
  /\ inforce' = FALSE
  /\ UNCHANGED <<opts, told, up, nexttermios, currtermios, sized>>

KeyNext ==
  \/ SetLines \/ Configure \/ SetLinesAgain
  \/ TypedBaud \/ BaudUp \/ BaudDown
  \/ NextFlow \/ NextParity \/ NextBits \/ NextStop
  \/ \E l \in Lines : Toggle(l)
  \/ PulseDTR \/ show_status
  \/ OthersChange

KeySpec == KeyInit /\ [][KeyNext]_kvars
-----------------------------------------------------------------------------
(* After a command whose settings were applied, the port has every setting *)
(* ppcom asked for and the port did not refuse, those of earlier commands  *)
(* that failed included, and whatever others made of the port in between:  *)
(* C-v then marks nothing else.  With --noinit the settings not changed    *)
(* since are not ppcom's.                                                  *)
SettingsCatchUp == pc = "run" /\ inforce => told \cap Mismatch(device, line) = {}

(* The DTR and RTS that C-v, C-t and C-g show, and from which the toggles  *)
(* choose what to do, are the port's from the start on, whatever calls     *)
(* fail.  A pulse that fails half-way, a port that does not tell its lines *)
(* or that changes them with its settings, and others, mislead it about a  *)
(* line, but only until that line is toggled, or DTR pulsed.               *)
LinesAgree == pc = "run" => Mismatch(device, line) \cap Lines \subseteq lost

(* The chunk the loop writes to the port is sized for the rate the port    *)
(* runs at, also when it is not the rate that was asked for.  After a      *)
(* change of the rate that failed, and that a later key completes, or one  *)
(* by others, it is not, until the rate is changed again.                  *)
WriteSizeFits == pc = "run" /\ "rate" \notin lost => sized = device.speed
=============================================================================
