------------------------------- MODULE Options -------------------------------
(***************************************************************************)
(* parse_args() (ppcom/src/ppcom.cpp): the command line as getopt_long()   *)
(* gives it, one argument at a time, against the options of the manual     *)
(* (doc/ppcom.1.md).  The spellings of an option are one name; of the      *)
(* options that only copy a value or set a flag some stand for all.        *)
(***************************************************************************)
EXTENDS Integers, Sequences

CONSTANTS
  Rates,        \* the rates of the table that are tried
  MaxArgs       \* bound: arguments of a command line

(* "bad" stands for every text that is no value of an option.              *)
ASSUME OptionsAssumption == "bad" \notin Rates /\ MaxArgs \in Nat

VARIABLES
  given,   \* the command line, as it was typed
  got      \* what parse_args() made of it so far; got.spilt: what comes next is
           \* overwritten; history got.lost: something was
optvars == <<given, got>>

FlowOf   == [x |-> "FC_XONXOFF", s |-> "FC_XONXOFF", h |-> "FC_RTSCTS", n |-> "FC_NONE"]
ParityOf == [e |-> "P_EVEN", o |-> "P_ODD", n |-> "P_NONE"]

Same(S) == [a \in S |-> a]
DataBitsOf == Same({"5", "6", "7", "8"})
Switches == {"noinit", "exit", "raise_rts", "lower_rts", "raise_dtr", "lower_dtr"}

(* The options with a value that is checked, and those with any value.     *)
Table == [flow |-> FlowOf, parity |-> ParityOf, databits |-> DataBitsOf, baud |-> Same(Rates),
          imap |-> Same({"crlf"}), exit_after |-> Same({"0"})]
Copied == [escape |-> {"x"}, initstring |-> {"AT"}, port |-> {"p1", "p2"}]

OfTable  == UNION {{<<f, a>> : a \in DOMAIN Table[f] \cup {"bad"}} : f \in DOMAIN Table}
OfStop   == {<<"stopbits", a>> : a \in {"1", "2", "bad"} \cup DOMAIN ParityOf}
OfCopied == UNION {{<<f, a>> : a \in Copied[f]} : f \in DOMAIN Copied}
OfLog    == {<<"log_filename", a>> : a \in {"name", "name_date"}}

Arguments == OfTable \cup OfStop \cup OfCopied \cup OfLog
               \cup {<<f, "yes">> : f \in Switches \cup {"help", "unknown"}}

-----------------------------------------------------------------------------
(* init_default_options().                                                 *)
Names == Switches \cup DOMAIN Table \cup DOMAIN Copied \cup {"stopbits", "log_filename"}

Default ==
  [f \in Names |->
     CASE f = "baud" -> "9600" [] f = "flow" -> "FC_NONE" [] f = "parity" -> "P_NONE"
       [] f = "databits" -> "8" [] f = "stopbits" -> "1" [] f = "escape" -> "q"
       [] OTHER -> "no"]

To(q, f, v) == [q EXCEPT !.opts[f] = v]
Refuse(q) == [q EXCEPT !.outcome = "failure"]

(* For backwards compatibility, a letter sets the parity; and one stop bit.*)
StopOrParity(q, a) == CASE a \in {"1", "2"}      -> To(q, "stopbits", a)
                        [] a \in DOMAIN ParityOf -> To(To(q, "stopbits", "1"), "parity", ParityOf[a])
                        [] OTHER                 -> Refuse(q)

(* Only a name with "_date" in it is copied, with the time in its place.   *)
LogName(a) == IF a = "name_date" THEN "name_time" ELSE ""

Parse(q, f, a) ==
  CASE f \in Switches \cup DOMAIN Copied -> To(q, f, a)
    [] f \in DOMAIN Table    -> IF a \in DOMAIN Table[f] THEN To(q, f, Table[f][a]) ELSE Refuse(q)
    [] f = "stopbits"        -> StopOrParity(q, a)
    [] f = "log_filename"    -> To(q, f, LogName(a))
    [] f = "help"            -> [q EXCEPT !.outcome = "usage"]
    [] OTHER                 -> Refuse(q)

Conflict(o) == \/ o["raise_rts"] = "yes" /\ o["lower_rts"] = "yes"
               \/ o["raise_dtr"] = "yes" /\ o["lower_dtr"] = "yes"

(* Faulty variant: only an --exit-after before it is overridden.           *)
OverriddenIfFirst(o) ==
  IF o["exit"] = "yes" /\ given[Len(given)][1] # "exit_after" THEN [o EXCEPT !["exit_after"] = "no"] ELSE o

(* --exit overrides --exit-after.                                          *)
Overridden(o) == IF o["exit"] = "yes" THEN [o EXCEPT !["exit_after"] = "no"] ELSE o

(* What becomes of the arguments so far, when they are all there are.      *)
parse_args(q) ==
  CASE q.outcome # "parsing"                     -> [outcome |-> q.outcome]
    [] q.outcome = "parsing" /\ (Conflict(q.opts) \/ q.opts["port"] = "no") -> [outcome |-> "failure"]
    [] OTHER -> [outcome |-> "run", opts |-> Overridden(q.opts)]

OptInit ==
  /\ given = <<>>
  /\ got = [outcome |-> "parsing", opts |-> Default, spilt |-> FALSE, lost |-> FALSE]

(* The name with the time in it is copied over the argument it was given   *)
(* by, which is shorter: what comes after it on the command line now reads *)
(* as the rest of the time, a port's name to getopt_long().                *)
Give(arg) ==
  /\ Len(given) < MaxArgs /\ got.outcome = "parsing"
  /\ given' = Append(given, arg)
  /\ \/ /\ ~got.spilt
        /\ got' = [Parse(got, arg[1], arg[2]) EXCEPT !.spilt = arg = <<"log_filename", "name_date">>]
     \/ got.spilt /\ \E more \in BOOLEAN :
          got' = [To(got, "port", "time") EXCEPT !.spilt = more, !.lost = TRUE]

OptNext == \E arg \in Arguments : Give(arg)

OptSpec == OptInit /\ [][OptNext]_optvars
-----------------------------------------------------------------------------
(* The manual, OPTIONS: what is documented of the values that are checked, *)
(* and the settings without options (the rate's in README.md).             *)
Documented ==
  [flow     |-> [x |-> "FC_XONXOFF", h |-> "FC_RTSCTS", n |-> "FC_NONE"],
   parity   |-> [o |-> "P_ODD", e |-> "P_EVEN", n |-> "P_NONE"],
   databits |-> Same({"5", "6", "7", "8"}), stopbits |-> Same({"1", "2"}),
   baud     |-> Same(Rates), imap |-> Same({"crlf"}), exit_after |-> Same({"0"})]

DocumentedDefault ==
  [f \in Names |->
     CASE f = "baud" -> "9600" [] f = "flow" -> "FC_NONE" [] f = "parity" -> "P_NONE"
       [] f = "databits" -> "8" [] f = "stopbits" -> "1" [] f = "escape" -> "a"
       [] OTHER -> "no"]

(* The settings that an argument gives, none if it is wrong.  The manual   *)
(* does not list s for flow and the letters for stopbits: the latter are   *)
(* as the comment in parse_args() says.                                    *)
Just(f, v) == [x \in {f} |-> v]

Gives(arg) ==
  LET f == arg[1]
      a == arg[2]
  IN  CASE f \in DOMAIN Documented /\ a \in DOMAIN Documented[f] -> Just(f, Documented[f][a])
        [] f = "flow" /\ a = "s"                        -> Just(f, "FC_XONXOFF")
        [] f = "stopbits" /\ a \in {"e", "o", "n"}      -> [parity |-> Documented["parity"][a], stopbits |-> "1"]
        [] f \in Switches \cup {"escape", "initstring", "port", "log_filename"} -> Just(f, a)
        [] OTHER                                        -> <<>>

(* The places in the command line of what gives f, and the value of the    *)
(* last of them.                                                           *)
Said(f) == {i \in DOMAIN given : f \in DOMAIN Gives(given[i])}
Latest(S) == CHOOSE i \in S : \A j \in S : j <= i
Earliest(S) == CHOOSE i \in S : \A j \in S : i <= j

Asked(f) == IF f = "exit_after" /\ Said("exit") # {} THEN "no"
            ELSE IF Said(f) = {} THEN DocumentedDefault[f]
            ELSE Gives(given[Latest(Said(f))])[f]

Both(f, g) == Said(f) # {} /\ Said(g) # {}

(* Where the code does not do what the manual says: without --escape the   *)
(* escape character is C-q, not C-a, and a log file's name is not the one  *)
(* given but none, or one with the time in the place of "_date".           *)
Differs == {f \in Names : \/ f = "escape" /\ Said(f) = {}
                          \/ f = "log_filename" /\ Said(f) # {}}

(* ppcom runs with the last value given of every option, wherever it is    *)
(* among the others, and on the last port given; --exit overrides          *)
(* --exit-after in any order; a wrong value, both of a pair of line        *)
(* options, or no port end it, and --help before any of them ends it well. *)
(* But for the two settings of Differs, and as long as no argument is      *)
(* overwritten by a log file's name.                                       *)
OptionsFollowManual ==
  ~got.lost =>
  LET wrong == {i \in DOMAIN given : DOMAIN Gives(given[i]) = {}}
      out   == parse_args(got)
  IN  IF wrong # {}
      THEN out.outcome = (IF given[Earliest(wrong)][1] = "help" THEN "usage" ELSE "failure")
      ELSE IF \/ Both("raise_rts", "lower_rts") \/ Both("raise_dtr", "lower_dtr")
              \/ Said("port") = {}
      THEN out.outcome = "failure"
      ELSE out.outcome = "run" /\ \A f \in Names \ Differs : out.opts[f] = Asked(f)
=============================================================================
