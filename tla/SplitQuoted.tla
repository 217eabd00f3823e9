---------------------------- MODULE SplitQuoted ----------------------------
(***************************************************************************)
(* split_quoted() (ppcom/src/split.cpp): the lexer that turns the command  *)
(* of --send-cmd and --receive-cmd, and then the file name typed, into the *)
(* arguments of execvp(3), against the quoting rules of its header         *)
(* (ppcom/include/split.h).  The lexer reads one character at a time; the  *)
(* rules are stated over what a command is written with: characters,       *)
(* escapes, quotes and delimiters.                                         *)
(***************************************************************************)
EXTENDS Integers, Sequences

CONSTANTS
  Plain, Blanks, Dollars,  \* characters: the normal ones; space and tab; those that
                           \* are special after a backslash in double quotes only
  MaxWritten,              \* bound: what the two strings are written with
  ArgvSz,                  \* argv_sz
  MaxArg                   \* MAX_ARG_LEN - 1

(* No character is two of these.                                           *)
ASSUME SplitAssumption ==
  /\ Plain \cap Blanks = {} /\ Plain \cap Dollars = {} /\ Blanks \cap Dollars = {}
  /\ {"NL", "BS", "SQ", "DQ"} \cap (Plain \cup Blanks \cup Dollars) = {}
  /\ MaxWritten \in Nat /\ ArgvSz \in Nat /\ MaxArg \in Nat

VARIABLES
  lex,    \* the lexer; bs: the character before was a backslash to be interpreted
  meant   \* what the header makes of the same characters: words, the arguments that
          \* are complete, old of them of the first string; word, the one that was
          \* begun, or not; the quotes it is within; room: what may still be written
splitvars == <<lex, meant>>

Char == Plain \cup Blanks \cup Dollars \cup {"NL", "BS", "SQ", "DQ"}
is_delim == Blanks \cup {"NL"}
is_dq_escapable == Dollars \cup {"BS", "DQ"}

-----------------------------------------------------------------------------
Start(args) == [state |-> "ST_DELIM", qc |-> "SQ", bs |-> FALSE,
                buff |-> <<>>, args |-> args, flags |-> {}]

push(q) == IF Len(q.args) < ArgvSz
           THEN [q EXCEPT !.args = Append(@, q.buff), !.buff = <<>>]
           ELSE [q EXCEPT !.flags = @ \cup {"SPLIT_DROP"}, !.buff = <<>>]

save(q, c) == IF Len(q.buff) < MaxArg THEN [q EXCEPT !.buff = Append(@, c)]
              ELSE [q EXCEPT !.flags = @ \cup {"SPLIT_TRUNC"}]

InState(q, s) == [q EXCEPT !.state = s]

(* Faulty variant: a backslash in double quotes is always removed.         *)
EscapedAnywhere(q, c) == IF c = "NL" THEN q
                         ELSE IF q.state = "ST_QUOTE" THEN save(q, c)
                         ELSE InState(save(q, c), "ST_ARG")

(* The character after a backslash.                                        *)
Escaped(q, c) ==
  IF c = "NL" THEN q
  ELSE IF q.state # "ST_QUOTE" THEN InState(save(q, c), "ST_ARG")
  ELSE IF c \in is_dq_escapable THEN save(q, c)
  ELSE save(save(q, "BS"), c)

Read(q, c) ==
  LET backslash == [q EXCEPT !.bs = TRUE]
      opened    == [q EXCEPT !.state = "ST_QUOTE", !.qc = c]
  IN  CASE q.bs -> Escaped([q EXCEPT !.bs = FALSE], c)
        [] ~q.bs /\ q.state = "ST_QUOTE" ->
             CASE c = q.qc                  -> InState(q, "ST_ARG")
               [] c = "BS" /\ q.qc = "DQ"   -> backslash
               [] OTHER                     -> save(q, c)
        [] ~q.bs /\ q.state # "ST_QUOTE" ->
             CASE c \in {"SQ", "DQ"} -> opened
               [] c = "BS"           -> backslash
               [] c \in is_delim     -> IF q.state = "ST_ARG" THEN InState(push(q), "ST_DELIM")
                                                              ELSE q
               [] OTHER              -> InState(save(q, c), "ST_ARG")

(* The end of the string: what split_quoted() returns, and the arguments.  *)
split_quoted(q) ==
  LET end == IF q.state = "ST_ARG" THEN push(q) ELSE q
  IN  IF q.bs \/ q.state = "ST_QUOTE" THEN [error |-> TRUE]
      ELSE [error |-> FALSE, args |-> end.args, flags |-> end.flags]

-----------------------------------------------------------------------------
(* The rules of split.h.  A delimiter ends an argument that was begun.     *)
Ended(m) == IF m.begun THEN [m EXCEPT !.words = Append(@, m.word), !.word = <<>>, !.begun = FALSE]
            ELSE m

(* c, or a backslash and c, become part of the current argument.           *)
Letter(m, c)  == [m EXCEPT !.word = Append(@, c), !.begun = TRUE]
Letters(m, c) == Letter(Letter(m, "BS"), c)

Writes(m) == /\ meant.room > 0
             /\ meant' = [m EXCEPT !.room = meant.room - 1]

One(c, m) == Writes(m) /\ lex' = Read(lex, c)
Two(c, m) == Writes(m) /\ lex' = Read(Read(lex, "BS"), c)

Delimit(c) == c \in is_delim /\ One(c, Ended(meant))
Normal(c)  == c \in Plain \cup Dollars /\ One(c, Letter(meant, c))
Escape(c)  == c # "NL" /\ Two(c, Letter(meant, c))
Open(c)    == c \in {"SQ", "DQ"} /\ One(c, [meant EXCEPT !.within = c, !.begun = TRUE])

Outside(c) == meant.within = "none" /\ (Delimit(c) \/ Normal(c) \/ Escape(c) \/ Open(c))

Close(c) == c = meant.within /\ One(c, [meant EXCEPT !.within = "none"])

(* Everything in single quotes is normal.  In double quotes a backslash is *)
(* removed before one of four characters, and kept before the others.      *)
InSingle(c) == meant.within = "SQ" /\ (Close(c) \/ (c # "SQ" /\ One(c, Letter(meant, c))))

InDouble(c) ==
  /\ meant.within = "DQ"
  /\ \/ Close(c)
     \/ c \notin {"BS", "DQ"} /\ One(c, Letter(meant, c))
     \/ c \in is_dq_escapable /\ Two(c, Letter(meant, c))
     \/ c \notin is_dq_escapable \cup {"NL"} /\ Two(c, Letters(meant, c))

(* A backslash and a newline are removed, but not in single quotes; a      *)
(* backslash before nothing is an error, and nothing comes after it.       *)
Join   == meant.within \in {"none", "DQ"} /\ Two("NL", meant)
Dangle == meant.within \in {"none", "DQ"} /\ One("BS", [meant EXCEPT !.within = "BS"])

(* At most as many arguments as there is room for, each cut if need be.    *)
First(s, n) == [i \in 1 .. (IF Len(s) < n THEN Len(s) ELSE n) |-> s[i]]

Meaning(m) ==
  LET all == Ended(m).words
      new == m.old + 1 .. Len(all)
  IN  IF m.within # "none" THEN [error |-> TRUE]
      ELSE [error |-> FALSE,
            args  |-> First([i \in DOMAIN all |-> First(all[i], MaxArg)], ArgvSz),
            flags |-> (IF new # {} /\ Len(all) > ArgvSz THEN {"SPLIT_DROP"} ELSE {})
                      \cup (IF \E i \in new : Len(all[i]) > MaxArg THEN {"SPLIT_TRUNC"} ELSE {})]

-----------------------------------------------------------------------------
SplitInit == /\ lex = Start(<<>>)
             /\ meant = [words |-> <<>>, word |-> <<>>, begun |-> FALSE, within |-> "none",
                         old |-> 0, second |-> FALSE, room |-> MaxWritten]

(* run_cmd(): if the command could be split, the file name, or the line    *)
(* that was typed, is split into the slots that are left.                  *)
Extra == /\ ~split_quoted(lex).error /\ ~meant.second
         /\ lex' = Start(split_quoted(lex).args)
         /\ meant' = [Ended(meant) EXCEPT !.old = Len(Ended(meant).words), !.second = TRUE]

SplitNext == \/ \E c \in Char : Outside(c) \/ InSingle(c) \/ InDouble(c)
             \/ Join \/ Dangle \/ Extra

SplitSpec == SplitInit /\ [][SplitNext]_splitvars

(* Every command is split, cut and refused as split.h says, whatever it is *)
(* written with: nested and adjacent quotes, empty ones, escapes at the    *)
(* edges, joined lines, and more and longer arguments than there is room;  *)
(* the second string is added to what the first one left.                  *)
SplitFollowsHeader == split_quoted(lex) = Meaning(meant)
=============================================================================
