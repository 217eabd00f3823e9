------------------------------ MODULE CharMap ------------------------------
(***************************************************************************)
(* Character mapping (ppcom/src/ppcom.cpp: parse_map(), map2hex(),         *)
(* do_map()): the option is read token by token into a set of flags, then  *)
(* every byte that passes is mapped.  Bytes are their codes, 0 .. 255; the *)
(* code holds them as signed char.                                         *)
(***************************************************************************)
EXTENDS Integers, Sequences, FiniteSets

CONSTANTS
  Bytes   \* the bytes that are mapped

ASSUME CharMapAssumption == Bytes \subseteq 0 .. 255

VARIABLES
  flags,   \* the mappings of the option
  phase,   \* parsing, running, refused (flags = -1) or aborted (assertion)
  from,    \* the last byte mapped, or -1
  to       \* what it was mapped to

vars == <<flags, phase, from, to>>

BS == 8   TAB == 9   LF == 10   CR == 13   DEL == 127
M_MAXMAP == 4

MapNames == {"crlf", "crcrlf", "igncr", "lfcr", "lfcrlf", "ignlf", "delbs", "bsdel", "spchex",
             "tabhex", "crhex", "lfhex", "8bithex", "nrmhex"}
-----------------------------------------------------------------------------
HexDigit(d) == IF d < 10 THEN 48 + d ELSE 87 + d

(* Faulty variant: without the casts to unsigned char the shift keeps the  *)
(* sign, and the first digit is read from outside the table.               *)
SignedMap2hex(c) == LET s == IF c < 128 THEN c ELSE c - 256
                    IN  <<91, HexDigit(s \div 16), HexDigit(c % 16), 93>>

map2hex(c) == <<91, HexDigit(c \div 16), HexDigit(c % 16), 93>>

(* The first of a sequence of <<flag, result>> whose flag is set, if any.  *)
FirstOf(rules, map) ==
  LET set == {i \in DOMAIN rules : rules[i][1] \in map}
  IN  IF set = {} THEN <<>> ELSE <<rules[CHOOSE i \in set : \A j \in set : i <= j][2]>>

(* The mappings of single characters, in the order the code tests them.    *)
OwnRules(c) ==
  CASE c = DEL -> <<<<"delbs", <<BS>>>>>>
    [] c = BS  -> <<<<"bsdel", <<DEL>>>>>>
    [] c = CR  -> <<<<"crlf", <<LF>>>>, <<"crcrlf", <<CR, LF>>>>, <<"igncr", <<>>>>,
                    <<"crhex", map2hex(c)>>>>
    [] c = LF  -> <<<<"lfcr", <<CR>>>>, <<"lfcrlf", <<CR, LF>>>>, <<"ignlf", <<>>>>,
                    <<"lfhex", map2hex(c)>>>>
    [] c = TAB -> <<<<"tabhex", map2hex(c)>>>>
    [] OTHER   -> <<>>

(* Faulty variant: val_chr < 0x20 without the cast to unsigned char.       *)
SignedSpecial(c) == c = DEL \/ ((c < 32 \/ c >= 128) /\ c \notin {TAB, LF, CR})

Special(c) == c = DEL \/ (c < 32 /\ c \notin {TAB, LF, CR})

(* The mappings of ranges of characters, after those.                      *)
RangeRules(c) ==
  (IF Special(c) THEN <<<<"spchex", map2hex(c)>>>> ELSE <<>>)
  \o (IF c >= 128 THEN <<<<"8bithex", map2hex(c)>>>> ELSE <<>>)
  \o (IF 32 <= c /\ c < 127 THEN <<<<"nrmhex", map2hex(c)>>>> ELSE <<>>)

(* What do_map() puts in the buffer, before its assertion.                 *)
do_map(map, c) ==
  LET r == FirstOf(OwnRules(c) \o RangeRules(c), map)
  IN  IF r = <<>> THEN <<c>> ELSE r[1]
-----------------------------------------------------------------------------
Init == /\ flags = {} /\ phase = "parsing"
        /\ from = -1 /\ to = <<>>

(* One turn of the loop of parse_map(): a name, or something else.         *)
parse_map ==
  /\ phase = "parsing"
  /\ \/ \E m \in MapNames : flags' = flags \cup {m} /\ UNCHANGED phase
     \/ phase' = "refused" /\ UNCHANGED flags
  /\ UNCHANGED <<from, to>>

Run == /\ phase = "parsing"
       /\ phase' = "running"
       /\ UNCHANGED <<flags, from, to>>

(* do_map(): the assertion asks for at least one byte.                     *)
MapByte ==
  /\ phase = "running"
  /\ from' \in Bytes
  /\ to' = do_map(flags, from')
  /\ phase' = IF 0 < Len(to') /\ Len(to') <= M_MAXMAP THEN "running" ELSE "aborted"
  /\ UNCHANGED flags

Next == parse_map \/ Run \/ MapByte
Spec == Init /\ [][Next]_vars
-----------------------------------------------------------------------------
(* The two hexadecimal digits that stand for c, in square brackets.        *)
Digits == (48 .. 57) \cup (97 .. 102)
Value(d) == IF d < 97 THEN d - 48 ELSE d - 87
Hex(c) == CHOOSE s \in {<<91, h, l, 93>> : h, l \in Digits} : 16 * Value(s[2]) + Value(s[3]) = c

(* The list of the manual, INPUT, OUTPUT, AND ECHO MAPPING, in its order:  *)
(* name, the characters it is for, and what replaces c.                    *)
Manual(c) ==
  LET hex == Hex(c)
  IN  << <<"crlf",    {CR},                                 <<LF>>>>,
         <<"crcrlf",  {CR},                                 <<CR, LF>>>>,
         <<"igncr",   {CR},                                 <<>>>>,
         <<"lfcr",    {LF},                                 <<CR>>>>,
         <<"lfcrlf",  {LF},                                 <<CR, LF>>>>,
         <<"ignlf",   {LF},                                 <<>>>>,
         <<"bsdel",   {BS},                                 <<DEL>>>>,
         <<"delbs",   {DEL},                                <<BS>>>>,
         <<"spchex",  ({DEL} \cup 0 .. 31) \ {CR, LF, TAB}, hex>>,
         <<"tabhex",  {TAB},                                hex>>,
         <<"crhex",   {CR},                                 hex>>,
         <<"lfhex",   {LF},                                 hex>>,
         <<"8bithex", 128 .. 255,                           hex>>,
         <<"nrmhex",  32 .. 126,                            hex>> >>

(* A mapping that was asked for and is for c.                              *)
Applies(m, c) == m[1] \in flags /\ c \in m[2]

(* The manual: if more than one mapping applies to a character, only the   *)
(* first one, in the order of its list, is applied.  do_map() tests        *)
(* characters first and flags second.                                      *)
MapFollowsManual ==
  from # -1 =>
    LET rows == Manual(from)
    IN  \/ \E i \in 1 .. 14 : /\ Applies(rows[i], from) /\ to = rows[i][3]
                              /\ \A j \in 1 .. i - 1 : ~Applies(rows[j], from)
        \/ (\A i \in 1 .. 14 : ~Applies(rows[i], from)) /\ to = <<from>>

(* The manual: igncr and ignlf ignore the character.                       *)
IgnoringGoesOn == phase # "aborted"
=============================================================================
