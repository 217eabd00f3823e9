---------------------------- MODULE InputProofs ----------------------------
(***************************************************************************)
(* Proofs about what ppcom makes of characters and words: the mapping of   *)
(* characters (CharMap), the splitting of a command (SplitQuoted) and the  *)
(* command line (Options), for any characters, any rates and any length.   *)
(***************************************************************************)
EXTENDS CharMap, SplitQuoted, Options, LeastElement, SequenceTheorems

-----------------------------------------------------------------------------
(***************************************************************************)
(* Character mapping.                                                      *)
(***************************************************************************)
(* The two digits of a byte in square brackets, as the manual writes them. *)
LEMMA HexIs == \A c \in 0 .. 255 : Hex(c) = map2hex(c)
<1> SUFFICES ASSUME NEW c \in 0 .. 255 PROVE Hex(c) = map2hex(c)
  OBVIOUS
<1> DEFINE Texts == {<<91, h, l, 93>> : h, l \in Digits}
           OfC(s) == 16 * Value(s[2]) + Value(s[3]) = c
<1>1. Hex(c) = CHOOSE s \in Texts : OfC(s)
  BY DEF Hex
<1>2. \A d \in Digits : Value(d) \in 0 .. 15 /\ HexDigit(Value(d)) = d
  BY DEF Digits, Value, HexDigit
<1>3. \A n \in 0 .. 15 : HexDigit(n) \in Digits /\ Value(HexDigit(n)) = n
  BY DEF Digits, Value, HexDigit
<1>4. c \div 16 \in 0 .. 15 /\ c % 16 \in 0 .. 15 /\ 16 * (c \div 16) + (c % 16) = c
  <2>1. c \div 16 \in Int /\ c % 16 \in 0 .. 15
    OBVIOUS
  <2>2. 16 * (c \div 16) + (c % 16) = c
    OBVIOUS
  <2> QED
    BY <2>1, <2>2
<1>5. \A m, n \in 0 .. 15 : 16 * m + n = c => m = c \div 16 /\ n = c % 16
  BY <1>4
<1>6. map2hex(c) \in Texts /\ OfC(map2hex(c))
  BY <1>3, <1>4 DEF map2hex
<1>7. \A s \in Texts : OfC(s) => s = map2hex(c)
  <2> SUFFICES ASSUME NEW h \in Digits, NEW l \in Digits, 16 * Value(h) + Value(l) = c
               PROVE  <<91, h, l, 93>> = map2hex(c)
    OBVIOUS
  <2>1. Value(h) = c \div 16 /\ Value(l) = c % 16
    BY <1>2, <1>5
  <2> QED
    BY <1>2, <2>1 DEF map2hex
<1> HIDE DEF Texts, OfC
<1> QED
  BY <1>1, <1>6, <1>7

-----------------------------------------------------------------------------
(* What is found of the rules is the first whose mapping was asked for.    *)
LEMMA FirstIs ==
  ASSUME NEW rules, NEW n \in Nat, DOMAIN rules = 1 .. n, NEW map
  PROVE  \/ FirstOf(rules, map) = <<>> /\ \A i \in 1 .. n : rules[i][1] \notin map
         \/ \E i \in 1 .. n : /\ rules[i][1] \in map /\ FirstOf(rules, map) = <<rules[i][2]>>
                              /\ \A j \in 1 .. n : rules[j][1] \in map => i <= j
<1> DEFINE set == {i \in 1 .. n : rules[i][1] \in map}
           least == CHOOSE i \in set : \A j \in set : i <= j
<1>1. FirstOf(rules, map) = IF set = {} THEN <<>> ELSE <<rules[least][2]>>
  BY DEF FirstOf
<1>2. CASE set = {}
  BY <1>1, <1>2
<1>3. CASE set # {}
  <2>1. set \in SUBSET Nat
    OBVIOUS
  <2>2. least \in set /\ \A j \in set : least <= j
    <3> HIDE DEF set
    <3> QED
      BY <1>3, <2>1, LeastNat
  <2> QED
    BY <1>1, <1>3, <2>2
<1> QED
  BY <1>2, <1>3

(* t is what the manual says becomes of c.                                 *)
Follows(c, t) ==
  \/ \E i \in 1 .. 14 : /\ Applies(Manual(c)[i], c) /\ t = Manual(c)[i][3]
                        /\ \A j \in 1 .. i - 1 : ~Applies(Manual(c)[j], c)
  \/ (\A i \in 1 .. 14 : ~Applies(Manual(c)[i], c)) /\ t = <<c>>

(* The rules for a character are the rows k[1], k[2], ... of the manual's  *)
(* list, and these are all that are for it.                                *)
Lists(c, n, rules, k) ==
  /\ DOMAIN rules = 1 .. n /\ OwnRules(c) \o RangeRules(c) = rules
  /\ k \in [1 .. n -> 1 .. 14] /\ \A i, j \in 1 .. n : i < j => k[i] < k[j]
  /\ \A i \in 1 .. n : Manual(c)[k[i]][1] = rules[i][1]
  /\ \A i \in 1 .. n : Manual(c)[k[i]][3] = rules[i][2]
  /\ \A r \in 1 .. 14 : c \in Manual(c)[r][2] => \E i \in 1 .. n : r = k[i]
  /\ \A i \in 1 .. n : c \in Manual(c)[k[i]][2]

LEMMA RowsFollow ==
  ASSUME NEW c, NEW n \in Nat, NEW rules, NEW k, Lists(c, n, rules, k)
  PROVE  Follows(c, do_map(flags, c))
<1> USE DEF Lists
<1>1. do_map(flags, c) = IF FirstOf(rules, flags) = <<>> THEN <<c>> ELSE FirstOf(rules, flags)[1]
  BY DEF do_map
<1>2. ASSUME NEW r \in 1 .. 14, Applies(Manual(c)[r], c)
      PROVE  \E i \in 1 .. n : r = k[i] /\ rules[i][1] \in flags
  <2>1. Manual(c)[r][1] \in flags /\ c \in Manual(c)[r][2]
    BY <1>2 DEF Applies
  <2>2. PICK i \in 1 .. n : r = k[i]
    BY <2>1
  <2>3. Manual(c)[k[i]][1] = rules[i][1]
    OBVIOUS
  <2> QED
    BY <2>1, <2>2, <2>3
<1>3. \A i \in 1 .. n : rules[i][1] \in flags => Applies(Manual(c)[k[i]], c)
  BY DEF Applies
<1>4. CASE FirstOf(rules, flags) = <<>> /\ \A i \in 1 .. n : rules[i][1] \notin flags
  BY <1>1, <1>2, <1>4 DEF Follows
<1>5. ASSUME NEW i \in 1 .. n,
             rules[i][1] \in flags, FirstOf(rules, flags) = <<rules[i][2]>>,
             \A j \in 1 .. n : rules[j][1] \in flags => i <= j
      PROVE  Follows(c, do_map(flags, c))
  <2>1. do_map(flags, c) = Manual(c)[k[i]][3]
    BY <1>1, <1>5
  <2>2. k[i] \in 1 .. 14 /\ Applies(Manual(c)[k[i]], c)
    BY <1>3, <1>5
  <2>3. ASSUME NEW r \in 1 .. k[i] - 1, Applies(Manual(c)[r], c)
        PROVE  FALSE
    <3>0. r \in 1 .. 14
      BY <2>2
    <3>1. PICK j \in 1 .. n : r = k[j] /\ rules[j][1] \in flags
      BY <3>0, <1>2, <2>2, <2>3
    <3>2. i \in Nat /\ j \in Nat /\ i <= j
      <4> HIDE DEF Lists
      <4> QED
        BY <1>5, <3>1
    <3>3. k[i] \in Nat /\ k[j] \in Nat /\ k[j] < k[i]
      BY <2>2, <2>3, <3>1
    <3>4. CASE i = j
      BY <3>3, <3>4
    <3>5. CASE i < j
      <4>1. k[i] < k[j]
        BY <3>5
      <4> QED
        BY <3>3, <4>1
    <3> QED
      BY <3>2, <3>4, <3>5
  <2> QED
    BY <2>1, <2>2, <2>3 DEF Follows
<1> QED
  BY <1>4, <1>5, FirstIs

-----------------------------------------------------------------------------
(* The rows of the manual's list.                                          *)
RowTexts(c) ==
  /\ Manual(c)[1][1] = "crlf" /\ Manual(c)[1][3] = <<10>>
  /\ Manual(c)[2][1] = "crcrlf" /\ Manual(c)[2][3] = <<13, 10>>
  /\ Manual(c)[3][1] = "igncr" /\ Manual(c)[3][3] = <<>>
  /\ Manual(c)[4][1] = "lfcr" /\ Manual(c)[4][3] = <<13>>
  /\ Manual(c)[5][1] = "lfcrlf" /\ Manual(c)[5][3] = <<13, 10>>
  /\ Manual(c)[6][1] = "ignlf" /\ Manual(c)[6][3] = <<>>
  /\ Manual(c)[7][1] = "bsdel" /\ Manual(c)[7][3] = <<127>>
  /\ Manual(c)[8][1] = "delbs" /\ Manual(c)[8][3] = <<8>>
  /\ Manual(c)[9][1] = "spchex" /\ Manual(c)[9][3] = map2hex(c)
  /\ Manual(c)[10][1] = "tabhex" /\ Manual(c)[10][3] = map2hex(c)
  /\ Manual(c)[11][1] = "crhex" /\ Manual(c)[11][3] = map2hex(c)
  /\ Manual(c)[12][1] = "lfhex" /\ Manual(c)[12][3] = map2hex(c)
  /\ Manual(c)[13][1] = "8bithex" /\ Manual(c)[13][3] = map2hex(c)
  /\ Manual(c)[14][1] = "nrmhex" /\ Manual(c)[14][3] = map2hex(c)

LEMMA RowsTo == \A c \in 0 .. 255 : RowTexts(c)
BY HexIs DEF RowTexts, Manual, CR, LF, BS, DEL

LEMMA RowsOf ==
  ASSUME NEW c
  PROVE  /\ Manual(c)[1][2] = {13}
         /\ Manual(c)[2][2] = {13}
         /\ Manual(c)[3][2] = {13}
         /\ Manual(c)[4][2] = {10}
         /\ Manual(c)[5][2] = {10}
         /\ Manual(c)[6][2] = {10}
         /\ Manual(c)[7][2] = {8}
         /\ Manual(c)[8][2] = {127}
         /\ Manual(c)[9][2] = ({127} \cup 0 .. 31) \ {13, 10, 9}
         /\ Manual(c)[10][2] = {9}
         /\ Manual(c)[11][2] = {13}
         /\ Manual(c)[12][2] = {10}
         /\ Manual(c)[13][2] = 128 .. 255
         /\ Manual(c)[14][2] = 32 .. 126
BY DEF Manual, CR, LF, BS, DEL, TAB

(* Which rows are for a character.                                         *)
IsFor(r, c) ==
  \/ r \in {1, 2, 3, 11} /\ c = 13
  \/ r \in {4, 5, 6, 12} /\ c = 10
  \/ r = 7 /\ c = 8
  \/ r = 8 /\ c = 127
  \/ r = 9 /\ (c = 127 \/ (c < 32 /\ c \notin {13, 10, 9}))
  \/ r = 10 /\ c = 9
  \/ r = 13 /\ 128 <= c
  \/ r = 14 /\ 32 <= c /\ c < 127

LEMMA RowsFor == \A c \in 0 .. 255, r \in 1 .. 14 : c \in Manual(c)[r][2] <=> IsFor(r, c)
<1> SUFFICES ASSUME NEW c \in 0 .. 255
             PROVE  \A r \in 1 .. 14 : c \in Manual(c)[r][2] <=> IsFor(r, c)
  OBVIOUS
<1>1. /\ Manual(c)[1][2] = {13}
      /\ Manual(c)[2][2] = {13}
      /\ Manual(c)[3][2] = {13}
      /\ Manual(c)[4][2] = {10}
      /\ Manual(c)[5][2] = {10}
      /\ Manual(c)[6][2] = {10}
      /\ Manual(c)[7][2] = {8}
      /\ Manual(c)[8][2] = {127}
      /\ Manual(c)[9][2] = ({127} \cup 0 .. 31) \ {13, 10, 9}
      /\ Manual(c)[10][2] = {9}
      /\ Manual(c)[11][2] = {13}
      /\ Manual(c)[12][2] = {10}
      /\ Manual(c)[13][2] = 128 .. 255
      /\ Manual(c)[14][2] = 32 .. 126
  BY RowsOf
<1>2. \A r \in 1 .. 14 : \/ r = 1 \/ r = 2 \/ r = 3 \/ r = 4 \/ r = 5 \/ r = 6 \/ r = 7
                         \/ r = 8 \/ r = 9 \/ r = 10 \/ r = 11 \/ r = 12 \/ r = 13 \/ r = 14
  OBVIOUS
<1> QED
  BY <1>1, <1>2, SMTT(30) DEF IsFor

-----------------------------------------------------------------------------
LEMMA JoinTwo ==
  ASSUME NEW x, NEW y
  PROVE  <<x>> \o <<y>> = <<x, y>>
<1> DEFINE A == {x, y}
<1>1. <<x>> \in Seq(A) /\ <<y>> \in Seq(A) /\ <<x, y>> \in Seq(A)
  OBVIOUS
<1>2. Len(<<x>>) = 1 /\ Len(<<y>>) = 1 /\ Len(<<x, y>>) = 2
  OBVIOUS
<1> HIDE DEF A
<1>3. /\ <<x>> \o <<y>> \in Seq(A) /\ Len(<<x>> \o <<y>>) = 2
      /\ (<<x>> \o <<y>>)[1] = x /\ (<<x>> \o <<y>>)[2] = y
  BY <1>1, <1>2, ConcatProperties
<1>4. \A i \in 1 .. 2 : (<<x>> \o <<y>>)[i] = <<x, y>>[i]
  BY <1>3
<1> QED
  BY <1>1, <1>2, <1>3, <1>4, SeqEqual

(* For every character the rules are the rows that are for it, in order:   *)
(* one class of characters after the other.                                *)
LEMMA MapFollows ==
  ASSUME NEW c \in 0 .. 255
  PROVE  Follows(c, do_map(flags, c))
<1>1. RowTexts(c)
  BY RowsTo, SMTT(30)
<1>2. \A r \in 1 .. 14 : c \in Manual(c)[r][2] <=> IsFor(r, c)
  BY RowsFor
<1>3. CASE c = 13
  <2> DEFINE rules == <<<<"crlf", <<10>>>>, <<"crcrlf", <<13, 10>>>>, <<"igncr", <<>>>>, <<"crhex", map2hex(c)>>>>
             k == <<1, 2, 3, 11>>
  <2>1. OwnRules(c) = <<<<"crlf", <<10>>>>, <<"crcrlf", <<13, 10>>>>, <<"igncr", <<>>>>, <<"crhex", map2hex(c)>>>>
    BY <1>3 DEF OwnRules, CR, LF, BS, DEL, TAB
  <2>2. RangeRules(c) = <<>>
    BY <1>3 DEF RangeRules, Special, CR, LF, BS, DEL, TAB
  <2>3. OwnRules(c) \o RangeRules(c) = rules
    BY <2>1, <2>2, JoinTwo
  <2>4. /\ DOMAIN rules = 1 .. 4 /\ k \in [1 .. 4 -> 1 .. 14]
        /\ \A i, j \in 1 .. 4 : i < j => k[i] < k[j]
    OBVIOUS
  <2>5. \A i \in 1 .. 4 : Manual(c)[k[i]][1] = rules[i][1]
    BY <1>1 DEF RowTexts
  <2>6. \A i \in 1 .. 4 : Manual(c)[k[i]][3] = rules[i][2]
    <3> TAKE i \in 1 .. 4
    <3>1. CASE i = 1
      BY <1>1, <3>1 DEF RowTexts
    <3>2. CASE i = 2
      BY <1>1, <3>2 DEF RowTexts
    <3>3. CASE i = 3
      BY <1>1, <3>3 DEF RowTexts
    <3>4. CASE i = 4
      BY <1>1, <3>4 DEF RowTexts
    <3> QED
      BY <3>1, <3>2, <3>3, <3>4
  <2>7. \A r \in 1 .. 14 : c \in Manual(c)[r][2] <=> r \in {1, 2, 3, 11}
    BY <1>2, <1>3 DEF IsFor
  <2>8. \A r \in 1 .. 14 : r \in {1, 2, 3, 11} <=> \E i \in 1 .. 4 : r = k[i]
    OBVIOUS
  <2> HIDE DEF rules, k
  <2>9. Lists(c, 4, rules, k)
    BY <2>3, <2>4, <2>5, <2>6, <2>7, <2>8 DEF Lists
  <2> QED
    BY <2>9, RowsFollow
<1>4. CASE c = 10
  <2> DEFINE rules == <<<<"lfcr", <<13>>>>, <<"lfcrlf", <<13, 10>>>>, <<"ignlf", <<>>>>, <<"lfhex", map2hex(c)>>>>
             k == <<4, 5, 6, 12>>
  <2>1. OwnRules(c) = <<<<"lfcr", <<13>>>>, <<"lfcrlf", <<13, 10>>>>, <<"ignlf", <<>>>>, <<"lfhex", map2hex(c)>>>>
    BY <1>4 DEF OwnRules, CR, LF, BS, DEL, TAB
  <2>2. RangeRules(c) = <<>>
    BY <1>4 DEF RangeRules, Special, CR, LF, BS, DEL, TAB
  <2>3. OwnRules(c) \o RangeRules(c) = rules
    BY <2>1, <2>2, JoinTwo
  <2>4. /\ DOMAIN rules = 1 .. 4 /\ k \in [1 .. 4 -> 1 .. 14]
        /\ \A i, j \in 1 .. 4 : i < j => k[i] < k[j]
    OBVIOUS
  <2>5. \A i \in 1 .. 4 : Manual(c)[k[i]][1] = rules[i][1]
    BY <1>1 DEF RowTexts
  <2>6. \A i \in 1 .. 4 : Manual(c)[k[i]][3] = rules[i][2]
    <3> TAKE i \in 1 .. 4
    <3>1. CASE i = 1
      BY <1>1, <3>1 DEF RowTexts
    <3>2. CASE i = 2
      BY <1>1, <3>2 DEF RowTexts
    <3>3. CASE i = 3
      BY <1>1, <3>3 DEF RowTexts
    <3>4. CASE i = 4
      BY <1>1, <3>4 DEF RowTexts
    <3> QED
      BY <3>1, <3>2, <3>3, <3>4
  <2>7. \A r \in 1 .. 14 : c \in Manual(c)[r][2] <=> r \in {4, 5, 6, 12}
    BY <1>2, <1>4 DEF IsFor
  <2>8. \A r \in 1 .. 14 : r \in {4, 5, 6, 12} <=> \E i \in 1 .. 4 : r = k[i]
    OBVIOUS
  <2> HIDE DEF rules, k
  <2>9. Lists(c, 4, rules, k)
    BY <2>3, <2>4, <2>5, <2>6, <2>7, <2>8 DEF Lists
  <2> QED
    BY <2>9, RowsFollow
<1>5. CASE c = 9
  <2> DEFINE rules == <<<<"tabhex", map2hex(c)>>>>
             k == <<10>>
  <2>1. OwnRules(c) = <<<<"tabhex", map2hex(c)>>>>
    BY <1>5 DEF OwnRules, CR, LF, BS, DEL, TAB
  <2>2. RangeRules(c) = <<>>
    BY <1>5 DEF RangeRules, Special, CR, LF, BS, DEL, TAB
  <2>3. OwnRules(c) \o RangeRules(c) = rules
    BY <2>1, <2>2, JoinTwo
  <2>4. /\ DOMAIN rules = 1 .. 1 /\ k \in [1 .. 1 -> 1 .. 14]
        /\ \A i, j \in 1 .. 1 : i < j => k[i] < k[j]
    OBVIOUS
  <2>5. \A i \in 1 .. 1 : Manual(c)[k[i]][1] = rules[i][1]
    BY <1>1 DEF RowTexts
  <2>6. \A i \in 1 .. 1 : Manual(c)[k[i]][3] = rules[i][2]
    BY <1>1 DEF RowTexts
  <2>7. \A r \in 1 .. 14 : c \in Manual(c)[r][2] <=> r \in {10}
    BY <1>2, <1>5 DEF IsFor
  <2>8. \A r \in 1 .. 14 : r \in {10} <=> \E i \in 1 .. 1 : r = k[i]
    OBVIOUS
  <2> HIDE DEF rules, k
  <2>9. Lists(c, 1, rules, k)
    BY <2>3, <2>4, <2>5, <2>6, <2>7, <2>8 DEF Lists
  <2> QED
    BY <2>9, RowsFollow
<1>6. CASE c = 8
  <2> DEFINE rules == <<<<"bsdel", <<127>>>>, <<"spchex", map2hex(c)>>>>
             k == <<7, 9>>
  <2>1. OwnRules(c) = <<<<"bsdel", <<127>>>>>>
    BY <1>6 DEF OwnRules, CR, LF, BS, DEL, TAB
  <2>2. RangeRules(c) = <<<<"spchex", map2hex(c)>>>>
    BY <1>6 DEF RangeRules, Special, CR, LF, BS, DEL, TAB
  <2>3. OwnRules(c) \o RangeRules(c) = rules
    BY <2>1, <2>2, JoinTwo
  <2>4. /\ DOMAIN rules = 1 .. 2 /\ k \in [1 .. 2 -> 1 .. 14]
        /\ \A i, j \in 1 .. 2 : i < j => k[i] < k[j]
    OBVIOUS
  <2>5. \A i \in 1 .. 2 : Manual(c)[k[i]][1] = rules[i][1]
    BY <1>1 DEF RowTexts
  <2>6. \A i \in 1 .. 2 : Manual(c)[k[i]][3] = rules[i][2]
    <3> TAKE i \in 1 .. 2
    <3>1. CASE i = 1
      BY <1>1, <3>1 DEF RowTexts
    <3>2. CASE i = 2
      BY <1>1, <3>2 DEF RowTexts
    <3> QED
      BY <3>1, <3>2
  <2>7. \A r \in 1 .. 14 : c \in Manual(c)[r][2] <=> r \in {7, 9}
    BY <1>2, <1>6 DEF IsFor
  <2>8. \A r \in 1 .. 14 : r \in {7, 9} <=> \E i \in 1 .. 2 : r = k[i]
    OBVIOUS
  <2> HIDE DEF rules, k
  <2>9. Lists(c, 2, rules, k)
    BY <2>3, <2>4, <2>5, <2>6, <2>7, <2>8 DEF Lists
  <2> QED
    BY <2>9, RowsFollow
<1>7. CASE c = 127
  <2> DEFINE rules == <<<<"delbs", <<8>>>>, <<"spchex", map2hex(c)>>>>
             k == <<8, 9>>
  <2>1. OwnRules(c) = <<<<"delbs", <<8>>>>>>
    BY <1>7 DEF OwnRules, CR, LF, BS, DEL, TAB
  <2>2. RangeRules(c) = <<<<"spchex", map2hex(c)>>>>
    BY <1>7 DEF RangeRules, Special, CR, LF, BS, DEL, TAB
  <2>3. OwnRules(c) \o RangeRules(c) = rules
    BY <2>1, <2>2, JoinTwo
  <2>4. /\ DOMAIN rules = 1 .. 2 /\ k \in [1 .. 2 -> 1 .. 14]
        /\ \A i, j \in 1 .. 2 : i < j => k[i] < k[j]
    OBVIOUS
  <2>5. \A i \in 1 .. 2 : Manual(c)[k[i]][1] = rules[i][1]
    BY <1>1 DEF RowTexts
  <2>6. \A i \in 1 .. 2 : Manual(c)[k[i]][3] = rules[i][2]
    <3> TAKE i \in 1 .. 2
    <3>1. CASE i = 1
      BY <1>1, <3>1 DEF RowTexts
    <3>2. CASE i = 2
      BY <1>1, <3>2 DEF RowTexts
    <3> QED
      BY <3>1, <3>2
  <2>7. \A r \in 1 .. 14 : c \in Manual(c)[r][2] <=> r \in {8, 9}
    BY <1>2, <1>7 DEF IsFor
  <2>8. \A r \in 1 .. 14 : r \in {8, 9} <=> \E i \in 1 .. 2 : r = k[i]
    OBVIOUS
  <2> HIDE DEF rules, k
  <2>9. Lists(c, 2, rules, k)
    BY <2>3, <2>4, <2>5, <2>6, <2>7, <2>8 DEF Lists
  <2> QED
    BY <2>9, RowsFollow
<1>8. CASE c < 32 /\ c \notin {8, 9, 10, 13}
  <2> DEFINE rules == <<<<"spchex", map2hex(c)>>>>
             k == <<9>>
  <2>1. OwnRules(c) = <<>>
    BY <1>8 DEF OwnRules, CR, LF, BS, DEL, TAB
  <2>2. RangeRules(c) = <<<<"spchex", map2hex(c)>>>>
    <3>1. Special(c) /\ ~(c >= 128) /\ ~(32 <= c /\ c < 127)
      BY <1>8 DEF Special, CR, LF, BS, DEL, TAB
    <3>2. RangeRules(c) = <<<<"spchex", map2hex(c)>>>> \o <<>> \o <<>>
      BY <3>1 DEF RangeRules
    <3> QED
      BY <3>2
  <2>3. OwnRules(c) \o RangeRules(c) = rules
    BY <2>1, <2>2, JoinTwo
  <2>4. /\ DOMAIN rules = 1 .. 1 /\ k \in [1 .. 1 -> 1 .. 14]
        /\ \A i, j \in 1 .. 1 : i < j => k[i] < k[j]
    OBVIOUS
  <2>5. \A i \in 1 .. 1 : Manual(c)[k[i]][1] = rules[i][1]
    BY <1>1 DEF RowTexts
  <2>6. \A i \in 1 .. 1 : Manual(c)[k[i]][3] = rules[i][2]
    BY <1>1 DEF RowTexts
  <2>7. \A r \in 1 .. 14 : c \in Manual(c)[r][2] <=> r \in {9}
    BY <1>2, <1>8 DEF IsFor
  <2>8. \A r \in 1 .. 14 : r \in {9} <=> \E i \in 1 .. 1 : r = k[i]
    OBVIOUS
  <2> HIDE DEF rules, k
  <2>9. Lists(c, 1, rules, k)
    BY <2>3, <2>4, <2>5, <2>6, <2>7, <2>8 DEF Lists
  <2> QED
    BY <2>9, RowsFollow
<1>9. CASE 32 <= c /\ c < 127
  <2> DEFINE rules == <<<<"nrmhex", map2hex(c)>>>>
             k == <<14>>
  <2>1. OwnRules(c) = <<>>
    BY <1>9 DEF OwnRules, CR, LF, BS, DEL, TAB
  <2>2. RangeRules(c) = <<<<"nrmhex", map2hex(c)>>>>
    <3>1. ~Special(c) /\ ~(c >= 128) /\ (32 <= c /\ c < 127)
      BY <1>9 DEF Special, CR, LF, BS, DEL, TAB
    <3>2. RangeRules(c) = <<>> \o <<>> \o <<<<"nrmhex", map2hex(c)>>>>
      BY <3>1 DEF RangeRules
    <3> QED
      BY <3>2
  <2>3. OwnRules(c) \o RangeRules(c) = rules
    BY <2>1, <2>2, JoinTwo
  <2>4. /\ DOMAIN rules = 1 .. 1 /\ k \in [1 .. 1 -> 1 .. 14]
        /\ \A i, j \in 1 .. 1 : i < j => k[i] < k[j]
    OBVIOUS
  <2>5. \A i \in 1 .. 1 : Manual(c)[k[i]][1] = rules[i][1]
    BY <1>1 DEF RowTexts
  <2>6. \A i \in 1 .. 1 : Manual(c)[k[i]][3] = rules[i][2]
    BY <1>1 DEF RowTexts
  <2>7. \A r \in 1 .. 14 : c \in Manual(c)[r][2] <=> r \in {14}
    BY <1>2, <1>9 DEF IsFor
  <2>8. \A r \in 1 .. 14 : r \in {14} <=> \E i \in 1 .. 1 : r = k[i]
    OBVIOUS
  <2> HIDE DEF rules, k
  <2>9. Lists(c, 1, rules, k)
    BY <2>3, <2>4, <2>5, <2>6, <2>7, <2>8 DEF Lists
  <2> QED
    BY <2>9, RowsFollow
<1>10. CASE 128 <= c
  <2> DEFINE rules == <<<<"8bithex", map2hex(c)>>>>
             k == <<13>>
  <2>1. OwnRules(c) = <<>>
    BY <1>10 DEF OwnRules, CR, LF, BS, DEL, TAB
  <2>2. RangeRules(c) = <<<<"8bithex", map2hex(c)>>>>
    <3>1. ~Special(c) /\ c >= 128 /\ ~(32 <= c /\ c < 127)
      BY <1>10 DEF Special, CR, LF, BS, DEL, TAB
    <3>2. RangeRules(c) = <<>> \o <<<<"8bithex", map2hex(c)>>>> \o <<>>
      BY <3>1 DEF RangeRules
    <3> QED
      BY <3>2
  <2>3. OwnRules(c) \o RangeRules(c) = rules
    BY <2>1, <2>2, JoinTwo
  <2>4. /\ DOMAIN rules = 1 .. 1 /\ k \in [1 .. 1 -> 1 .. 14]
        /\ \A i, j \in 1 .. 1 : i < j => k[i] < k[j]
    OBVIOUS
  <2>5. \A i \in 1 .. 1 : Manual(c)[k[i]][1] = rules[i][1]
    BY <1>1 DEF RowTexts
  <2>6. \A i \in 1 .. 1 : Manual(c)[k[i]][3] = rules[i][2]
    BY <1>1 DEF RowTexts
  <2>7. \A r \in 1 .. 14 : c \in Manual(c)[r][2] <=> r \in {13}
    BY <1>2, <1>10 DEF IsFor
  <2>8. \A r \in 1 .. 14 : r \in {13} <=> \E i \in 1 .. 1 : r = k[i]
    OBVIOUS
  <2> HIDE DEF rules, k
  <2>9. Lists(c, 1, rules, k)
    BY <2>3, <2>4, <2>5, <2>6, <2>7, <2>8 DEF Lists
  <2> QED
    BY <2>9, RowsFollow
<1> QED
  BY <1>3, <1>4, <1>5, <1>6, <1>7, <1>8, <1>9, <1>10

-----------------------------------------------------------------------------
MapInv == /\ phase = "parsing" => from = -1
          /\ from # -1 => from \in Bytes /\ to = do_map(flags, from)

(* Whatever mappings are asked for, in whatever order, every byte becomes  *)
(* what the first of the manual's list that is for it makes of it.         *)
THEOREM MapAsDocumented == Spec => []MapFollowsManual
<1>1. Init => MapInv
  BY DEF Init, MapInv
<1>2. MapInv /\ [Next]_vars => MapInv'
  <2> SUFFICES ASSUME MapInv, [Next]_vars PROVE MapInv'
    OBVIOUS
  <2>1. CASE parse_map
    BY <2>1 DEF MapInv, parse_map
  <2>2. CASE Run
    BY <2>2 DEF MapInv, Run
  <2>3. CASE MapByte
    BY <2>3 DEF MapInv, MapByte
  <2>4. CASE UNCHANGED vars
    BY <2>4 DEF MapInv, vars
  <2> QED
    BY <2>1, <2>2, <2>3, <2>4 DEF Next
<1>3. MapInv => MapFollowsManual
  <2> SUFFICES ASSUME MapInv, from # -1 PROVE Follows(from, to)
    BY DEF MapFollowsManual, Follows
  <2>1. from \in 0 .. 255 /\ to = do_map(flags, from)
    BY CharMapAssumption DEF MapInv
  <2> QED
    BY <2>1, MapFollows
<1> QED
  BY <1>1, <1>2, <1>3, PTL DEF Spec

-----------------------------------------------------------------------------
(***************************************************************************)
(* Splitting a command.                                                    *)
(***************************************************************************)
Lexer == [state : {"ST_DELIM", "ST_QUOTE", "ST_ARG"}, qc : {"SQ", "DQ"}, bs : BOOLEAN,
          buff : Seq(Char), args : Seq(Seq(Char)), flags : SUBSET {"SPLIT_DROP", "SPLIT_TRUNC"}]

Meant == [words : Seq(Seq(Char)), word : Seq(Char), begun : BOOLEAN,
          within : {"none", "SQ", "DQ", "BS"}, old : Nat, second : BOOLEAN, room : Nat]

SplitType == lex \in Lexer /\ meant \in Meant

(* The arguments for which there is room, cut.                             *)
Kept(ws) == First([i \in DOMAIN ws |-> First(ws[i], MaxArg)], ArgvSz)

(* The flags for the words ws, the first n of which are of the first       *)
(* string, and the word w after them.                                      *)
Dropped(ws, n) == n < Len(ws) /\ Len(ws) > ArgvSz
Cut(ws, n)     == \E i \in n + 1 .. Len(ws) : Len(ws[i]) > MaxArg
Warned(drop, trunc) == (IF drop THEN {"SPLIT_DROP"} ELSE {}) \cup (IF trunc THEN {"SPLIT_TRUNC"} ELSE {})

(* What the lexer holds is what it should hold of m.                       *)
Holds(q, m) ==
  /\ q.args = Kept(m.words) /\ q.buff = First(m.word, MaxArg)
  /\ q.flags = Warned(Dropped(m.words, m.old), Cut(m.words, m.old) \/ Len(m.word) > MaxArg)
  /\ m.old <= Len(m.words)

(* And it is where it should be, with no backslash pending.                *)
Agrees(q, m) ==
  /\ Holds(q, m) /\ ~q.bs /\ m.within # "BS"
  /\ q.state = (IF m.within # "none" THEN "ST_QUOTE" ELSE IF m.begun THEN "ST_ARG" ELSE "ST_DELIM")
  /\ m.within # "none" => q.qc = m.within /\ m.begun
  /\ ~m.begun => m.word = <<>>

(* Every step of the writer keeps them together.                           *)
SplitInv == SplitType /\ (Agrees(lex, meant) \/ (meant.within = "BS" /\ lex.bs))

-----------------------------------------------------------------------------
(* The first n elements of a sequence.                                     *)
LEMMA FirstType ==
  ASSUME NEW S, NEW s \in Seq(S), NEW n \in Nat
  PROVE  First(s, n) \in Seq(S) /\ Len(First(s, n)) = (IF Len(s) < n THEN Len(s) ELSE n)
BY DEF First

LEMMA FirstAppend ==
  ASSUME NEW S, NEW s \in Seq(S), NEW c \in S, NEW n \in Nat
  PROVE  First(Append(s, c), n) = IF Len(s) < n THEN Append(First(s, n), c) ELSE First(s, n)
<1>1. CASE Len(s) < n
  BY <1>1 DEF First
<1>2. CASE ~(Len(s) < n)
  BY <1>2 DEF First
<1> QED
  BY <1>1, <1>2

LEMMA KeptAppend ==
  ASSUME SplitAssumption, NEW ws \in Seq(Seq(Char)), NEW w \in Seq(Char)
  PROVE  /\ Kept(ws) \in Seq(Seq(Char))
         /\ Len(Kept(ws)) = (IF Len(ws) < ArgvSz THEN Len(ws) ELSE ArgvSz)
         /\ Kept(Append(ws, w)) = IF Len(ws) < ArgvSz THEN Append(Kept(ws), First(w, MaxArg)) ELSE Kept(ws)
<1> DEFINE Each(v) == [i \in DOMAIN v |-> First(v[i], MaxArg)]
<1>1. MaxArg \in Nat /\ ArgvSz \in Nat
  BY DEF SplitAssumption
<1>2. Each(ws) \in Seq(Seq(Char)) /\ Len(Each(ws)) = Len(ws)
  <2>1. \A i \in DOMAIN ws : First(ws[i], MaxArg) \in Seq(Char)
    BY <1>1, FirstType
  <2>2. DOMAIN ws = 1 .. Len(ws) /\ Len(ws) \in Nat
    OBVIOUS
  <2>3. Each(ws) \in [1 .. Len(ws) -> Seq(Char)]
    BY <2>1, <2>2
  <2>4. \A S, f : \A n \in Nat : f \in [1 .. n -> S] => f \in Seq(S) /\ Len(f) = n
    OBVIOUS
  <2> HIDE DEF Each
  <2> QED
    BY <2>2, <2>3, <2>4, Zenon
<1>3. First(w, MaxArg) \in Seq(Char)
  BY <1>1, FirstType
<1>4. Each(Append(ws, w)) = Append(Each(ws), First(w, MaxArg))
  <2>1. DOMAIN Append(ws, w) = 1 .. Len(ws) + 1 /\ DOMAIN ws = 1 .. Len(ws)
    OBVIOUS
  <2>2. \A i \in 1 .. Len(ws) + 1 :
          First(Append(ws, w)[i], MaxArg) = IF i = Len(ws) + 1 THEN First(w, MaxArg) ELSE First(ws[i], MaxArg)
    OBVIOUS
  <2>3. DOMAIN Append(Each(ws), First(w, MaxArg)) = 1 .. Len(ws) + 1
    BY <1>2, <1>3
  <2>4. \A i \in 1 .. Len(ws) + 1 :
          Append(Each(ws), First(w, MaxArg))[i] = IF i = Len(ws) + 1 THEN First(w, MaxArg) ELSE First(ws[i], MaxArg)
    <3>1. \A i \in 1 .. Len(ws) : Each(ws)[i] = First(ws[i], MaxArg)
      BY <2>1
    <3> HIDE DEF Each
    <3> QED
      BY <1>2, <1>3, <3>1
  <2>5. Append(Each(ws), First(w, MaxArg)) = [i \in 1 .. Len(ws) + 1 |-> Append(Each(ws), First(w, MaxArg))[i]]
    BY <1>2, <1>3
  <2> QED
    BY <2>1, <2>2, <2>4, <2>5
<1>5. \A v : Kept(v) = First(Each(v), ArgvSz)
  BY DEF Kept
<1> HIDE DEF Each
<1>6. Kept(ws) \in Seq(Seq(Char)) /\ Len(Kept(ws)) = (IF Len(ws) < ArgvSz THEN Len(ws) ELSE ArgvSz)
  <2>1. /\ First(Each(ws), ArgvSz) \in Seq(Seq(Char))
        /\ Len(First(Each(ws), ArgvSz)) = (IF Len(Each(ws)) < ArgvSz THEN Len(Each(ws)) ELSE ArgvSz)
    BY <1>1, <1>2, FirstType
  <2> QED
    BY <1>2, <1>5, <2>1
<1>7. First(Append(Each(ws), First(w, MaxArg)), ArgvSz)
        = IF Len(Each(ws)) < ArgvSz THEN Append(First(Each(ws), ArgvSz), First(w, MaxArg))
                                    ELSE First(Each(ws), ArgvSz)
  BY <1>1, <1>2, <1>3, FirstAppend
<1> QED
  BY <1>2, <1>4, <1>5, <1>6, <1>7

(* save() adds a character to the current word.                            *)
LEMMA Saves ==
  ASSUME SplitAssumption, NEW q \in Lexer, NEW m \in Meant, NEW c \in Char, Holds(q, m)
  PROVE  /\ save(q, c) \in Lexer /\ Letter(m, c) \in Meant /\ Holds(save(q, c), Letter(m, c))
         /\ save(q, c).state = q.state /\ save(q, c).qc = q.qc /\ save(q, c).bs = q.bs
<1>1. MaxArg \in Nat /\ ArgvSz \in Nat
  BY DEF SplitAssumption
<1>2. Letter(m, c) \in Meant
  <2>1. m.word \in Seq(Char)
    BY DEF Meant
  <2>2. Append(m.word, c) \in Seq(Char)
    BY <2>1
  <2>3. Letter(m, c) = [m EXCEPT !.word = Append(m.word, c), !.begun = TRUE]
    BY DEF Letter
  <2> QED
    BY <2>2, <2>3 DEF Meant
<1>3. /\ Letter(m, c).words = m.words /\ Letter(m, c).word = Append(m.word, c)
      /\ Letter(m, c).old = m.old /\ Len(Append(m.word, c)) = Len(m.word) + 1
  BY DEF Letter, Meant
<1>4. m.word \in Seq(Char) /\ q.buff \in Seq(Char) /\ Len(q.buff) = (IF Len(m.word) < MaxArg THEN Len(m.word) ELSE MaxArg)
  BY <1>1, FirstType DEF Meant, Lexer, Holds
<1>5. First(Append(m.word, c), MaxArg) = IF Len(m.word) < MaxArg THEN Append(q.buff, c) ELSE q.buff
  <2>1. First(Append(m.word, c), MaxArg)
          = IF Len(m.word) < MaxArg THEN Append(First(m.word, MaxArg), c) ELSE First(m.word, MaxArg)
    BY <1>1, <1>4, FirstAppend
  <2> QED
    BY <2>1 DEF Holds
<1>6. CASE Len(m.word) < MaxArg
  <2>1. save(q, c) = [q EXCEPT !.buff = Append(q.buff, c)] /\ Append(q.buff, c) \in Seq(Char)
    BY <1>1, <1>4, <1>6 DEF save
  <2>2. save(q, c) \in Lexer /\ save(q, c).buff = Append(q.buff, c) /\ save(q, c).args = q.args
        /\ save(q, c).flags = q.flags /\ save(q, c).state = q.state /\ save(q, c).qc = q.qc /\ save(q, c).bs = q.bs
    BY <2>1, <1>4 DEF Lexer
  <2>3. ~(Len(m.word) > MaxArg) /\ ~(Len(m.word) + 1 > MaxArg)
    BY <1>1, <1>4, <1>6
  <2> QED
    BY <1>2, <1>3, <1>5, <1>6, <2>2, <2>3 DEF Holds
<1>7. CASE ~(Len(m.word) < MaxArg)
  <2>1. save(q, c) = [q EXCEPT !.flags = @ \cup {"SPLIT_TRUNC"}]
    BY <1>1, <1>4, <1>7 DEF save
  <2>2. save(q, c) \in Lexer /\ save(q, c).buff = q.buff /\ save(q, c).args = q.args
        /\ save(q, c).flags = q.flags \cup {"SPLIT_TRUNC"} /\ save(q, c).state = q.state
        /\ save(q, c).qc = q.qc /\ save(q, c).bs = q.bs
    BY <2>1 DEF Lexer
  <2>3. Len(m.word) + 1 > MaxArg
    BY <1>1, <1>4, <1>7
  <2>4. \A d, t : Warned(d, t) \cup {"SPLIT_TRUNC"} = Warned(d, TRUE)
    BY DEF Warned
  <2>5. save(q, c).flags = Warned(Dropped(m.words, m.old), Cut(m.words, m.old) \/ Len(m.word) + 1 > MaxArg)
    <3>1. save(q, c).flags = Warned(Dropped(m.words, m.old), TRUE)
      BY <2>2, <2>4 DEF Holds
    <3> QED
      BY <3>1, <2>3
  <2> QED
    BY <1>2, <1>3, <1>5, <1>7, <2>2, <2>5 DEF Holds
<1> QED
  BY <1>6, <1>7

(* push() completes the current word.                                      *)
Complete(m) == [m EXCEPT !.words = Append(@, m.word), !.word = <<>>, !.begun = FALSE]

LEMMA Pushes ==
  ASSUME SplitAssumption, NEW q \in Lexer, NEW m \in Meant, Holds(q, m)
  PROVE  /\ push(q) \in Lexer /\ Complete(m) \in Meant /\ Holds(push(q), Complete(m))
         /\ push(q).state = q.state /\ push(q).qc = q.qc /\ push(q).bs = q.bs
<1>1. MaxArg \in Nat /\ ArgvSz \in Nat
  BY DEF SplitAssumption
<1>2. m.word \in Seq(Char) /\ m.words \in Seq(Seq(Char)) /\ m.old \in Nat /\ m.old <= Len(m.words)
  BY DEF Meant, Holds
<1>3. Complete(m) \in Meant
  <2>1. Append(m.words, m.word) \in Seq(Seq(Char)) /\ <<>> \in Seq(Char)
    BY <1>2
  <2>2. Complete(m) = [m EXCEPT !.words = Append(m.words, m.word), !.word = <<>>, !.begun = FALSE]
    BY DEF Complete
  <2> QED
    BY <2>1, <2>2 DEF Meant
<1>4. /\ Complete(m).words = Append(m.words, m.word) /\ Complete(m).word = <<>> /\ Complete(m).old = m.old
  BY DEF Complete, Meant
<1>5. Len(Append(m.words, m.word)) = Len(m.words) + 1
  BY <1>2
<1>6. /\ Len(q.args) = (IF Len(m.words) < ArgvSz THEN Len(m.words) ELSE ArgvSz)
      /\ Kept(Append(m.words, m.word)) = IF Len(m.words) < ArgvSz THEN Append(q.args, q.buff) ELSE q.args
  BY <1>2, KeptAppend DEF Holds
<1>7. First(<<>>, MaxArg) = <<>>
  BY <1>1 DEF First
<1>8. Cut(Append(m.words, m.word), m.old) <=> Cut(m.words, m.old) \/ Len(m.word) > MaxArg
  <2>1. \A i \in 1 .. Len(m.words) + 1 :
          Append(m.words, m.word)[i] = IF i = Len(m.words) + 1 THEN m.word ELSE m.words[i]
    BY <1>2
  <2>2. \A i \in m.old + 1 .. Len(m.words) : i \in 1 .. Len(m.words) + 1 /\ i # Len(m.words) + 1
    BY <1>2
  <2>3. Len(m.words) + 1 \in m.old + 1 .. Len(m.words) + 1
    BY <1>2
  <2>4. \A i \in m.old + 1 .. Len(m.words) + 1 : i \in 1 .. Len(m.words) + 1
                                                /\ (i = Len(m.words) + 1 \/ i \in m.old + 1 .. Len(m.words))
    BY <1>2
  <2>5. \A i \in m.old + 1 .. Len(m.words) + 1 : i \in m.old + 1 .. Len(m.words) \/ i = Len(m.words) + 1
    BY <2>4
  <2>6. \A i \in m.old + 1 .. Len(m.words) : i \in m.old + 1 .. Len(m.words) + 1
    BY <1>2
  <2>7. Append(m.words, m.word)[Len(m.words) + 1] = m.word
    BY <1>2
  <2>8. \A i \in m.old + 1 .. Len(m.words) : Append(m.words, m.word)[i] = m.words[i]
    BY <2>1, <2>2
  <2>9. Cut(Append(m.words, m.word), m.old)
          <=> \E i \in m.old + 1 .. Len(m.words) + 1 : Len(Append(m.words, m.word)[i]) > MaxArg
    BY <1>5 DEF Cut
  <2> QED
    BY <2>3, <2>5, <2>6, <2>7, <2>8, <2>9, Zenon DEF Cut
<1>9. ~(Len(<<>>) > MaxArg)
  BY <1>1
<1>10. CASE Len(m.words) < ArgvSz
  <2>1. /\ push(q) = [q EXCEPT !.args = Append(q.args, q.buff), !.buff = <<>>]
        /\ Append(q.args, q.buff) \in Seq(Seq(Char)) /\ <<>> \in Seq(Char)
    <3>1. q.args \in Seq(Seq(Char)) /\ q.buff \in Seq(Char)
      BY DEF Lexer
    <3>2. Append(q.args, q.buff) \in Seq(Seq(Char)) /\ <<>> \in Seq(Char)
      BY <3>1
    <3>3. Len(q.args) < ArgvSz
      BY <1>6, <1>10
    <3> QED
      BY <3>2, <3>3 DEF push
  <2>2. push(q) \in Lexer /\ push(q).buff = <<>> /\ push(q).args = Append(q.args, q.buff)
        /\ push(q).flags = q.flags /\ push(q).state = q.state /\ push(q).qc = q.qc /\ push(q).bs = q.bs
    BY <2>1 DEF Lexer
  <2>3. ~Dropped(m.words, m.old) /\ ~Dropped(Append(m.words, m.word), m.old)
    BY <1>1, <1>2, <1>5, <1>10 DEF Dropped
  <2>4. q.flags = Warned(FALSE, Cut(m.words, m.old) \/ Len(m.word) > MaxArg)
    BY <2>3 DEF Holds, Warned
  <2>5. push(q).flags = Warned(Dropped(Append(m.words, m.word), m.old),
                               Cut(Append(m.words, m.word), m.old) \/ Len(<<>>) > MaxArg)
    BY <2>2, <2>3, <2>4, <1>8, <1>9 DEF Warned
  <2> QED
    BY <1>2, <1>3, <1>4, <1>5, <1>6, <1>7, <1>10, <2>2, <2>5 DEF Holds
<1>11. CASE ~(Len(m.words) < ArgvSz)
  <2>1. push(q) = [q EXCEPT !.flags = q.flags \cup {"SPLIT_DROP"}, !.buff = <<>>] /\ <<>> \in Seq(Char)
    BY <1>1, <1>2, <1>6, <1>11 DEF push
  <2>2. push(q) \in Lexer /\ push(q).buff = <<>> /\ push(q).args = q.args
        /\ push(q).flags = q.flags \cup {"SPLIT_DROP"} /\ push(q).state = q.state
        /\ push(q).qc = q.qc /\ push(q).bs = q.bs
    BY <2>1 DEF Lexer
  <2>3. Dropped(Append(m.words, m.word), m.old)
    BY <1>1, <1>2, <1>5, <1>11 DEF Dropped
  <2>4. push(q).flags = Warned(TRUE, Cut(m.words, m.old) \/ Len(m.word) > MaxArg)
    BY <2>2 DEF Holds, Warned
  <2>5. push(q).flags = Warned(Dropped(Append(m.words, m.word), m.old),
                               Cut(Append(m.words, m.word), m.old) \/ Len(<<>>) > MaxArg)
    BY <2>3, <2>4, <1>8, <1>9 DEF Warned
  <2> QED
    BY <1>2, <1>3, <1>4, <1>5, <1>6, <1>7, <1>11, <2>2, <2>5 DEF Holds
<1> QED
  BY <1>10, <1>11

(* At the end of the string the result is what the header says.            *)
LEMMA Ends ==
  ASSUME SplitAssumption, NEW q \in Lexer, NEW m \in Meant, Agrees(q, m)
  PROVE  /\ split_quoted(q) = Meaning(m) /\ Ended(m) \in Meant
         /\ m.within = "none" => /\ split_quoted(q).error = FALSE
                                 /\ split_quoted(q).args = Kept(Ended(m).words)
<1> DEFINE all == Ended(m).words
           end == IF q.state = "ST_ARG" THEN push(q) ELSE q
<1>1. CASE m.within # "none"
  <2>1. Ended(m) \in Meant
    BY Pushes, Zenon DEF Ended, Complete, Agrees
  <2> QED
    BY <1>1, <2>1 DEF Agrees, split_quoted, Meaning
<1>2. CASE m.within = "none"
  <2>1. Ended(m) \in Meant /\ Holds(end, Ended(m)) /\ Ended(m).word = <<>> /\ Ended(m).old = m.old
    <3>1. CASE m.begun
      BY <1>2, <3>1, Pushes, Zenon DEF Agrees, Ended, Complete, Meant
    <3>2. CASE ~m.begun
      BY <1>2, <3>2 DEF Agrees, Ended
    <3> QED
      BY <3>1, <3>2
  <2>2. split_quoted(q) = [error |-> FALSE, args |-> end.args, flags |-> end.flags]
    BY <1>2 DEF Agrees, split_quoted
  <2>3. end.args = Kept(all) /\ end.flags = Warned(Dropped(all, m.old), Cut(all, m.old))
    <3>1. ~(Len(<<>>) > MaxArg)
      BY DEF SplitAssumption
    <3> HIDE DEF end
    <3> QED
      BY <2>1, <3>1 DEF Holds, Warned
  <2>4. all \in Seq(Seq(Char)) /\ m.old \in Nat /\ ArgvSz \in Nat
    BY <2>1 DEF Meant, SplitAssumption
  <2>5. ((m.old + 1 .. Len(all)) # {} /\ Len(all) > ArgvSz) <=> Dropped(all, m.old)
    <3> HIDE DEF all
    <3>1. Len(all) \in Nat
      BY <2>4
    <3>2. \A a, b \in Nat : (a + 1 .. b) # {} <=> a < b
      <4> SUFFICES ASSUME NEW a \in Nat, NEW b \in Nat
                   PROVE  (a + 1 .. b) # {} <=> a < b
        OBVIOUS
      <4>1. a < b => b \in a + 1 .. b
        OBVIOUS
      <4>2. \A i \in a + 1 .. b : a < b
        OBVIOUS
      <4> QED
        BY <4>1, <4>2
    <3> QED
      BY <2>4, <3>1, <3>2 DEF Dropped
  <2>6. Meaning(m) = [error |-> FALSE, args |-> Kept(all),
                      flags |-> Warned((m.old + 1 .. Len(all)) # {} /\ Len(all) > ArgvSz, Cut(all, m.old))]
    BY <1>2, Zenon DEF Meaning, Kept, Warned, Cut
  <2> HIDE DEF all, end
  <2>7. Meaning(m) = [error |-> FALSE, args |-> Kept(all), flags |-> Warned(Dropped(all, m.old), Cut(all, m.old))]
    BY <2>5, <2>6 DEF Warned
  <2> QED
    BY <2>1, <2>2, <2>3, <2>7 DEF all
<1> QED
  BY <1>1, <1>2

-----------------------------------------------------------------------------
(* A backslash, outside of single quotes, and the character after it.      *)
LEMMA Backslash ==
  ASSUME SplitAssumption, NEW q \in Lexer, NEW m \in Meant, Agrees(q, m), m.within \in {"none", "DQ"}
  PROVE  Read(q, "BS") = [q EXCEPT !.bs = TRUE]
BY DEF Read, Agrees, SplitAssumption, is_delim

LEMMA AfterBackslash ==
  ASSUME SplitAssumption, NEW q \in Lexer, NEW m \in Meant, Agrees(q, m), m.within \in {"none", "DQ"},
         NEW c \in Char
  PROVE  Read(Read(q, "BS"), c) = Escaped(q, c)
<1>1. Read(q, "BS") = [q EXCEPT !.bs = TRUE]
  BY Backslash
<1>2. q.bs = FALSE
  BY DEF Agrees, Lexer
<1>3. [[q EXCEPT !.bs = TRUE] EXCEPT !.bs = FALSE] = q
  BY <1>2 DEF Lexer
<1>4. [q EXCEPT !.bs = TRUE].bs
  BY DEF Lexer
<1> QED
  BY <1>1, <1>3, <1>4 DEF Read

(* Reads in step: the lexer agrees with what was written.                  *)
Step(q, m) == q \in Lexer /\ m \in Meant /\ Agrees(q, m)

LEMMA Adds ==
  ASSUME SplitAssumption, NEW q, NEW m, Step(q, m), NEW c \in Char
  PROVE  /\ m.within = "none" => Step(InState(save(q, c), "ST_ARG"), Letter(m, c))
         /\ m.within # "none" => Step(save(q, c), Letter(m, c))
<1>1. /\ save(q, c) \in Lexer /\ Letter(m, c) \in Meant /\ Holds(save(q, c), Letter(m, c))
      /\ save(q, c).state = q.state /\ save(q, c).qc = q.qc /\ save(q, c).bs = q.bs
  BY Saves DEF Step, Agrees
<1>2. Letter(m, c).within = m.within /\ Letter(m, c).begun = TRUE
  BY DEF Letter, Step, Meant
<1> DEFINE arg == InState(save(q, c), "ST_ARG")
<1>3. /\ arg \in Lexer /\ arg.args = save(q, c).args /\ arg.buff = save(q, c).buff
      /\ arg.flags = save(q, c).flags /\ arg.bs = save(q, c).bs /\ arg.state = "ST_ARG"
  BY <1>1 DEF InState, Lexer
<1>4. Holds(arg, Letter(m, c))
  <2> HIDE DEF arg
  <2> QED
    BY <1>1, <1>3 DEF Holds
<1> HIDE DEF arg
<1>5. ASSUME m.within = "none" PROVE Agrees(arg, Letter(m, c))
  BY <1>1, <1>2, <1>3, <1>4, <1>5 DEF Agrees, Step
<1>6. ASSUME m.within # "none" PROVE Agrees(save(q, c), Letter(m, c))
  BY <1>1, <1>2, <1>6 DEF Agrees, Step
<1> QED
  BY <1>1, <1>3, <1>5, <1>6 DEF Step, arg

(* What is left to write does not matter.                                  *)
LEMMA Room ==
  ASSUME NEW q, NEW m, Step(q, m), m.room > 0
  PROVE  Step(q, [m EXCEPT !.room = m.room - 1])
<1> DEFINE r == [m EXCEPT !.room = m.room - 1]
<1>1. r \in Meant
  BY DEF Step, Meant
<1>2. /\ r.words = m.words /\ r.word = m.word /\ r.begun = m.begun
      /\ r.within = m.within /\ r.old = m.old
  BY DEF Step, Meant
<1> HIDE DEF r
<1>3. Holds(q, r)
  BY <1>2 DEF Step, Agrees, Holds
<1>4. Agrees(q, r)
  BY <1>2, <1>3 DEF Step, Agrees
<1> QED
  BY <1>1, <1>4 DEF Step, r

LEMMA Delimits ==
  ASSUME SplitAssumption, NEW q, NEW m, Step(q, m), m.within = "none", NEW c \in is_delim
  PROVE  Step(Read(q, c), Ended(m)) /\ Ended(m).room = m.room
<1>1. c \in Char /\ c \notin {"SQ", "DQ", "BS"}
  BY DEF SplitAssumption, is_delim, Char
<1>2. ~q.bs /\ q.state = IF m.begun THEN "ST_ARG" ELSE "ST_DELIM"
  BY DEF Step, Agrees
<1>3. CASE m.begun
  <2>1. Read(q, c) = InState(push(q), "ST_DELIM")
    BY <1>1, <1>2, <1>3 DEF Read
  <2>2. Ended(m) = Complete(m)
    BY <1>3 DEF Ended, Complete
  <2>3. /\ push(q) \in Lexer /\ Complete(m) \in Meant /\ Holds(push(q), Complete(m))
        /\ push(q).bs = q.bs
    BY Pushes DEF Step, Agrees
  <2>4. /\ Complete(m).within = m.within /\ Complete(m).begun = FALSE /\ Complete(m).word = <<>>
        /\ Complete(m).room = m.room
    BY DEF Complete, Step, Meant
  <2> DEFINE r == InState(push(q), "ST_DELIM")
  <2>5. /\ r \in Lexer /\ r.args = push(q).args /\ r.buff = push(q).buff
        /\ r.flags = push(q).flags /\ r.bs = push(q).bs /\ r.state = "ST_DELIM"
    BY <2>3 DEF InState, Lexer
  <2> HIDE DEF r
  <2>6. Holds(r, Complete(m))
    BY <2>3, <2>5 DEF Holds
  <2>7. Agrees(r, Complete(m))
    BY <1>2, <2>3, <2>4, <2>5, <2>6 DEF Agrees
  <2> QED
    BY <2>1, <2>2, <2>3, <2>4, <2>5, <2>7 DEF Step, r
<1>4. CASE ~m.begun
  BY <1>1, <1>2, <1>4 DEF Read, Ended
<1> QED
  BY <1>3, <1>4

LEMMA LetterRoom == \A m, c : m \in Meant => Letter(m, c).room = m.room /\ Letters(m, c).room = m.room
                                             /\ Letter(m, c).within = m.within
BY DEF Letter, Letters, Meant

(* Outside of quotes, a character is added as it is, or escaped.           *)
LEMMA Outsides ==
  ASSUME SplitAssumption, NEW q, NEW m, Step(q, m), m.within = "none", NEW c \in Char
  PROVE  /\ c \in Plain \cup Dollars => Step(Read(q, c), Letter(m, c))
         /\ c # "NL" => Step(Read(Read(q, "BS"), c), Letter(m, c))
<1>1. ~q.bs /\ q.state # "ST_QUOTE"
  BY DEF Step, Agrees
<1>2. ASSUME c \in Plain \cup Dollars PROVE Read(q, c) = InState(save(q, c), "ST_ARG")
  <2>1. c \notin {"SQ", "DQ", "BS"} /\ c \notin is_delim
    BY <1>2 DEF SplitAssumption, is_delim
  <2> QED
    BY <1>1, <2>1 DEF Read
<1>3. ASSUME c # "NL" PROVE Read(Read(q, "BS"), c) = InState(save(q, c), "ST_ARG")
  <2>1. Read(Read(q, "BS"), c) = Escaped(q, c)
    BY AfterBackslash DEF Step
  <2> QED
    BY <1>1, <1>3, <2>1 DEF Escaped
<1> QED
  BY <1>2, <1>3, Adds

(* In quotes.                                                              *)
LEMMA Quoted ==
  ASSUME SplitAssumption, NEW q, NEW m, Step(q, m), m.within \in {"SQ", "DQ"}, NEW c \in Char
  PROVE  /\ c # m.within /\ (m.within = "DQ" => c # "BS") => Step(Read(q, c), Letter(m, c))
         /\ m.within = "DQ" /\ c \in is_dq_escapable => Step(Read(Read(q, "BS"), c), Letter(m, c))
         /\ m.within = "DQ" /\ c \notin is_dq_escapable \cup {"NL"}
              => Step(Read(Read(q, "BS"), c), Letters(m, c))
<1>1. ~q.bs /\ q.state = "ST_QUOTE" /\ q.qc = m.within
  BY DEF Step, Agrees
<1>2. ASSUME c # m.within, m.within = "DQ" => c # "BS" PROVE Read(q, c) = save(q, c)
  BY <1>1, <1>2 DEF Read
<1>3. ASSUME m.within = "DQ", c \in is_dq_escapable PROVE Read(Read(q, "BS"), c) = save(q, c)
  <2>1. c # "NL"
    BY <1>3 DEF is_dq_escapable, SplitAssumption
  <2> QED
    BY <1>1, <1>3, <2>1, AfterBackslash DEF Escaped, Step
<1>4. ASSUME m.within = "DQ", c \notin is_dq_escapable \cup {"NL"}
      PROVE  Step(Read(Read(q, "BS"), c), Letters(m, c))
  <2>1. Read(Read(q, "BS"), c) = save(save(q, "BS"), c)
    BY <1>1, <1>4, AfterBackslash DEF Escaped, Step
  <2>2. "BS" \in Char
    BY DEF Char
  <2>3. Step(save(q, "BS"), Letter(m, "BS"))
    BY <1>4, <2>2, Adds
  <2>4. Letter(m, "BS").within # "none"
    BY <1>4, LetterRoom DEF Step
  <2>5. Step(save(save(q, "BS"), c), Letter(Letter(m, "BS"), c))
    BY <2>3, <2>4, Adds
  <2> QED
    BY <2>1, <2>5 DEF Letters
<1> QED
  BY <1>2, <1>3, <1>4, Adds

(* Quotes.                                                                 *)
LEMMA Opens ==
  ASSUME SplitAssumption, NEW q, NEW m, Step(q, m), m.within = "none", NEW c \in {"SQ", "DQ"}
  PROVE  Step(Read(q, c), [m EXCEPT !.within = c, !.begun = TRUE])
<1>1. Read(q, c) = [q EXCEPT !.state = "ST_QUOTE", !.qc = c]
  <2>1. ~q.bs /\ q.state # "ST_QUOTE"
    BY DEF Step, Agrees
  <2>2. c \notin is_delim /\ c # "BS"
    BY DEF SplitAssumption, is_delim
  <2> QED
    BY <2>1, <2>2 DEF Read
<1> DEFINE r == [q EXCEPT !.state = "ST_QUOTE", !.qc = c]
           n == [m EXCEPT !.within = c, !.begun = TRUE]
<1>2. /\ r \in Lexer /\ r.args = q.args /\ r.buff = q.buff /\ r.flags = q.flags
      /\ r.bs = q.bs /\ r.state = "ST_QUOTE" /\ r.qc = c
  BY DEF Step, Lexer
<1>3. /\ n \in Meant /\ n.words = m.words /\ n.word = m.word /\ n.old = m.old
      /\ n.within = c /\ n.begun = TRUE
  BY DEF Step, Meant
<1> HIDE DEF r, n
<1>4. Holds(r, n)
  BY <1>2, <1>3 DEF Holds, Step, Agrees
<1>5. Agrees(r, n)
  BY <1>2, <1>3, <1>4 DEF Step, Agrees
<1> QED
  BY <1>1, <1>2, <1>3, <1>5 DEF Step, r, n

LEMMA Closes ==
  ASSUME SplitAssumption, NEW q, NEW m, Step(q, m), m.within \in {"SQ", "DQ"}
  PROVE  Step(Read(q, m.within), [m EXCEPT !.within = "none"])
<1>1. Read(q, m.within) = InState(q, "ST_ARG")
  BY DEF Step, Agrees, Read
<1> DEFINE r == InState(q, "ST_ARG")
           n == [m EXCEPT !.within = "none"]
<1>2. /\ r \in Lexer /\ r.args = q.args /\ r.buff = q.buff /\ r.flags = q.flags
      /\ r.bs = q.bs /\ r.state = "ST_ARG"
  BY DEF Step, Lexer, InState
<1>3. /\ n \in Meant /\ n.words = m.words /\ n.word = m.word /\ n.old = m.old
      /\ n.within = "none" /\ n.begun = m.begun
  BY DEF Step, Meant
<1> HIDE DEF r, n
<1>4. Holds(r, n)
  BY <1>2, <1>3 DEF Holds, Step, Agrees
<1>5. Agrees(r, n)
  BY <1>2, <1>3, <1>4 DEF Step, Agrees
<1> QED
  BY <1>1, <1>2, <1>3, <1>5 DEF Step, r, n

(* The second string starts with the arguments of the first.               *)
LEMMA Starts ==
  ASSUME SplitAssumption, NEW q, NEW m, Step(q, m), m.within = "none"
  PROVE  Step(Start(split_quoted(q).args),
              [Ended(m) EXCEPT !.old = Len(Ended(m).words), !.second = TRUE])
<1> DEFINE args == split_quoted(q).args
           r == Start(args)
           n == [Ended(m) EXCEPT !.old = Len(Ended(m).words), !.second = TRUE]
<1>1. Ended(m) \in Meant /\ args = Kept(Ended(m).words)
  BY Ends DEF Step
<1>2. Ended(m).word = <<>> /\ Ended(m).begun = FALSE /\ Ended(m).within = "none"
  BY DEF Ended, Step, Agrees, Meant
<1>3. /\ n \in Meant /\ n.words = Ended(m).words /\ n.word = <<>> /\ n.begun = FALSE
      /\ n.old = Len(n.words) /\ n.within = "none"
  <2>1. Len(Ended(m).words) \in Nat
    BY <1>1 DEF Meant
  <2> QED
    BY <1>1, <1>2, <2>1 DEF Meant
<1>4. args \in Seq(Seq(Char))
  <2>1. Ended(m).words \in Seq(Seq(Char)) /\ <<>> \in Seq(Char)
    BY <1>1 DEF Meant
  <2> QED
    BY <1>1, <2>1, KeptAppend
<1> HIDE DEF args, n
<1>5. /\ r \in Lexer /\ r.args = args /\ r.buff = <<>> /\ r.flags = {} /\ r.bs = FALSE /\ r.state = "ST_DELIM"
  BY <1>4 DEF Start, Lexer
<1> HIDE DEF r
<1>6. Holds(r, n)
  <2>1. MaxArg \in Nat /\ First(<<>>, MaxArg) = <<>> /\ ~(Len(<<>>) > MaxArg)
    BY DEF SplitAssumption, First
  <2>2. n.old = Len(n.words) /\ Len(n.words) \in Nat
    BY <1>3 DEF Meant
  <2>3. ~Dropped(n.words, n.old) /\ ~Cut(n.words, n.old)
    BY <2>2 DEF Dropped, Cut
  <2>4. Warned(FALSE, FALSE) = {}
    BY DEF Warned
  <2>5. r.flags = Warned(Dropped(n.words, n.old), Cut(n.words, n.old) \/ Len(n.word) > MaxArg)
    BY <1>3, <1>5, <2>1, <2>3, <2>4 DEF Warned
  <2>6. r.args = Kept(n.words) /\ r.buff = First(n.word, MaxArg)
    BY <1>1, <1>3, <1>5, <2>1
  <2> QED
    BY <2>2, <2>5, <2>6 DEF Holds
<1> QED
  BY <1>3, <1>5, <1>6 DEF Step, Agrees, r, n, args

-----------------------------------------------------------------------------
LEMMA SplitInitial == SplitAssumption /\ SplitInit => SplitInv
<1> SUFFICES ASSUME SplitAssumption, SplitInit PROVE SplitInv
  OBVIOUS
<1>1. <<>> \in Seq(Char) /\ <<>> \in Seq(Seq(Char)) /\ Len(<<>>) = 0 /\ MaxArg \in Nat /\ ArgvSz \in Nat /\ MaxWritten \in Nat
  BY DEF SplitAssumption
<1>2. lex \in Lexer /\ meant \in Meant
  BY <1>1 DEF SplitInit, Start, Lexer, Meant
<1>3. First(<<>>, MaxArg) = <<>> /\ Kept(<<>>) = <<>>
  BY <1>1 DEF First, Kept
<1>4. Warned(Dropped(<<>>, 0), Cut(<<>>, 0) \/ Len(<<>>) > MaxArg) = {}
  BY <1>1 DEF Warned, Dropped, Cut
<1>5. Holds(lex, meant)
  BY <1>1, <1>3, <1>4 DEF SplitInit, Start, Holds
<1>6. Agrees(lex, meant)
  BY <1>5 DEF SplitInit, Start, Agrees
<1> QED
  BY <1>2, <1>6 DEF SplitInv, SplitType

(* A piece written as the lexer reads it keeps the invariant.              *)
LEMMA Writing ==
  ASSUME NEW q, NEW n, Step(q, n), Writes(n), lex' = q, n.room = meant.room, meant \in Meant
  PROVE  SplitInv'
<1>1. Step(q, [n EXCEPT !.room = n.room - 1])
  BY Room DEF Writes
<1>2. meant' = [n EXCEPT !.room = n.room - 1]
  BY DEF Writes
<1> QED
  BY <1>1, <1>2 DEF Step, SplitInv, SplitType

LEMMA Steps ==
  ASSUME SplitAssumption, SplitInv, SplitNext PROVE SplitInv'
<1>1. meant \in Meant /\ lex \in Lexer
  BY DEF SplitInv, SplitType
<1>2. meant.within # "BS"
  <2> SUFFICES ASSUME meant.within = "BS" PROVE FALSE
    OBVIOUS
  <2>1. lex.bs
    BY DEF SplitInv, Agrees
  <2>2. split_quoted(lex) = [error |-> TRUE]
    BY <2>1 DEF split_quoted
  <2>3. ~Extra
    BY <2>2 DEF Extra
  <2> QED
    BY <2>3 DEF SplitNext, Outside, InSingle, InDouble, Join, Dangle
<1>3. Step(lex, meant)
  BY <1>1, <1>2 DEF SplitInv, Step
<1>4. ASSUME NEW c \in Char, Outside(c) PROVE SplitInv'
  <2>1. meant.within = "none"
    BY <1>4 DEF Outside
  <2>2. CASE Delimit(c)
    <3>1. Step(Read(lex, c), Ended(meant)) /\ Ended(meant).room = meant.room
      BY <1>3, <2>1, <2>2, Delimits DEF Delimit
    <3> QED
      BY <1>1, <2>2, <3>1, Writing DEF Delimit, One
  <2>3. CASE Normal(c)
    <3>1. Step(Read(lex, c), Letter(meant, c)) /\ Letter(meant, c).room = meant.room
      BY <1>1, <1>3, <2>1, <2>3, Outsides, LetterRoom DEF Normal
    <3> QED
      BY <1>1, <2>3, <3>1, Writing DEF Normal, One
  <2>4. CASE Escape(c)
    <3>1. Step(Read(Read(lex, "BS"), c), Letter(meant, c)) /\ Letter(meant, c).room = meant.room
      BY <1>1, <1>3, <2>1, <2>4, Outsides, LetterRoom DEF Escape
    <3> QED
      BY <1>1, <2>4, <3>1, Writing DEF Escape, Two
  <2>5. CASE Open(c)
    <3> DEFINE n == [meant EXCEPT !.within = c, !.begun = TRUE]
    <3>1. Step(Read(lex, c), n)
      BY <1>3, <2>1, <2>5, Opens, Zenon DEF Open
    <3>2. n.room = meant.room
      BY <1>1 DEF Meant
    <3>3. Writes(n) /\ lex' = Read(lex, c)
      BY <2>5 DEF Open, One
    <3> HIDE DEF n
    <3> QED
      BY <1>1, <3>1, <3>2, <3>3, Writing
  <2> QED
    BY <1>4, <2>2, <2>3, <2>4, <2>5 DEF Outside
<1>5. ASSUME NEW c \in Char, meant.within \in {"SQ", "DQ"}, Close(c) PROVE SplitInv'
  <2> DEFINE n == [meant EXCEPT !.within = "none"]
  <2>1. Step(Read(lex, c), n)
    BY <1>3, <1>5, Closes DEF Close
  <2>2. n.room = meant.room
    BY <1>1 DEF Meant
  <2>3. Writes(n) /\ lex' = Read(lex, c)
    BY <1>5 DEF Close, One
  <2> HIDE DEF n
  <2> QED
    BY <1>1, <2>1, <2>2, <2>3, Writing
<1>6. ASSUME NEW c \in Char, meant.within \in {"SQ", "DQ"}, c # meant.within,
             meant.within = "DQ" => c # "BS", One(c, Letter(meant, c))
      PROVE  SplitInv'
  <2>1. Step(Read(lex, c), Letter(meant, c)) /\ Letter(meant, c).room = meant.room
    BY <1>1, <1>3, <1>6, Quoted, LetterRoom
  <2> QED
    BY <1>1, <1>6, <2>1, Writing DEF One
<1>7. ASSUME NEW c \in Char, InSingle(c) PROVE SplitInv'
  BY <1>5, <1>6, <1>7 DEF InSingle
<1>8. ASSUME NEW c \in Char, InDouble(c) PROVE SplitInv'
  <2>1. CASE Close(c) \/ (c \notin {"BS", "DQ"} /\ One(c, Letter(meant, c)))
    BY <1>5, <1>6, <1>8, <2>1 DEF InDouble
  <2>2. CASE c \in is_dq_escapable /\ Two(c, Letter(meant, c))
    <3>1. Step(Read(Read(lex, "BS"), c), Letter(meant, c)) /\ Letter(meant, c).room = meant.room
      BY <1>1, <1>3, <1>8, <2>2, Quoted, LetterRoom DEF InDouble
    <3> QED
      BY <1>1, <2>2, <3>1, Writing DEF Two
  <2>3. CASE c \notin is_dq_escapable \cup {"NL"} /\ Two(c, Letters(meant, c))
    <3>1. Step(Read(Read(lex, "BS"), c), Letters(meant, c)) /\ Letters(meant, c).room = meant.room
      BY <1>1, <1>3, <1>8, <2>3, Quoted, LetterRoom DEF InDouble
    <3> QED
      BY <1>1, <2>3, <3>1, Writing DEF Two
  <2> QED
    BY <1>8, <2>1, <2>2, <2>3 DEF InDouble
<1>9. CASE Join
  <2>1. Read(Read(lex, "BS"), "NL") = lex
    <3>1. "NL" \in Char
      BY DEF Char
    <3> QED
      BY <1>3, <1>9, <3>1, AfterBackslash DEF Join, Step, Escaped
  <2> QED
    BY <1>1, <1>3, <1>9, <2>1, Writing DEF Join, Two
<1>10. CASE Dangle
  <2>1. lex' = [lex EXCEPT !.bs = TRUE]
    BY <1>3, <1>10, Backslash DEF Dangle, One, Step
  <2>2. meant.room > 0 /\ meant' = [[meant EXCEPT !.within = "BS"] EXCEPT !.room = meant.room - 1]
    BY <1>10 DEF Dangle, One, Writes
  <2>3. meant' \in Meant /\ meant'.within = "BS"
    <3>1. meant.room - 1 \in Nat
      BY <1>1, <2>2 DEF Meant
    <3> QED
      BY <1>1, <2>2, <3>1 DEF Meant
  <2>4. lex' \in Lexer /\ lex'.bs
    BY <1>1, <2>1 DEF Lexer
  <2> QED
    BY <2>3, <2>4 DEF SplitInv, SplitType
<1>11. CASE Extra
  <2>1. meant.within = "none"
    <3> SUFFICES ASSUME meant.within # "none" PROVE FALSE
      OBVIOUS
    <3>1. split_quoted(lex) = Meaning(meant)
      BY <1>3, Ends DEF Step
    <3>2. Meaning(meant) = [error |-> TRUE]
      BY DEF Meaning
    <3>3. ~split_quoted(lex).error
      BY <1>11 DEF Extra
    <3> QED
      BY <3>1, <3>2, <3>3
  <2>2. Step(lex', meant')
    BY <1>3, <1>11, <2>1, Starts, Zenon DEF Extra
  <2> QED
    BY <2>2 DEF Step, SplitInv, SplitType
<1> QED
  BY <1>4, <1>7, <1>8, <1>9, <1>10, <1>11 DEF SplitNext

LEMMA SplitInvHolds == SplitAssumption /\ SplitInv => SplitFollowsHeader
<1> SUFFICES ASSUME SplitAssumption, SplitInv PROVE SplitFollowsHeader
  OBVIOUS
<1>1. CASE Agrees(lex, meant)
  BY <1>1, Ends DEF SplitInv, SplitType, SplitFollowsHeader
<1>2. CASE meant.within = "BS" /\ lex.bs
  BY <1>2 DEF SplitFollowsHeader, split_quoted, Meaning
<1> QED
  BY <1>1, <1>2 DEF SplitInv

(* Every command line, of any characters and any length, and the line that *)
(* is added to it, are split as split.h says, for any number and length of *)
(* arguments.                                                              *)
THEOREM SplittingFollowsHeader == SplitSpec => []SplitFollowsHeader
<1>1. SplitInit => SplitInv
  BY SplitAssumption, SplitInitial
<1>2. SplitInv /\ [SplitNext]_splitvars => SplitInv'
  <2>1. ASSUME SplitInv, UNCHANGED splitvars PROVE SplitInv'
    BY <2>1 DEF splitvars, SplitInv, SplitType
  <2> QED
    BY <2>1, Steps, SplitAssumption
<1>3. SplitInv => SplitFollowsHeader
  BY SplitAssumption, SplitInvHolds
<1> QED
  BY <1>1, <1>2, <1>3, PTL DEF SplitSpec

-----------------------------------------------------------------------------
(***************************************************************************)
(* Options.                                                                *)
(***************************************************************************)
(* What parse_args() takes of an argument: what the manual says it gives,  *)
(* but for the name of a log file.                                         *)
Taken(arg) ==
  LET f == arg[1]
      a == arg[2]
  IN  CASE f \in DOMAIN Table /\ a # "bad"         -> Just(f, Table[f][a])
        [] f = "stopbits" /\ a \in {"1", "2"}      -> Just(f, a)
        [] f = "stopbits" /\ a \in DOMAIN ParityOf -> [parity |-> ParityOf[a], stopbits |-> "1"]
        [] f \in Switches \cup DOMAIN Copied       -> Just(f, a)
        [] f = "log_filename"                      -> Just(f, LogName(a))
        [] OTHER                                   -> <<>>

(* Over any command line g: the places of what gives f, those of what is   *)
(* wrong, and the value of f.                                              *)
SaidIn(g, f) == {i \in DOMAIN g : f \in DOMAIN Taken(g[i])}
WrongIn(g)   == {i \in DOMAIN g : DOMAIN Taken(g[i]) = {}}
ValueIn(g, f) == IF SaidIn(g, f) = {} THEN Default[f] ELSE Taken(g[Latest(SaidIn(g, f))])[f]

(* What parse_args() made of g, while nothing was overwritten.             *)
Parsed(g, q) ==
  /\ q.outcome = "parsing" => WrongIn(g) = {} /\ q.opts = [f \in Names |-> ValueIn(g, f)]
  /\ q.outcome # "parsing" => /\ g # <<>> /\ WrongIn(g) = {Len(g)}
                              /\ q.outcome = IF g[Len(g)][1] = "help" THEN "usage" ELSE "failure"

IsGot(q) ==
  /\ q = [outcome |-> q.outcome, opts |-> q.opts, spilt |-> q.spilt, lost |-> q.lost]
  /\ q.outcome \in {"parsing", "usage", "failure"} /\ q.lost \in BOOLEAN
  /\ q.opts = [f \in Names |-> q.opts[f]]

OptInv == /\ given \in Seq(Arguments) /\ IsGot(got)
          /\ ~got.lost => Parsed(given, got)

-----------------------------------------------------------------------------
LEMMA LatestIs ==
  ASSUME NEW n \in Nat, NEW S \in SUBSET (1 .. n), S # {}
  PROVE  Latest(S) \in S /\ \A j \in S : j <= Latest(S)
<1> DEFINE back == {n - i : i \in S}
<1>1. back \in SUBSET Nat /\ back # {}
  <2>1. \A i \in 1 .. n : n - i \in Nat
    OBVIOUS
  <2>2. PICK i \in S : TRUE
    OBVIOUS
  <2>3. n - i \in back
    BY <2>2
  <2> QED
    BY <2>1, <2>3
<1>2. PICK b \in back : \A j \in back : b <= j
  <2> HIDE DEF back
  <2> QED
    BY <1>1, LeastNat
<1>3. PICK i \in S : b = n - i
  BY <1>2
<1>4. \A j \in S : j <= i
  <2> SUFFICES ASSUME NEW j \in S PROVE j <= i
    OBVIOUS
  <2>1. n - j \in back
    OBVIOUS
  <2>2. n - i <= n - j
    BY <1>2, <1>3, <2>1
  <2> QED
    BY <2>2
<1> QED
  BY <1>4, Zenon DEF Latest

(* The kinds of arguments.                                                 *)
LEMMA TableIs ==
  ASSUME NEW f \in DOMAIN Table PROVE "bad" \notin DOMAIN Table[f] /\ f \in Names /\ f \notin Switches \cup DOMAIN Copied
                                      /\ f \notin {"stopbits", "log_filename", "help", "unknown"}
BY OptionsAssumption DEF Table, Names, Copied, Switches, Same, FlowOf, ParityOf, DataBitsOf

LEMMA ArgumentIs ==
  ASSUME NEW arg \in Arguments
  PROVE  \/ arg[1] \in DOMAIN Table /\ arg[2] \in DOMAIN Table[arg[1]] \cup {"bad"}
         \/ arg[1] = "stopbits" /\ arg[2] \in {"1", "2", "bad"} \cup DOMAIN ParityOf
         \/ arg[1] \in DOMAIN Copied /\ arg[2] \in Copied[arg[1]]
         \/ arg[1] = "log_filename" /\ arg[2] \in {"name", "name_date"}
         \/ arg[1] \in Switches /\ arg[2] = "yes"
         \/ arg[1] \in {"help", "unknown"}
<1>1. \/ arg \in OfTable \/ arg \in OfStop \/ arg \in OfCopied \/ arg \in OfLog
      \/ arg \in {<<f, "yes">> : f \in Switches \cup {"help", "unknown"}}
  BY DEF Arguments
<1>2. CASE arg \in OfTable
  <2>1. PICK f \in DOMAIN Table : arg \in {<<f, a>> : a \in DOMAIN Table[f] \cup {"bad"}}
    BY <1>2, Zenon DEF OfTable
  <2>2. PICK a \in DOMAIN Table[f] \cup {"bad"} : arg = <<f, a>>
    BY <2>1, Zenon
  <2> QED
    BY <2>2
<1>3. CASE arg \in OfCopied
  <2>1. PICK f \in DOMAIN Copied : arg \in {<<f, a>> : a \in Copied[f]}
    BY <1>3, Zenon DEF OfCopied
  <2>2. PICK a \in Copied[f] : arg = <<f, a>>
    BY <2>1, Zenon
  <2> QED
    BY <2>2
<1> QED
  BY <1>1, <1>2, <1>3 DEF OfStop, OfLog

(* The values of the tables are those of the manual.                       *)
LEMMA TablesDocumented ==
  /\ DOMAIN Documented = DOMAIN Table \cup {"stopbits"}
  /\ DOMAIN Documented["stopbits"] = {"1", "2"} /\ \A a \in {"1", "2"} : Documented["stopbits"][a] = a
  /\ \A f \in DOMAIN Table : DOMAIN Table[f] = DOMAIN Documented[f] \cup (IF f = "flow" THEN {"s"} ELSE {})
  /\ \A f \in DOMAIN Table : \A a \in DOMAIN Documented[f] : Table[f][a] = Documented[f][a]
  /\ Table["flow"]["s"] = "FC_XONXOFF" /\ "s" \notin DOMAIN Documented["flow"]
  /\ ParityOf = Documented["parity"] /\ DOMAIN ParityOf = {"e", "o", "n"}
<1>1. /\ DOMAIN Documented = DOMAIN Table \cup {"stopbits"}
      /\ DOMAIN Table = {"flow", "parity", "databits", "baud", "imap", "exit_after"}
  BY DEF Documented, Table
<1>2. /\ Documented["stopbits"] = Same({"1", "2"}) /\ Documented["parity"] = [o |-> "P_ODD", e |-> "P_EVEN", n |-> "P_NONE"]
      /\ Documented["flow"] = [x |-> "FC_XONXOFF", h |-> "FC_RTSCTS", n |-> "FC_NONE"]
      /\ Table["flow"] = FlowOf /\ Table["parity"] = ParityOf
  BY DEF Documented, Table
<1>3. \A f \in {"databits", "baud", "imap", "exit_after"} : Table[f] = Documented[f]
  BY DEF Documented, Table, DataBitsOf
<1>4. ParityOf = Documented["parity"] /\ DOMAIN ParityOf = {"e", "o", "n"}
  <2>1. DOMAIN ParityOf = {"e", "o", "n"} /\ DOMAIN Documented["parity"] = {"e", "o", "n"}
    BY <1>2 DEF ParityOf
  <2>2. \A a \in {"e", "o", "n"} : ParityOf[a] = Documented["parity"][a]
    BY <1>2 DEF ParityOf
  <2>3. ParityOf = [a \in {"e", "o", "n"} |-> ParityOf[a]]
    BY <2>1 DEF ParityOf
  <2>4. Documented["parity"] = [a \in {"e", "o", "n"} |-> Documented["parity"][a]]
    BY <1>2, <2>1
  <2> QED
    BY <2>1, <2>2, <2>3, <2>4
<1>5. /\ DOMAIN FlowOf = {"x", "s", "h", "n"} /\ DOMAIN Documented["flow"] = {"x", "h", "n"}
      /\ \A a \in {"x", "h", "n"} : FlowOf[a] = Documented["flow"][a]
      /\ FlowOf["s"] = "FC_XONXOFF"
  BY <1>2 DEF FlowOf
<1>6. ASSUME NEW f \in DOMAIN Table
      PROVE  /\ DOMAIN Table[f] = DOMAIN Documented[f] \cup (IF f = "flow" THEN {"s"} ELSE {})
             /\ \A a \in DOMAIN Documented[f] : Table[f][a] = Documented[f][a]
  <2>1. CASE f = "flow"
    BY <1>2, <1>5, <2>1
  <2>2. CASE f = "parity"
    BY <1>2, <1>4, <2>2
  <2>3. CASE f \in {"databits", "baud", "imap", "exit_after"}
    BY <1>3, <2>3
  <2> QED
    BY <1>1, <2>1, <2>2, <2>3
<1>7. DOMAIN Documented["stopbits"] = {"1", "2"} /\ \A a \in {"1", "2"} : Documented["stopbits"][a] = a
  BY <1>2 DEF Same
<1> QED
  BY <1>1, <1>2, <1>4, <1>5, <1>6, <1>7

LEMMA TakenIs ==
  ASSUME NEW arg \in Arguments
  PROVE  /\ DOMAIN Taken(arg) = DOMAIN Gives(arg)
         /\ \A f \in DOMAIN Gives(arg) \ {"log_filename"} : Taken(arg)[f] = Gives(arg)[f]
<1> DEFINE f == arg[1]
           a == arg[2]
<1>0. /\ {"stopbits", "log_filename", "help", "unknown"} \cap (Switches \cup DOMAIN Copied \cup DOMAIN Table) = {}
      /\ DOMAIN Table \cap (Switches \cup DOMAIN Copied) = {} /\ "flow" \in DOMAIN Table
      /\ DOMAIN Copied = {"escape", "initstring", "port"}
  BY DEF Table, Copied, Switches
<1>1. CASE f \in DOMAIN Table /\ a \in DOMAIN Table[f]
  <2>1. a # "bad"
    BY <1>1, TableIs
  <2>2. Taken(arg) = Just(f, Table[f][a])
    BY <1>0, <1>1, <2>1 DEF Taken
  <2>3. CASE a \in DOMAIN Documented[f]
    <3>1. Gives(arg) = Just(f, Documented[f][a])
      BY <1>0, <1>1, <2>3, TablesDocumented DEF Gives
    <3>2. Table[f][a] = Documented[f][a]
      BY <1>1, <2>3, TablesDocumented
    <3> QED
      BY <2>2, <3>1, <3>2
  <2>4. CASE a \notin DOMAIN Documented[f]
    <3>1. f = "flow" /\ a = "s"
      BY <1>1, <2>4, TablesDocumented
    <3>2. Gives(arg) = Just(f, "FC_XONXOFF")
      BY <1>0, <2>4, <3>1 DEF Gives
    <3>3. Table[f][a] = "FC_XONXOFF"
      BY <3>1, TablesDocumented
    <3> QED
      BY <2>2, <3>2, <3>3
  <2> QED
    BY <2>3, <2>4
<1>2. CASE f \in DOMAIN Table /\ a = "bad"
  <2>1. Taken(arg) = <<>>
    BY <1>0, <1>2 DEF Taken
  <2>2. a \notin DOMAIN Table[f] /\ a \notin DOMAIN Documented[f]
    <3>1. a \notin DOMAIN Table[f]
      BY <1>2, TableIs
    <3>2. DOMAIN Table[f] = DOMAIN Documented[f] \cup (IF f = "flow" THEN {"s"} ELSE {})
      BY <1>2, TablesDocumented
    <3> QED
      BY <3>1, <3>2
  <2>3. Gives(arg) = <<>>
    BY <1>0, <1>2, <2>2 DEF Gives
  <2> QED
    BY <2>1, <2>3
<1>3. CASE f = "stopbits" /\ a \in {"1", "2"}
  <2>1. a \notin DOMAIN ParityOf
    BY <1>3 DEF ParityOf
  <2>2. Taken(arg) = Just(f, a)
    BY <1>0, <1>3, <2>1 DEF Taken
  <2>3. Gives(arg) = Just(f, Documented[f][a])
    BY <1>0, <1>3, TablesDocumented DEF Gives
  <2>4. Documented[f][a] = a
    BY <1>3, TablesDocumented
  <2> QED
    BY <2>2, <2>3, <2>4
<1>4. CASE f = "stopbits" /\ a \in DOMAIN ParityOf
  <2>1. a \notin {"1", "2"} /\ a \in {"e", "o", "n"}
    BY <1>4 DEF ParityOf
  <2>2. Taken(arg) = [parity |-> ParityOf[a], stopbits |-> "1"]
    BY <1>0, <1>4, <2>1 DEF Taken
  <2>3. Gives(arg) = [parity |-> Documented["parity"][a], stopbits |-> "1"]
    BY <1>0, <1>4, <2>1, TablesDocumented DEF Gives
  <2>4. ParityOf = Documented["parity"]
    BY TablesDocumented
  <2> QED
    BY <2>2, <2>3, <2>4
<1>5. CASE f = "stopbits" /\ a = "bad"
  <2>1. a \notin {"1", "2"} /\ a \notin DOMAIN ParityOf /\ a \notin {"e", "o", "n"}
    BY <1>5 DEF ParityOf
  <2>2. Taken(arg) = <<>>
    BY <1>0, <1>5, <2>1 DEF Taken
  <2>3. Gives(arg) = <<>>
    BY <1>0, <1>5, <2>1, TablesDocumented DEF Gives
  <2> QED
    BY <2>2, <2>3
<1>6. CASE f \in Switches \cup DOMAIN Copied
  <2>1. Taken(arg) = Just(f, a)
    BY <1>0, <1>6 DEF Taken
  <2>2. f \notin DOMAIN Documented /\ f \notin {"flow", "stopbits"}
    BY <1>0, <1>6, TablesDocumented
  <2>3. f \in Switches \cup {"escape", "initstring", "port", "log_filename"}
    BY <1>0, <1>6
  <2>4. Gives(arg) = Just(f, a)
    BY <2>2, <2>3 DEF Gives
  <2> QED
    BY <2>1, <2>4
<1>7. CASE f = "log_filename"
  <2>1. Taken(arg) = Just(f, LogName(a))
    BY <1>0, <1>7 DEF Taken
  <2>2. Gives(arg) = Just(f, a)
    BY <1>0, <1>7, TablesDocumented DEF Gives
  <2> QED
    BY <1>7, <2>1, <2>2 DEF Just
<1>8. CASE f \in {"help", "unknown"}
  <2>1. Taken(arg) = <<>>
    BY <1>0, <1>8 DEF Taken
  <2>2. Gives(arg) = <<>>
    BY <1>0, <1>8, TablesDocumented DEF Gives
  <2> QED
    BY <2>1, <2>2
<1> HIDE DEF f, a
<1> QED
  BY <1>1, <1>2, <1>3, <1>4, <1>5, <1>6, <1>7, <1>8, ArgumentIs DEF f, a

(* parse_args() does that to what it has so far.                           *)
Wrong(arg) == DOMAIN Taken(arg) = {}

With(o, arg) == [x \in Names |-> IF x \in DOMAIN Taken(arg) THEN Taken(arg)[x] ELSE o[x]]

(* q with v as the value of f.                                             *)
IsSet(q, f, v) ==
  /\ IsGot(To(q, f, v)) /\ To(q, f, v).outcome = q.outcome /\ To(q, f, v).lost = q.lost
  /\ To(q, f, v).opts = [x \in Names |-> IF x = f THEN v ELSE q.opts[x]]

LEMMA ToIs == ASSUME NEW q, IsGot(q), NEW f \in Names, NEW v PROVE IsSet(q, f, v)
<1> DEFINE o == [x \in Names |-> IF x = f THEN v ELSE q.opts[x]]
<1>1. [q.opts EXCEPT ![f] = v] = o
  BY DEF IsGot
<1>2. To(q, f, v) = [q EXCEPT !.opts = [q.opts EXCEPT ![f] = v]]
  BY DEF To
<1>3. To(q, f, v) = [outcome |-> q.outcome, opts |-> o, spilt |-> q.spilt, lost |-> q.lost]
  <2> HIDE DEF o
  <2>1. To(q, f, v) = [q EXCEPT !.opts = o]
    BY <1>1, <1>2
  <2> QED
    BY <2>1 DEF IsGot
<1>4. o = [x \in Names |-> o[x]]
  OBVIOUS
<1> HIDE DEF o
<1> QED
  BY <1>3, <1>4 DEF IsGot, IsSet, o

LEMMA RefuseIs ==
  ASSUME NEW q, IsGot(q), NEW r \in {"usage", "failure"}
  PROVE  /\ IsGot([q EXCEPT !.outcome = r]) /\ [q EXCEPT !.outcome = r].outcome = r
         /\ [q EXCEPT !.outcome = r].lost = q.lost
BY DEF IsGot

LEMMA WithJust ==
  ASSUME NEW q, IsGot(q), NEW arg, NEW f \in Names, NEW v, Taken(arg) = Just(f, v)
  PROVE  To(q, f, v).opts = With(q.opts, arg) /\ ~Wrong(arg)
BY ToIs DEF IsSet, With, Wrong, Just

(* What is left of q when arg was parsed.                                  *)
Takes(q, arg) ==
  LET r == Parse(q, arg[1], arg[2])
  IN  /\ IsGot(r) /\ r.lost = q.lost
      /\ Wrong(arg) => r.outcome = IF arg[1] = "help" THEN "usage" ELSE "failure"
      /\ ~Wrong(arg) => r.outcome = q.outcome /\ r.opts = With(q.opts, arg)

LEMMA ParseIs ==
  ASSUME NEW q, IsGot(q), NEW arg \in Arguments PROVE Takes(q, arg)
<1> DEFINE f == arg[1]
           a == arg[2]
<1>0. /\ {"stopbits", "log_filename", "help", "unknown"} \cap (Switches \cup DOMAIN Copied \cup DOMAIN Table) = {}
      /\ DOMAIN Table \cap (Switches \cup DOMAIN Copied) = {}
      /\ Switches \cap DOMAIN Copied = {}
      /\ {"stopbits", "log_filename", "parity"} \cup Switches \cup DOMAIN Copied \cup DOMAIN Table \subseteq Names
  BY DEF Table, Names, Copied, Switches
<1>a. ASSUME NEW g \in Names, NEW v, Taken(arg) = Just(g, v), Parse(q, f, a) = To(q, g, v)
      PROVE  Takes(q, arg)
  <2>1. IsGot(To(q, g, v)) /\ To(q, g, v).outcome = q.outcome /\ To(q, g, v).lost = q.lost
    <3>1. IsSet(q, g, v)
      BY <1>a, ToIs
    <3> QED
      BY <3>1 DEF IsSet
  <2>2. To(q, g, v).opts = With(q.opts, arg) /\ ~Wrong(arg)
    BY <1>a, WithJust
  <2> QED
    BY <1>a, <2>1, <2>2 DEF Takes
<1>b. ASSUME Taken(arg) = <<>>, NEW r \in {"usage", "failure"}, r = IF f = "help" THEN "usage" ELSE "failure",
             Parse(q, f, a) = [q EXCEPT !.outcome = r]
      PROVE  Takes(q, arg)
  <2>1. Wrong(arg)
    BY <1>b DEF Wrong
  <2> QED
    BY <1>b, <2>1, RefuseIs DEF Takes
<1>1. CASE f \in DOMAIN Table /\ a \in DOMAIN Table[f]
  <2>1. a # "bad" /\ f \in Names
    BY <1>1, TableIs
  <2>2. Taken(arg) = Just(f, Table[f][a])
    BY <1>0, <1>1, <2>1 DEF Taken
  <2>3. Parse(q, f, a) = To(q, f, Table[f][a])
    BY <1>0, <1>1 DEF Parse
  <2> QED
    BY <1>a, <2>1, <2>2, <2>3
<1>2. CASE f \in DOMAIN Table /\ a = "bad"
  <2>1. a \notin DOMAIN Table[f] /\ f # "help"
    BY <1>2, TableIs
  <2>2. Taken(arg) = <<>>
    BY <1>0, <1>2 DEF Taken
  <2>3. Parse(q, f, a) = [q EXCEPT !.outcome = "failure"]
    BY <1>0, <1>2, <2>1 DEF Parse, Refuse
  <2> QED
    BY <1>b, <2>1, <2>2, <2>3
<1>3. CASE f = "stopbits" /\ a \in {"1", "2"}
  <2>1. a \notin DOMAIN ParityOf
    BY <1>3 DEF ParityOf
  <2>2. Taken(arg) = Just("stopbits", a)
    BY <1>0, <1>3, <2>1 DEF Taken
  <2>3. Parse(q, f, a) = To(q, "stopbits", a)
    BY <1>0, <1>3, <2>1 DEF Parse, StopOrParity
  <2>4. "stopbits" \in Names
    BY <1>0
  <2> QED
    BY <1>a, <2>2, <2>3, <2>4
<1>4. CASE f = "stopbits" /\ a \in DOMAIN ParityOf
  <2>1. a \notin {"1", "2"}
    BY <1>4 DEF ParityOf
  <2>2. Taken(arg) = [parity |-> ParityOf[a], stopbits |-> "1"]
    BY <1>0, <1>4, <2>1 DEF Taken
  <2>3. Parse(q, f, a) = To(To(q, "stopbits", "1"), "parity", ParityOf[a])
    BY <1>0, <1>4, <2>1 DEF Parse, StopOrParity
  <2>4. "stopbits" \in Names /\ "parity" \in Names
    BY <1>0
  <2> DEFINE r == To(q, "stopbits", "1")
             p == ParityOf[a]
  <2>5. /\ IsGot(r) /\ r.outcome = q.outcome /\ r.lost = q.lost
        /\ r.opts = [x \in Names |-> IF x = "stopbits" THEN "1" ELSE q.opts[x]]
    BY <2>4, ToIs DEF IsSet
  <2> HIDE DEF r, p
  <2>6. /\ IsGot(To(r, "parity", p)) /\ To(r, "parity", p).outcome = q.outcome /\ To(r, "parity", p).lost = q.lost
        /\ To(r, "parity", p).opts = [x \in Names |-> IF x = "parity" THEN p ELSE r.opts[x]]
    BY <2>4, <2>5, ToIs DEF IsSet
  <2>7. Taken(arg) = [parity |-> p, stopbits |-> "1"]
    BY <2>2 DEF p
  <2>8. DOMAIN Taken(arg) = {"parity", "stopbits"} /\ Taken(arg)["parity"] = p /\ Taken(arg)["stopbits"] = "1"
    BY <2>7
  <2>9. To(r, "parity", p).opts = With(q.opts, arg)
    BY <2>5, <2>6, <2>8 DEF With
  <2> QED
    BY <2>3, <2>6, <2>8, <2>9 DEF Takes, Wrong, r, p
<1>5. CASE f = "stopbits" /\ a = "bad"
  <2>1. a \notin {"1", "2"} /\ a \notin DOMAIN ParityOf
    BY <1>5 DEF ParityOf
  <2>2. Taken(arg) = <<>>
    BY <1>0, <1>5, <2>1 DEF Taken
  <2>3. Parse(q, f, a) = [q EXCEPT !.outcome = "failure"]
    BY <1>0, <1>5, <2>1 DEF Parse, StopOrParity, Refuse
  <2> QED
    BY <1>b, <1>5, <2>2, <2>3
<1>6. CASE f \in Switches \cup DOMAIN Copied
  <2>1. Taken(arg) = Just(f, a)
    BY <1>0, <1>6 DEF Taken
  <2>2. Parse(q, f, a) = To(q, f, a)
    BY <1>0, <1>6 DEF Parse
  <2>3. f \in Names
    BY <1>0, <1>6
  <2> QED
    BY <1>a, <2>1, <2>2, <2>3
<1>7. CASE f = "log_filename"
  <2>1. Taken(arg) = Just(f, LogName(a))
    BY <1>0, <1>7 DEF Taken
  <2>2. Parse(q, f, a) = To(q, f, LogName(a))
    BY <1>0, <1>7 DEF Parse
  <2>3. f \in Names
    BY <1>0, <1>7
  <2> QED
    BY <1>a, <2>1, <2>2, <2>3
<1>8. CASE f \in {"help", "unknown"}
  <2>1. Taken(arg) = <<>>
    BY <1>0, <1>8 DEF Taken
  <2>2. Parse(q, f, a) = [q EXCEPT !.outcome = IF f = "help" THEN "usage" ELSE "failure"]
    BY <1>0, <1>8 DEF Parse, Refuse
  <2> QED
    BY <1>b, <2>1, <2>2
<1> HIDE DEF f, a
<1> QED
  BY <1>1, <1>2, <1>3, <1>4, <1>5, <1>6, <1>7, <1>8, ArgumentIs DEF f, a

-----------------------------------------------------------------------------
(* One argument more.                                                      *)
LEMMA ValueAppend ==
  ASSUME NEW g \in Seq(Arguments), NEW arg \in Arguments, NEW f
  PROVE  ValueIn(Append(g, arg), f) = IF f \in DOMAIN Taken(arg) THEN Taken(arg)[f] ELSE ValueIn(g, f)
<1> DEFINE n == Len(g)
           h == Append(g, arg)
<1>1. n \in Nat /\ DOMAIN g = 1 .. n /\ DOMAIN h = 1 .. n + 1 /\ h[n + 1] = arg
      /\ \A i \in 1 .. n : h[i] = g[i]
  OBVIOUS
<1> HIDE DEF n, h
<1>2. SaidIn(g, f) \in SUBSET (1 .. n)
  BY <1>1 DEF SaidIn
<1>3. SaidIn(h, f) = SaidIn(g, f) \cup (IF f \in DOMAIN Taken(arg) THEN {n + 1} ELSE {})
  <2>1. \A i \in 1 .. n + 1 : i \in 1 .. n \/ i = n + 1
    BY <1>1
  <2>2. \A i \in 1 .. n : i \in 1 .. n + 1
    BY <1>1
  <2>3. n + 1 \in 1 .. n + 1
    BY <1>1
  <2> QED
    BY <1>1, <2>1, <2>2, <2>3 DEF SaidIn
<1>4. CASE f \in DOMAIN Taken(arg)
  <2>1. SaidIn(h, f) \in SUBSET (1 .. n + 1) /\ n + 1 \in SaidIn(h, f)
    BY <1>1, <1>2, <1>3, <1>4
  <2>2. Latest(SaidIn(h, f)) \in SaidIn(h, f) /\ n + 1 <= Latest(SaidIn(h, f))
    <3>1. n + 1 \in Nat /\ SaidIn(h, f) # {}
      BY <1>1, <2>1
    <3>2. Latest(SaidIn(h, f)) \in SaidIn(h, f) /\ \A j \in SaidIn(h, f) : j <= Latest(SaidIn(h, f))
      BY <2>1, <3>1, LatestIs, Zenon
    <3> QED
      BY <2>1, <3>2
  <2>3. Latest(SaidIn(h, f)) = n + 1
    BY <1>1, <2>1, <2>2
  <2> QED
    BY <1>1, <1>4, <2>1, <2>3 DEF ValueIn, h
<1>5. CASE f \notin DOMAIN Taken(arg)
  <2>1. SaidIn(h, f) = SaidIn(g, f)
    BY <1>3, <1>5
  <2>2. SaidIn(g, f) # {} => h[Latest(SaidIn(g, f))] = g[Latest(SaidIn(g, f))]
    BY <1>1, <1>2, LatestIs
  <2> QED
    BY <1>5, <2>1, <2>2 DEF ValueIn, h
<1> QED
  BY <1>4, <1>5

LEMMA WrongAppend ==
  ASSUME NEW g \in Seq(Arguments), NEW arg \in Arguments, WrongIn(g) = {}
  PROVE  WrongIn(Append(g, arg)) = IF Wrong(arg) THEN {Len(Append(g, arg))} ELSE {}
<1> DEFINE n == Len(g)
           h == Append(g, arg)
<1>1. n \in Nat /\ DOMAIN g = 1 .. n /\ DOMAIN h = 1 .. n + 1 /\ h[n + 1] = arg /\ Len(h) = n + 1
      /\ \A i \in 1 .. n : h[i] = g[i]
  OBVIOUS
<1> HIDE DEF n, h
<1>2. \A i \in 1 .. n + 1 : i \in 1 .. n \/ i = n + 1
  BY <1>1
<1>3. n + 1 \in 1 .. n + 1
  BY <1>1
<1>4. \A i \in 1 .. n : ~Wrong(h[i])
  BY <1>1 DEF WrongIn, Wrong
<1>5. WrongIn(h) = {i \in 1 .. n + 1 : Wrong(h[i])}
  BY <1>1 DEF WrongIn, Wrong
<1> QED
  BY <1>1, <1>2, <1>3, <1>4, <1>5 DEF h

LEMMA OptInitial == OptInit => OptInv
<1> SUFFICES ASSUME OptInit PROVE OptInv
  OBVIOUS
<1>1. given = <<>> /\ got = [outcome |-> "parsing", opts |-> Default, spilt |-> FALSE, lost |-> FALSE]
  BY DEF OptInit
<1>2. Default = [f \in Names |-> Default[f]]
  BY DEF Default
<1>3. IsGot(got)
  BY <1>1, <1>2 DEF IsGot
<1>4. WrongIn(<<>>) = {} /\ \A f : ValueIn(<<>>, f) = Default[f]
  BY DEF WrongIn, ValueIn, SaidIn
<1>5. Parsed(given, got)
  BY <1>1, <1>2, <1>4 DEF Parsed
<1>6. given \in Seq(Arguments)
  BY <1>1
<1> QED
  BY <1>3, <1>5, <1>6 DEF OptInv

LEMMA OptStep == ASSUME OptInv, OptNext PROVE OptInv'
<1>1. PICK arg \in Arguments : Give(arg)
  BY DEF OptNext
<1>2. given \in Seq(Arguments) /\ given' = Append(given, arg) /\ given' \in Seq(Arguments)
  <2>1. given \in Seq(Arguments) /\ given' = Append(given, arg)
    BY <1>1, Zenon DEF OptInv, Give
  <2> QED
    BY <2>1
<1>3. IsGot(got) /\ got.outcome = "parsing"
  BY <1>1, Zenon DEF OptInv, Give
<1>4. CASE got.spilt
  <2>1. PICK more \in BOOLEAN : got' = [To(got, "port", "time") EXCEPT !.spilt = more, !.lost = TRUE]
    BY <1>1, <1>4, Zenon DEF Give
  <2>2. IsGot(To(got, "port", "time"))
    <3>1. "port" \in Names
      BY DEF Names, Copied
    <3> QED
      BY <1>3, <3>1, ToIs DEF IsSet
  <2>3. IsGot(got') /\ got'.lost = TRUE
    BY <2>1, <2>2 DEF IsGot
  <2> QED
    BY <1>2, <2>3 DEF OptInv
<1>5. CASE ~got.spilt
  <2> DEFINE r == Parse(got, arg[1], arg[2])
  <2>1. PICK s : got' = [r EXCEPT !.spilt = s]
    BY <1>1, <1>5, Zenon DEF Give
  <2>2. Takes(got, arg) /\ IsGot(r) /\ r.lost = got.lost
    <3>1. Takes(got, arg)
      BY <1>3, ParseIs
    <3> QED
      BY <3>1 DEF Takes
  <2> HIDE DEF r
  <2>3. IsGot(got') /\ got'.lost = got.lost /\ got'.outcome = r.outcome /\ got'.opts = r.opts
    BY <2>1, <2>2 DEF IsGot
  <2>4. ASSUME ~got.lost PROVE Parsed(given', got')
    <3>1. WrongIn(given) = {} /\ got.opts = [f \in Names |-> ValueIn(given, f)]
      BY <1>3, <2>4 DEF OptInv, Parsed
    <3>2. WrongIn(given') = IF Wrong(arg) THEN {Len(given')} ELSE {}
      BY <1>2, <3>1, WrongAppend
    <3>3. CASE Wrong(arg)
      <4>1. got'.outcome = IF arg[1] = "help" THEN "usage" ELSE "failure"
        BY <2>2, <2>3, <3>3 DEF Takes, r
      <4>2. given' # <<>> /\ given'[Len(given')] = arg
        BY <1>2
      <4> QED
        BY <3>2, <3>3, <4>1, <4>2 DEF Parsed
    <3>4. CASE ~Wrong(arg)
      <4>1. got'.outcome = "parsing" /\ got'.opts = With(got.opts, arg)
        BY <1>3, <2>2, <2>3, <3>4 DEF Takes, r
      <4>2. \A f : ValueIn(given', f) = IF f \in DOMAIN Taken(arg) THEN Taken(arg)[f] ELSE ValueIn(given, f)
        BY <1>2, ValueAppend
      <4>3. got'.opts = [f \in Names |-> ValueIn(given', f)]
        BY <3>1, <4>1, <4>2 DEF With
      <4> QED
        BY <3>2, <3>4, <4>1, <4>3 DEF Parsed
    <3> QED
      BY <3>3, <3>4
  <2> QED
    BY <1>2, <2>3, <2>4 DEF OptInv
<1> QED
  BY <1>4, <1>5

(* A switch is only ever set, a port only ever named.                      *)
LEMMA GivesSwitch ==
  ASSUME NEW arg \in Arguments, NEW f \in DOMAIN Taken(arg)
  PROVE  (f \in Switches => Taken(arg)[f] = "yes") /\ (f = "port" => Taken(arg)[f] # "no")
<1>0. /\ {"stopbits", "log_filename", "parity"} \cap (Switches \cup DOMAIN Copied) = {}
      /\ DOMAIN Table \cap (Switches \cup DOMAIN Copied) = {}
      /\ {"stopbits", "log_filename", "help", "unknown"} \cap DOMAIN Table = {}
      /\ {"help", "unknown"} \cap (Switches \cup DOMAIN Copied) = {}
      /\ Switches \cap DOMAIN Copied = {} /\ "port" \in DOMAIN Copied /\ Copied["port"] = {"p1", "p2"}
  BY DEF Table, Copied, Switches
<1>1. CASE arg[1] \in DOMAIN Table
  <2>1. arg[2] # "bad" => Taken(arg) = Just(arg[1], Table[arg[1]][arg[2]])
    BY <1>0, <1>1 DEF Taken
  <2>2. arg[2] = "bad" => Taken(arg) = <<>>
    BY <1>0, <1>1 DEF Taken
  <2>3. f = arg[1]
    BY <2>1, <2>2 DEF Just
  <2> QED
    BY <1>0, <1>1, <2>3
<1>2. CASE arg[1] = "stopbits"
  <2>1. DOMAIN Taken(arg) \subseteq {"stopbits", "parity"}
    BY <1>0, <1>2 DEF Taken, Just, ParityOf
  <2> QED
    BY <1>0, <2>1
<1>3. CASE arg[1] \in DOMAIN Copied /\ arg[2] \in Copied[arg[1]]
  <2>1. Taken(arg) = Just(arg[1], arg[2])
    BY <1>0, <1>3 DEF Taken
  <2> QED
    BY <1>0, <1>3, <2>1 DEF Just
<1>4. CASE arg[1] = "log_filename"
  <2>1. Taken(arg) = Just(arg[1], LogName(arg[2]))
    BY <1>0, <1>4 DEF Taken
  <2> QED
    BY <1>0, <1>4, <2>1 DEF Just
<1>5. CASE arg[1] \in Switches /\ arg[2] = "yes"
  <2>1. Taken(arg) = Just(arg[1], arg[2])
    BY <1>0, <1>5 DEF Taken
  <2> QED
    BY <1>0, <1>5, <2>1 DEF Just
<1>6. CASE arg[1] \in {"help", "unknown"}
  <2>1. Taken(arg) = <<>>
    BY <1>0, <1>6 DEF Taken
  <2> QED
    BY <2>1
<1> QED
  BY <1>1, <1>2, <1>3, <1>4, <1>5, <1>6, ArgumentIs

LEMMA SwitchValue ==
  ASSUME NEW g \in Seq(Arguments)
  PROVE  /\ \A f \in Switches : ValueIn(g, f) = "yes" <=> SaidIn(g, f) # {}
         /\ ValueIn(g, "port") = "no" <=> SaidIn(g, "port") = {}
<1>1. \A f \in Switches : Default[f] = "no"
  BY DEF Switches, Default, Names
<1>2. Default["port"] = "no"
  BY DEF Default, Names, Copied
<1>3. ASSUME NEW f, SaidIn(g, f) # {}
      PROVE  /\ g[Latest(SaidIn(g, f))] \in Arguments
             /\ f \in DOMAIN Taken(g[Latest(SaidIn(g, f))])
  <2>1. SaidIn(g, f) \in SUBSET (1 .. Len(g)) /\ Len(g) \in Nat
    BY DEF SaidIn
  <2>2. Latest(SaidIn(g, f)) \in SaidIn(g, f)
    BY <1>3, <2>1, LatestIs
  <2> QED
    BY <2>1, <2>2 DEF SaidIn
<1>4. ASSUME NEW f \in Switches PROVE ValueIn(g, f) = "yes" <=> SaidIn(g, f) # {}
  BY <1>1, <1>3, GivesSwitch DEF ValueIn
<1>5. ValueIn(g, "port") = "no" <=> SaidIn(g, "port") = {}
  BY <1>2, <1>3, GivesSwitch DEF ValueIn
<1> QED
  BY <1>4, <1>5

(* Where the manual and the code agree, the value of f is what is asked.   *)
AskedIn(f) == IF Said(f) = {} THEN DocumentedDefault[f] ELSE Gives(given[Latest(Said(f))])[f]

LEMMA ValueAsked ==
  ASSUME given \in Seq(Arguments), NEW f \in Names \ Differs, Said(f) = SaidIn(given, f)
  PROVE  ValueIn(given, f) = AskedIn(f)
<1>1. CASE Said(f) = {}
  <2>1. f # "escape"
    BY <1>1 DEF Differs
  <2>2. Default[f] = DocumentedDefault[f]
    BY <2>1 DEF Default, DocumentedDefault
  <2> QED
    BY <1>1, <2>2 DEF ValueIn, AskedIn
<1>2. CASE Said(f) # {}
  <2>1. f # "log_filename"
    BY <1>2 DEF Differs
  <2>2. SaidIn(given, f) \in SUBSET (1 .. Len(given)) /\ Len(given) \in Nat
    BY DEF SaidIn
  <2>3. Latest(SaidIn(given, f)) \in SaidIn(given, f)
    BY <1>2, <2>2, LatestIs
  <2> DEFINE arg == given[Latest(SaidIn(given, f))]
  <2>4. arg \in Arguments /\ f \in DOMAIN Taken(arg)
    BY <2>2, <2>3 DEF SaidIn
  <2> HIDE DEF arg
  <2>5. Taken(arg)[f] = Gives(arg)[f]
    BY <2>1, <2>4, TakenIs
  <2> QED
    BY <1>2, <2>5 DEF ValueIn, AskedIn, arg
<1> QED
  BY <1>1, <1>2

LEMMA OptInvHolds == ASSUME OptInv PROVE OptionsFollowManual
<1> SUFFICES ASSUME ~got.lost PROVE OptionsFollowManual
  BY DEF OptionsFollowManual
<1> DEFINE out == parse_args(got)
<1>1. Parsed(given, got) /\ given \in Seq(Arguments) /\ IsGot(got)
  BY DEF OptInv
<1>2. /\ \A f : Said(f) = SaidIn(given, f)
      /\ WrongIn(given) = {i \in DOMAIN given : DOMAIN Gives(given[i]) = {}}
  <2>1. \A i \in DOMAIN given : given[i] \in Arguments
    BY <1>1
  <2>2. \A i \in DOMAIN given : DOMAIN Taken(given[i]) = DOMAIN Gives(given[i])
    BY <2>1, TakenIs
  <2> QED
    BY <2>2 DEF Said, SaidIn, WrongIn
<1>3. OptionsFollowManual <=>
        IF WrongIn(given) # {}
        THEN out.outcome = (IF given[Earliest(WrongIn(given))][1] = "help" THEN "usage" ELSE "failure")
        ELSE IF \/ Both("raise_rts", "lower_rts") \/ Both("raise_dtr", "lower_dtr") \/ Said("port") = {}
        THEN out.outcome = "failure"
        ELSE out.outcome = "run" /\ \A f \in Names \ Differs : out.opts[f] = Asked(f)
  BY <1>2 DEF OptionsFollowManual
<1>4. CASE got.outcome # "parsing"
  <2>1. WrongIn(given) = {Len(given)} /\ got.outcome = IF given[Len(given)][1] = "help" THEN "usage" ELSE "failure"
    BY <1>1, <1>4 DEF Parsed
  <2>2. Earliest(WrongIn(given)) = Len(given)
    BY <1>1, <2>1 DEF Earliest
  <2>3. out = [outcome |-> got.outcome]
    BY <1>4 DEF parse_args
  <2> HIDE DEF out
  <2> QED
    BY <1>3, <2>1, <2>2, <2>3
<1>5. CASE got.outcome = "parsing"
  <2>1. WrongIn(given) = {} /\ got.opts = [f \in Names |-> ValueIn(given, f)]
    BY <1>1, <1>5 DEF Parsed
  <2>2. /\ Switches \subseteq Names /\ "port" \in Names /\ "exit_after" \in Names
        /\ {"raise_rts", "lower_rts", "raise_dtr", "lower_dtr", "exit"} \subseteq Switches
    BY DEF Names, Switches, Copied, Table
  <2>3. \A f \in Switches : got.opts[f] = "yes" <=> Said(f) # {}
    BY <1>1, <1>2, <2>1, <2>2, SwitchValue
  <2>4. got.opts["port"] = "no" <=> Said("port") = {}
    BY <1>1, <1>2, <2>1, <2>2, SwitchValue
  <2>5. Conflict(got.opts) <=> Both("raise_rts", "lower_rts") \/ Both("raise_dtr", "lower_dtr")
    BY <2>2, <2>3 DEF Conflict, Both
  <2>6. CASE Conflict(got.opts) \/ got.opts["port"] = "no"
    <3>1. out = [outcome |-> "failure"]
      BY <1>5, <2>6 DEF parse_args
    <3> HIDE DEF out
    <3> QED
      BY <1>3, <2>1, <2>4, <2>5, <2>6, <3>1
  <2>7. CASE ~(Conflict(got.opts) \/ got.opts["port"] = "no")
    <3>1. out = [outcome |-> "run", opts |-> Overridden(got.opts)]
      BY <1>5, <2>7 DEF parse_args
    <3>2. \A f \in Names \ Differs : Overridden(got.opts)[f] = Asked(f)
      <4>1. \A f \in Names \ Differs : ValueIn(given, f) = AskedIn(f)
        BY <1>1, <1>2, ValueAsked
      <4>2. \A f \in Names \ Differs :
              Asked(f) = IF f = "exit_after" /\ Said("exit") # {} THEN "no" ELSE got.opts[f]
        BY <2>1, <4>1 DEF Asked, AskedIn
      <4>3. got.opts["exit"] = "yes" <=> Said("exit") # {}
        BY <2>2, <2>3
      <4>4. CASE got.opts["exit"] = "yes"
        BY <2>1, <2>2, <4>2, <4>3, <4>4 DEF Overridden
      <4>5. CASE got.opts["exit"] # "yes"
        BY <2>1, <4>2, <4>3, <4>5 DEF Overridden
      <4> QED
        BY <4>4, <4>5
    <3> HIDE DEF out
    <3> QED
      BY <1>3, <2>1, <2>4, <2>5, <2>7, <3>1, <3>2
  <2> QED
    BY <2>6, <2>7
<1> QED
  BY <1>4, <1>5

(* For command lines of any length and any rates: ppcom runs with the last *)
(* value given of every option and the manual's defaults, or ends as the   *)
(* manual says; but for the escape character that is not given, the name   *)
(* of a log file, and an argument that this name overwrites.               *)
THEOREM ParsingFollowsManual == OptSpec => []OptionsFollowManual
<1>1. OptInit => OptInv
  BY OptInitial
<1>2. OptInv /\ [OptNext]_optvars => OptInv'
  <2>1. ASSUME OptInv, UNCHANGED optvars PROVE OptInv'
    BY <2>1 DEF optvars, OptInv, Parsed, IsGot
  <2> QED
    BY <2>1, OptStep
<1>3. OptInv => OptionsFollowManual
  BY OptInvHolds
<1> QED
  BY <1>1, <1>2, <1>3, PTL DEF OptSpec
=============================================================================
