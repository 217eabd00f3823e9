---------------------------- MODULE LeastElement ----------------------------
(***************************************************************************)
(* A search that stops at the first place: every non-empty set of natural  *)
(* numbers has a least element.                                            *)
(***************************************************************************)
EXTENDS Integers, WellFoundedInduction, TLAPS

(* The order of the naturals has no infinite descent.                      *)
Less == {p \in Nat \X Nat : p[1] < p[2]}

(* NatLessThanWellFounded, for Less.                                       *)
LEMMA LessWellFounded == IsWellFoundedOn(Less, Nat)
BY NatLessThanWellFounded DEF OpToRel, Less

(* What term_find() and the search for the first newline rely on.          *)
LEMMA LeastNat ==
  ASSUME NEW S \in SUBSET Nat, S # {}
  PROVE  \E i \in S : \A j \in S : i <= j
<1>1. PICK i \in S : \A j \in S : ~(<<j, i>> \in Less)
  BY LessWellFounded, WFMin
<1>2. \A a, b \in Nat : a < b => <<a, b>> \in Less
  BY DEF Less
<1>3. \A j \in S : ~(j < i)
  BY <1>1, <1>2
<1>4. \A j \in S : i <= j
  BY <1>3
<1> QED
  BY <1>4
=============================================================================
