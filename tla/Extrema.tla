------------------------------ MODULE Extrema ------------------------------
(***************************************************************************)
(* Least and greatest elements, for the proofs about key order, file names *)
(* and the newest record of a key.                                         *)
(***************************************************************************)
EXTENDS Integers, FiniteSetsExt, WellFoundedInduction, TLAPS

(* A set of naturals that has an element has a least one. *)
LEMMA LeastElement ==
    ASSUME NEW S \in SUBSET Nat, S # {}
    PROVE  \E x \in S : \A y \in S : x <= y
<1>1. \E x \in S : \A y \in S : ~(<<y, x>> \in OpToRel(<, Nat))
  BY NatLessThanWellFounded, WFMin
<1>2. ASSUME NEW x \in S, NEW y \in S, ~(<<y, x>> \in OpToRel(<, Nat))
      PROVE  x <= y
  BY <1>2 DEF OpToRel
<1> QED
  BY <1>1, <1>2

(* Min of such a set is its least element. *)
LEMMA MinIsLeast ==
    ASSUME NEW S \in SUBSET Nat, S # {}
    PROVE  Min(S) \in S /\ \A y \in S : Min(S) <= y
BY LeastElement DEF Min

(* A set of naturals that is bounded and has an element has a greatest one,
   and Max is that one. *)
LEMMA MaxIsGreatest ==
    ASSUME NEW c \in Nat, NEW S \in SUBSET (0..c), S # {}
    PROVE  /\ Max(S) \in S
           /\ \A y \in S : y <= Max(S)
<1> DEFINE R == {n \in Nat : c - n \in S}
<1>1. PICK s \in S : TRUE
  OBVIOUS
<1>2. c - s \in Nat /\ c - (c - s) = s
  OBVIOUS
<1>3. R \in SUBSET Nat /\ R # {}
  BY <1>2
<1>4. PICK r \in R : \A y \in R : r <= y
  BY <1>3, LeastElement
<1>5. ASSUME NEW y \in S
      PROVE  c - r >= y
  <2>1. c - y \in Nat /\ c - (c - y) = y
    OBVIOUS
  <2>2. c - y \in R
    BY <2>1
  <2>3. r \in Nat /\ r <= c - y
    BY <1>4, <2>2
  <2> HIDE DEF R
  <2>4. y \in Nat
    OBVIOUS
  <2> QED
    BY <2>3, <2>4
<1> QED
  BY <1>4, <1>5 DEF Max

(* What makes a member the maximum. *)
LEMMA MaxIs ==
    ASSUME NEW S \in SUBSET Nat, NEW n \in S, \A m \in S : m <= n
    PROVE  Max(S) = n
<1>1. \A y \in S : n >= y
  OBVIOUS
<1>2. PICK x \in S : x = Max(S) /\ \A y \in S : x >= y
  BY <1>1 DEF Max
<1> QED
  BY <1>2
=============================================================================
