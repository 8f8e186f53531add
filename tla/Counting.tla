------------------------------- MODULE Counting -------------------------------
(* Induction over the numbers, as a fact about sets, which the provers can    *)
(* use: the induction theorems of the library are about operators.            *)
EXTENDS Naturals, WellFoundedInduction, TLAPS

(* A set with 0 in it, and with each number it holds the next, has them all.  *)
LEMMA AllNumbers ==
    ASSUME NEW S, 0 \in S, \A n \in Nat : n \in S => n + 1 \in S
    PROVE  Nat \subseteq S
  <1>. SUFFICES ASSUME Nat \ S # {} PROVE FALSE
    OBVIOUS
  <1>1. PICK n \in Nat \ S : \A m \in Nat \ S : ~(<<m, n>> \in OpToRel(<, Nat))
    BY WFMin, NatLessThanWellFounded
  <1>2. \A m \in Nat \ S : ~(m < n)
    BY <1>1 DEF OpToRel
  <1>3. n - 1 \in Nat /\ n - 1 < n /\ n - 1 + 1 = n
    BY SMT
  <1>. QED
    BY <1>2, <1>3
=============================================================================
