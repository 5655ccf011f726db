------------------------------ MODULE NatFacts ------------------------------
(***************************************************************************)
(* Facts that the proofs of several components need.                       *)
(***************************************************************************)
EXTENDS Integers, TLAPS, NaturalsInduction, WellFoundedInduction

(* A set of numbers that is not empty has a least element.                 *)
LEMMA LeastIsIn ==
  ASSUME NEW T, T \subseteq Nat, T # {}
  PROVE  \E i \in T : \A j \in T : i <= j
<1>1. IsWellFoundedOn(OpToRel(<, Nat), Nat)
  BY NatLessThanWellFounded
<1>2. PICK i \in T : \A j \in T : <<j, i>> \notin OpToRel(<, Nat)
  BY <1>1, WFMin
<1>3. \A j \in T : ~(j < i)
  BY <1>2 DEF OpToRel
<1> QED
  BY <1>3
=============================================================================
