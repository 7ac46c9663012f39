----------------------------- MODULE Induction ------------------------------
(* Induction over the natural numbers, as a fact about a set of them.         *)
EXTENDS Integers, WellFoundedInduction, TLAPS

(* A set of naturals that has 0, and with each of its elements the next, has  *)
(* them all: the least number outside would have a predecessor inside.        *)
LEMMA InductionOnSets ==
    ASSUME NEW T \in SUBSET Nat, 0 \in T, \A n \in T : n + 1 \in T
    PROVE  T = Nat
<1> DEFINE F == Nat \ T
<1> SUFFICES ASSUME F # {} PROVE FALSE
  OBVIOUS
<1>1. PICK x \in F : \A y \in F : ~ (<<y, x>> \in OpToRel(<, Nat))
  BY WFMin, NatLessThanWellFounded
<1>2. \A y \in F : ~ (y < x)
  BY <1>1 DEF OpToRel
<1>3. x # 0 /\ x - 1 \in Nat /\ x - 1 < x
  OBVIOUS
<1>4. x - 1 \in T
  BY <1>2, <1>3
<1> QED BY <1>4

(* The same from 1 to n.                                                      *)
LEMMA InductionUpTo ==
    ASSUME NEW n \in Nat, NEW T, 1 \in T,
           \A k \in Nat : k # 0 /\ k + 1 <= n /\ k \in T => k + 1 \in T
    PROVE  1..n \subseteq T
<1> DEFINE U == {k \in Nat : k # 0 /\ k <= n => k \in T}
<1>1. 0 \in U
  OBVIOUS
<1>2. \A k \in U : k + 1 \in U
  <2> SUFFICES ASSUME NEW k \in Nat, k \in U, k + 1 <= n PROVE k + 1 \in T
    OBVIOUS
  <2>1. CASE k = 0
    BY <2>1
  <2>2. CASE k # 0
    BY <2>2
  <2> QED BY <2>1, <2>2
<1>3. U = Nat
  <2> HIDE DEF U
  <2> QED BY <1>1, <1>2, InductionOnSets DEF U
<1> QED BY <1>3
=============================================================================
