------------------------------ MODULE Induction ------------------------------
(***************************************************************************)
(* Induction over the naturals with a set in the place of a predicate: to  *)
(* prove P(n) for every n, take T == {n \in Nat : P(n)}.                    *)
(***************************************************************************)
EXTENDS NaturalsInduction, WellFoundedInduction, TLAPS

(* A set of naturals that is not empty has a least one.                   *)
LEMMA LeastNatural ==
    ASSUME NEW T, T \subseteq Nat, T # {}
    PROVE  \E n \in T : \A m \in T : n <= m
<1> DEFINE less == OpToRel(<, Nat)
<1>1. PICK n \in T : \A m \in T : <<m, n>> \notin less
  <2> HIDE DEF less
  <2>1. IsWellFoundedOn(less, Nat)
    BY NatLessThanWellFounded DEF less
  <2>2. QED
    BY <2>1, WFMin
<1>2. less = {p \in Nat \X Nat : p[1] < p[2]}
  BY DEF OpToRel
<1> HIDE DEF less
<1>3. ASSUME NEW m \in T PROVE n <= m
  <2>1. <<m, n>> \in Nat \X Nat /\ <<m, n>> \notin less
    BY <1>1
  <2>2. ~(m < n)
    BY <2>1, <1>2
  <2>3. QED
    BY <2>2
<1>4. QED
  BY <1>3

(* A set with 0 and the successor of each of its naturals has them all.    *)
LEMMA SetInduction ==
    ASSUME NEW T, 0 \in T, \A n \in Nat : n \in T => n + 1 \in T
    PROVE  \A n \in Nat : n \in T
<1> DEFINE rest == Nat \ T
<1>1. SUFFICES ASSUME rest # {} PROVE FALSE
  OBVIOUS
<1>2. rest \subseteq Nat
  OBVIOUS
<1>3. PICK n \in rest : \A m \in rest : n <= m
  <2> HIDE DEF rest
  <2>1. QED
    BY <1>1, <1>2, LeastNatural
<1>4. n # 0 /\ n \in Nat
  OBVIOUS
<1>5. n - 1 \in Nat /\ n - 1 \notin rest /\ (n - 1) + 1 = n
  BY <1>3, <1>4
<1>6. QED
  BY <1>5

=============================================================================
