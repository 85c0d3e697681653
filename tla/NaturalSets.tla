------------------------------ MODULE NaturalSets ------------------------------
(***************************************************************************)
(* Sets of natural numbers: times, ids and positions in a list.  What the  *)
(* proofs need of them by induction, from the library's theorem that the   *)
(* subsets of a finite set are well founded.                               *)
(***************************************************************************)
EXTENDS Naturals, FiniteSets, FiniteSetTheorems, WellFoundedInduction, TLAPS

\* A set of naturals has a least element: no other's down set is within its.
LEMMA LeastElement ==
    ASSUME NEW S, S \subseteq Nat, S # {}
    PROVE  \E x \in S : \A y \in S : x <= y
<1>. PICK n \in S : TRUE
    OBVIOUS
<1>. DEFINE bounded == {y \in S : y <= n}
            UpTo(x) == {y \in bounded : y <= x}
            downs == {UpTo(x) : x \in bounded}
<1>1. IsFiniteSet(bounded)
    BY FS_BoundedSetOfNaturals
<1>2. n \in bounded /\ bounded \subseteq Nat
    <2>1. n \in Nat /\ n <= n
        OBVIOUS
    <2>2. n \in bounded
        BY <2>1
    <2>3. bounded \subseteq Nat
        OBVIOUS
    <2>. QED
        BY <2>2, <2>3
<1>. HIDE DEF bounded
<1>3. IsWellFoundedOn(StrictSubsetOrdering(bounded), SUBSET bounded)
    BY <1>1, FS_StrictSubsetOrderingWellFounded, FS_FiniteSubsetsOfFinite
<1>4. downs \subseteq SUBSET bounded /\ downs # {}
    BY <1>2
<1>. HIDE DEF downs
<1>5. PICK down \in downs :
          \A other \in downs : <<other, down>> \notin StrictSubsetOrdering(bounded)
    BY <1>3, <1>4, WFMin
<1>6. PICK x \in bounded : down = UpTo(x)
    BY DEF downs
<1>7. ASSUME NEW y \in bounded, y < x PROVE FALSE
    <2>1. y \in Nat /\ x \in Nat
        BY <1>2
    <2>2. \A z \in UpTo(y) : z \in UpTo(x)
        BY <1>2, <1>7, <2>1
    <2>3. x \in UpTo(x) /\ x \notin UpTo(y)
        BY <1>7, <2>1
    <2>4. UpTo(y) \in downs /\ UpTo(y) \in SUBSET bounded /\ UpTo(x) \in SUBSET bounded
        BY DEF downs
    <2>. HIDE DEF UpTo
    <2>5. <<UpTo(y), UpTo(x)>> \in StrictSubsetOrdering(bounded)
        BY <2>2, <2>3, <2>4 DEF StrictSubsetOrdering
    <2>. QED
        BY <1>5, <1>6, <2>4, <2>5
<1>8. x \in Nat /\ x <= n /\ n \in Nat /\ x \in S
    BY DEF bounded
<1>9. ASSUME NEW y \in S PROVE x <= y
    <2>1. CASE y <= n
        BY <1>2, <1>7, <1>8, <2>1 DEF bounded
    <2>2. CASE ~(y <= n)
        BY <1>8, <2>2
    <2>. QED
        BY <2>1, <2>2
<1>. QED
    BY <1>8, <1>9
=============================================================================
