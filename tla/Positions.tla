----------------------------- MODULE Positions ------------------------------
(***************************************************************************)
(* A non-empty set of positions in a sequence has a least and a greatest   *)
(* element.  The proofs about texts find the first and the last character  *)
(* of some kind by them.                                                   *)
(***************************************************************************)
EXTENDS Integers, FiniteSetTheorems, WellFoundedInduction, TLAPS

\* Some member of J contains no other.
HasMinimal(J) == \E T \in J : \A U \in J : U \subseteq T => U = T

\* A set of intervals with a common end has a least element: strict inclusion
\* of finite sets is well founded.
LEMMA LeastInterval ==
    ASSUME NEW B, IsFiniteSet(B), NEW Intervals, \A I \in Intervals : I \subseteq B,
           Intervals # {}
    PROVE  HasMinimal(Intervals)
<1> DEFINE R == StrictSubsetOrdering(B)
<1>1. IsWellFoundedOn(R, SUBSET B)
  BY FS_FiniteSubsetsOfFinite, FS_StrictSubsetOrderingWellFounded
<1>2. Intervals \subseteq SUBSET B
  OBVIOUS
<1> HIDE DEF R
<1>3. PICK T \in Intervals : \A U \in Intervals : ~(<<U, T>> \in R)
  BY <1>1, <1>2, WFMin
<1> QED BY <1>2, <1>3 DEF R, StrictSubsetOrdering, HasMinimal

\* The least of some positions.
LEMMA LeastPosition ==
    ASSUME NEW k \in Nat, NEW S, S \subseteq 1..k, S # {}
    PROVE  \E m \in S : \A n \in S : m <= n
<1> PICK Intervals : Intervals = {1..n : n \in S}
  OBVIOUS
<1>1. PICK B : B = 1..k /\ IsFiniteSet(B)
  BY FS_Interval
<1>2. PICK T \in Intervals : \A U \in Intervals : U \subseteq T => U = T
  <2>1. \A n \in S : 1..n \subseteq 1..k
    OBVIOUS
  <2>2. Intervals # {} /\ \A I \in Intervals : I \subseteq B
    BY <1>1, <2>1
  <2>3. IsFiniteSet(B)
    BY <1>1
  <2>4. HasMinimal(Intervals)
    BY <2>2, <2>3, LeastInterval
  <2> QED BY <2>4 DEF HasMinimal
<1>3. PICK m \in S : T = 1..m
  OBVIOUS
<1>4. \A n \in S : m <= n
  <2> SUFFICES ASSUME NEW n \in S, n < m PROVE FALSE
    BY <1>3
  <2>1. 1..n \subseteq 1..m /\ m \in 1..m /\ m \notin 1..n
    OBVIOUS
  <2> QED BY <1>2, <1>3, <2>1
<1> QED BY <1>4

\* The greatest of some positions.
LEMMA GreatestPosition ==
    ASSUME NEW k \in Nat, NEW S, S \subseteq 1..k, S # {}
    PROVE  \E m \in S : \A n \in S : m >= n
<1> PICK Intervals : Intervals = {n..k : n \in S}
  OBVIOUS
<1>1. PICK B : B = 1..k /\ IsFiniteSet(B)
  BY FS_Interval
<1>2. PICK T \in Intervals : \A U \in Intervals : U \subseteq T => U = T
  <2>1. \A n \in S : n..k \subseteq 1..k
    OBVIOUS
  <2>2. Intervals # {} /\ \A I \in Intervals : I \subseteq B
    BY <1>1, <2>1
  <2>3. IsFiniteSet(B)
    BY <1>1
  <2>4. HasMinimal(Intervals)
    BY <2>2, <2>3, LeastInterval
  <2> QED BY <2>4 DEF HasMinimal
<1>3. PICK m \in S : T = m..k
  OBVIOUS
<1>4. \A n \in S : m >= n
  <2> SUFFICES ASSUME NEW n \in S, m < n PROVE FALSE
    BY <1>3
  <2>1. n..k \subseteq m..k /\ m \in m..k /\ m \notin n..k
    OBVIOUS
  <2> QED BY <1>2, <1>3, <2>1
<1> QED BY <1>4

=============================================================================
