------------------------- MODULE HNS24HTime_proofs -------------------------
(***************************************************************************)
(* Facts about times of day, and the least-number principle.               *)
(***************************************************************************)
EXTENDS HNS24HTime, NaturalsInduction, WellFoundedInduction, TLAPS

(***************************************************************************)
(* Arithmetic of times of day.                                             *)
(***************************************************************************)

\* A sum of HNS24HTime is never past 24:00:00.
LEMMA AddSecondsType ==
  ASSUME NEW t \in Nat, NEW s \in Nat
  PROVE  AddSeconds(t, s) \in TimeOfDay
<1>1. (t + s) % UIntMod \in Nat
  BY TimeAssumption
<1> QED BY <1>1, TimeAssumption DEF AddSeconds, Cap, TimeOfDay

\* A sum that does not overflow the uint never moves a time backwards.
LEMMA AddSecondsGrows ==
  ASSUME NEW t \in TimeOfDay, NEW s \in Nat, DaySecs + s < UIntMod
  PROVE  /\ t <= AddSeconds(t, s)
         /\ 0 < s => t < AddSeconds(t, s) \/ AddSeconds(t, s) = DaySecs
<1>1. t + s \in 0 .. UIntMod - 1
  BY TimeAssumption DEF TimeOfDay
<1>2. (t + s) % UIntMod = t + s
  BY <1>1, TimeAssumption
<1> QED BY <1>2, TimeAssumption DEF AddSeconds, Cap, TimeOfDay

\* A sum that does not overflow is the exact one, or 24:00:00.
LEMMA AddDurationExact ==
  ASSUME NEW t \in ClockTime, NEW d \in Nat, DaySecs + d < UIntMod
  PROVE  AddDuration(t, d) = DaySecs \/ AddDuration(t, d) = t + d
<1>1. t + d \in 0 .. UIntMod - 1
  BY TimeAssumption DEF ClockTime
<1>2. (t + d) % UIntMod = t + d
  BY <1>1, TimeAssumption
<1> QED BY <1>2 DEF AddDuration, AddSeconds, Cap

(***************************************************************************)
(* The least-number principle, to argue about the actions of a sequence    *)
(* one after the other.                                                    *)
(***************************************************************************)
LEMMA LessThanWellFounded ==
  IsWellFoundedOn({ss \in Nat \X Nat : ss[1] < ss[2]}, Nat)
BY NatLessThanWellFounded, Zenon DEF OpToRel

LEMMA LeastNumber ==
  ASSUME NEW T, T \subseteq Nat, T # {}
  PROVE  \E n \in T : \A m \in T : n <= m
<1> DEFINE R == {ss \in Nat \X Nat : ss[1] < ss[2]}
<1>1. IsWellFoundedOn(R, Nat)
  BY LessThanWellFounded
<1>2. PICK n \in T : \A m \in T : ~ (<<m, n>> \in R)
  <2> HIDE DEF R
  <2> QED BY <1>1, WFMin
<1>3. n \in Nat
  OBVIOUS
<1>4. ASSUME NEW m \in T PROVE n <= m
  <2>1. m \in Nat
    OBVIOUS
  <2>2. ~ (m < n)
    BY <1>2, <1>3, <2>1
  <2> QED BY <1>3, <2>1, <2>2
<1> QED BY <1>4
=============================================================================
