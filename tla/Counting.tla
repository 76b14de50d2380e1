------------------------------ MODULE Counting ------------------------------
(***************************************************************************)
(* Facts about numbers that several proofs count with.  Induction comes    *)
(* from the smallest number of a set, which comes from the finite sets.    *)
(***************************************************************************)
EXTENDS Integers, FiniteSets, FiniteSetTheorems, TLAPS

\* Numbers have a smallest one: the first free position that is taken exists, and
\* so does the first number for which something goes wrong.
LEMMA Smallest ==
    ASSUME NEW S, S \subseteq Nat, S # {}
    PROVE  \E n \in S : \A k \in S : n <= k
<1> DEFINE Below(n) == 0 .. n
           Initial == {Below(n) : n \in S}
<1>1. IsWellFoundedOn(StrictSubsetOrdering(Nat), FiniteSubsetsOf(Nat))
  BY FS_StrictSubsetOrderingWellFounded
<1>2. \A n \in S : Below(n) \in FiniteSubsetsOf(Nat)
  <2> TAKE n \in S
  <2>1. Below(n) \in SUBSET Nat
    BY SMT
  <2>2. IsFiniteSet(Below(n))
    BY FS_Interval, SMT
  <2> QED BY <2>1, <2>2, Zenon DEF FiniteSubsetsOf
<1>3. PICK least \in Initial : \A other \in Initial :
          <<other, least>> \notin StrictSubsetOrdering(Nat)
  <2>1. Initial \subseteq FiniteSubsetsOf(Nat) /\ Initial # {}
    BY <1>2, Zenon
  <2> HIDE DEF Initial
  <2> QED BY <1>1, <2>1, WFMin, Zenon
<1>4. PICK n \in S : least = Below(n)
  OBVIOUS
<1>5. ASSUME NEW k \in S, k < n PROVE FALSE
  <2>1. Below(k) \in SUBSET Nat /\ Below(n) \in SUBSET Nat /\ Below(k) \subseteq Below(n)
    BY <1>5, SMT
  <2>2. Below(k) # Below(n)
    <3>1. n \in Below(n) /\ n \notin Below(k)
      BY <1>5, SMT
    <3> QED BY <3>1, Zenon
  <2> DEFINE pair == <<Below(k), Below(n)>>
  <2>3. pair \in (SUBSET Nat) \X (SUBSET Nat) /\ pair[1] = Below(k) /\ pair[2] = Below(n)
    BY <2>1, Zenon
  <2>4. pair \in StrictSubsetOrdering(Nat)
    <3> HIDE DEF pair, Below
    <3> QED BY <2>1, <2>2, <2>3, SMT DEF StrictSubsetOrdering
  <2> QED BY <1>3, <1>4, <2>4, Zenon
<1> QED BY <1>5, SMT

\* What holds of 0 and of the next number whenever it holds of one holds of all.
LEMMA ByCounting ==
    ASSUME NEW S, 0 \in S, \A n \in S : n \in Nat => n + 1 \in S
    PROVE  Nat \subseteq S
<1> SUFFICES ASSUME Nat \ S # {} PROVE FALSE
  OBVIOUS
<1>1. PICK n \in Nat \ S : \A k \in Nat \ S : n <= k
  BY Smallest
<1>2. n # 0 /\ n - 1 \in Nat
  BY <1>1
<1>3. n - 1 \in S
  BY <1>1, <1>2
<1>4. (n - 1) + 1 = n
  BY <1>1
<1>5. (n - 1) + 1 \in S
  BY <1>2, <1>3
<1> QED BY <1>1, <1>4, <1>5

\* As many numbers as one counts to.
LEMMA NumbersCounted ==
    ASSUME NEW n \in Nat
    PROVE  /\ IsFiniteSet(1 .. n) /\ Cardinality(1 .. n) = n
           /\ IsFiniteSet(0 .. (n - 1)) /\ Cardinality(0 .. (n - 1)) = n
<1>1. IsFiniteSet(1 .. n) /\ Cardinality(1 .. n) = n
  BY FS_Interval, SMT
<1>2. IsFiniteSet(0 .. (n - 1)) /\ Cardinality(0 .. (n - 1)) = n
  BY FS_Interval, SMT
<1> QED BY <1>1, <1>2

=============================================================================
