----------------------------- MODULE DataLemmas -----------------------------
(***************************************************************************)
(* Facts about naturals, sequences and finite sets that the proofs of      *)
(* several components need, and induction in a form without an operator as *)
(* its parameter: a set of naturals that has 0 and with n also n + 1 has   *)
(* all naturals.                                                           *)
(***************************************************************************)
EXTENDS Naturals, Sequences, FiniteSets, SequencesExt, FiniteSetTheorems, FunctionTheorems,
        WellFoundedInduction, TLAPS

(* A set of naturals that is not empty has a least element.                *)
LEMMA LeastNatural ==
    ASSUME NEW S \in SUBSET Nat, S # {}
    PROVE  \E x \in S : \A y \in S : x =< y
<1> DEFINE I == {0 .. x : x \in S}
           R == StrictSubsetOrdering(Nat)
<1>1. IsWellFoundedOn(R, FiniteSubsetsOf(Nat))
  BY FS_StrictSubsetOrderingWellFounded
<1>2. I \subseteq FiniteSubsetsOf(Nat)
  <2> SUFFICES ASSUME NEW x \in S PROVE 0 .. x \in FiniteSubsetsOf(Nat)
    OBVIOUS
  <2>1. 0 \in Int /\ x \in Int /\ 0 .. x \in SUBSET Nat
    OBVIOUS
  <2>2. IsFiniteSet(0 .. x)
    BY <2>1, FS_Interval
  <2> QED
    BY <2>1, <2>2 DEF FiniteSubsetsOf
<1>3. I # {}
  OBVIOUS
<1> HIDE DEF I
<1>4. PICK i \in I : \A j \in I : ~(<<j, i>> \in R)
  BY <1>1, <1>2, <1>3, WFMin
<1>5. PICK x \in S : i = 0 .. x
  BY <1>4 DEF I
<1>6. \A y \in S : x =< y
  <2> SUFFICES ASSUME NEW y \in S, ~(x =< y) PROVE FALSE
    OBVIOUS
  <2>1. 0 .. y \in I
    BY DEF I
  <2>2. x \in Nat /\ y \in Nat /\ y < x
    OBVIOUS
  <2>3. 0 .. y \subseteq 0 .. x /\ x \in 0 .. x /\ x \notin 0 .. y
    BY <2>2
  <2>4. 0 .. y \subseteq 0 .. x /\ 0 .. y # 0 .. x
    BY <2>3
  <2>5. 0 .. y \in SUBSET Nat /\ 0 .. x \in SUBSET Nat
    OBVIOUS
  <2>6. <<0 .. y, 0 .. x>> \in R
    BY <2>4, <2>5 DEF StrictSubsetOrdering
  <2> QED
    BY <1>4, <1>5, <2>1, <2>6
<1> QED
  BY <1>6

(* Induction over the naturals.                                            *)
LEMMA Induction ==
    ASSUME NEW S \in SUBSET Nat, 0 \in S, \A n \in Nat : n \in S => n + 1 \in S
    PROVE  S = Nat
<1> SUFFICES ASSUME Nat \ S # {} PROVE FALSE
  OBVIOUS
<1>1. PICK x \in Nat \ S : \A y \in Nat \ S : x =< y
  BY LeastNatural
<1>2. x # 0 /\ x - 1 \in Nat /\ x - 1 < x
  OBVIOUS
<1>3. x - 1 \in S
  BY <1>1, <1>2
<1> QED
  BY <1>2, <1>3

(* SetToSeqs are the orders of a finite set, and SetToSeq is one of them.  *)
LEMMA Orders ==
    ASSUME NEW S, IsFiniteSet(S)
    PROVE  /\ SetToSeq(S) \in SetToSeqs(S)
           /\ \A f \in SetToSeqs(S) :
                /\ f \in Seq(S) /\ Len(f) = Cardinality(S)
                /\ \A x \in S : \E i \in 1 .. Len(f) : f[i] = x
                /\ \A i, j \in 1 .. Len(f) : f[i] = f[j] => i = j
<1> DEFINE D == 1 .. Cardinality(S)
<1>1. Cardinality(S) \in Nat /\ ExistsBijection(D, S)
  BY FS_CardinalityType
<1>2. PICK b : b \in Bijection(D, S)
  BY <1>1 DEF ExistsBijection
<1>3. b \in [D -> S] /\ IsInjective(b)
  BY <1>2 DEF Bijection, Injection
<1>4. SetToSeq(S) \in [D -> S] /\ IsInjective(SetToSeq(S))
  BY <1>3 DEF SetToSeq
<1>5. SetToSeq(S) \in SetToSeqs(S)
  BY <1>4 DEF SetToSeqs, IsInjective
<1>6. ASSUME NEW f \in SetToSeqs(S)
      PROVE  /\ f \in Seq(S) /\ Len(f) = Cardinality(S)
             /\ \A x \in S : \E i \in 1 .. Len(f) : f[i] = x
             /\ \A i, j \in 1 .. Len(f) : f[i] = f[j] => i = j
  <2>1. f \in [D -> S] /\ \A i, j \in D : f[i] = f[j] => i = j
    BY <1>6 DEF SetToSeqs
  <2>2. f \in Injection(D, S)
    BY <2>1 DEF Injection, IsInjective
  <2>3. 1 \in Int /\ Cardinality(S) \in Int
    BY <1>1
  <2>4. Cardinality(D) = Cardinality(S)
    BY <1>1, <2>3, FS_Interval
  <2>5. f \in Surjection(D, S)
    BY <2>2, <2>4, FS_Injection
  <2>6. f \in Seq(S) /\ Len(f) = Cardinality(S)
    BY <1>1, <2>1
  <2> QED
    BY <2>1, <2>5, <2>6 DEF Surjection
<1> QED
  BY <1>5, <1>6

(* One of the orders.                                                      *)
LEMMA OrderOf ==
    ASSUME NEW S, IsFiniteSet(S), NEW f \in SetToSeqs(S)
    PROVE  /\ f \in Seq(S) /\ Len(f) = Cardinality(S)
           /\ \A x \in S : \E i \in 1 .. Len(f) : f[i] = x
           /\ \A i, j \in 1 .. Len(f) : f[i] = f[j] => i = j
  BY Orders

(* The length of a sequence.                                               *)
LEMMA LengthIs ==
    ASSUME NEW S, NEW s \in Seq(S)
    PROVE  Len(s) \in Nat /\ DOMAIN s = 1 .. Len(s)
  OBVIOUS

(* One queue behind another.                                               *)
LEMMA TwoQueues ==
    ASSUME NEW S, NEW p \in Seq(S), NEW q \in Seq(S)
    PROVE  p \o q \in Seq(S)
  OBVIOUS

(* A sequence that is not empty.                                           *)
LEMMA NotEmpty ==
    ASSUME NEW S, NEW s \in Seq(S), s # <<>>
    PROVE  Len(s) \in Nat \ {0}
  OBVIOUS

=============================================================================
