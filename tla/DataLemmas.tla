----------------------------- MODULE DataLemmas -----------------------------
(***************************************************************************)
(* Lemmas about numbers, finite sets and sequences that the proofs of      *)
(* several components need.                                                *)
(*                                                                         *)
(* A recursive function is reasoned about by induction over the initial    *)
(* segments of the naturals (Segment), which follows from their            *)
(* well-foundedness.                                                       *)
(***************************************************************************)
EXTENDS Integers, Sequences, FiniteSets, FiniteSetTheorems, SequenceTheorems, WellFoundedInduction, TLAPS

\* A set of natural numbers has a least one.
LEMMA Least ==
  ASSUME NEW T, T \subseteq Nat, T # {}
  PROVE  \E m \in T : \A n \in T : m <= n
<1> DEFINE R == OpToRel(<, Nat)
<1>1. \A x, y \in Nat : x < y => <<x, y>> \in R
  BY DEF OpToRel
<1>2. \E m \in T : \A n \in T : ~(<<n, m>> \in R)
  <2> HIDE DEF R
  <2>1. IsWellFoundedOn(R, Nat)
    BY NatLessThanWellFounded DEF R
  <2> QED BY <2>1, WFMin
<1> HIDE DEF R
<1>3. PICK m \in T : \A n \in T : ~(<<n, m>> \in R)
  BY <1>2
<1>4. ASSUME NEW n \in T PROVE m <= n
  <2>1. m \in Nat /\ n \in Nat
    OBVIOUS
  <2>2. ~(n < m)
    BY <1>1, <1>3, <2>1
  <2> QED BY <2>1, <2>2
<1> QED
  BY <1>4

\* What holds of 0 and of every number with the one before holds up to n.
LEMMA Segment ==
  ASSUME NEW n \in Nat, NEW S, 0 \in S, \A i \in 1 .. n : i - 1 \in S => i \in S
  PROVE  0 .. n \subseteq S
<1> SUFFICES ASSUME ~(0 .. n \subseteq S) PROVE FALSE
  OBVIOUS
<1> DEFINE T == {i \in 0 .. n : i \notin S}
<1>0. T \subseteq Nat /\ T # {}
  OBVIOUS
<1> HIDE DEF T
<1>1. PICK m \in T : \A k \in T : m <= k
  BY <1>0, Least
<1> USE DEF T
<1>2. m \in 1 .. n /\ m - 1 \notin T
  BY <1>1
<1> QED
  BY <1>1, <1>2

-----------------------------------------------------------------------------
(* The largest of a finite set of numbers *)

LEMMA Largest ==
  ASSUME NEW T, T \subseteq Nat, T # {}, IsFiniteSet(T)
  PROVE  \E m \in T : \A n \in T : m >= n
<1>1. PICK n \in Nat : ExistsBijection(1 .. n, T)
  BY FS_NatBijection
<1>2. PICK f \in Bijection(1 .. n, T) : TRUE
  BY <1>1 DEF ExistsBijection
<1>3. /\ f \in [1 .. n -> T]
      /\ \A t \in T : \E k \in 1 .. n : f[k] = t
  BY <1>2 DEF Bijection, Injection, Surjection
<1>4. n > 0
  <2>1. PICK t \in T : TRUE
    OBVIOUS
  <2>2. PICK k \in 1 .. n : f[k] = t
    BY <1>3
  <2> QED BY <1>1, <2>2
<1> DEFINE G == {m \in 0 .. n : m = 0 \/ \E k \in 1 .. m : \A j \in 1 .. m : f[k] >= f[j]}
<1>5. 0 \in G
  BY <1>1
<1>6. ASSUME NEW i \in 1 .. n, i - 1 \in G PROVE i \in G
  <2>1. i \in 0 .. n /\ i # 0 /\ \A j \in 1 .. i : j = i \/ j \in 1 .. i - 1
    BY <1>1
  <2>2. \A j \in 1 .. n : f[j] \in Nat
    BY <1>3
  <2>3. CASE i = 1
    <3>1. \A j \in 1 .. i : f[1] >= f[j]
      BY <2>2, <2>3, <1>4
    <3> QED BY <2>1, <2>3, <3>1
  <2>4. CASE i # 1
    <3>1. PICK k \in 1 .. i - 1 : \A j \in 1 .. i - 1 : f[k] >= f[j]
      BY <1>6, <2>4
    <3>2. k \in 1 .. n /\ k \in 1 .. i /\ i \in 1 .. i /\ \A j \in 1 .. i - 1 : j \in 1 .. n
      BY <1>1
    <3>3. CASE f[k] >= f[i]
      <4>1. \A j \in 1 .. i : f[k] >= f[j]
        BY <2>1, <3>1, <3>3
      <4> QED BY <2>1, <3>2, <4>1
    <3>4. CASE ~(f[k] >= f[i])
      <4>1. \A j \in 1 .. i : f[i] >= f[j]
        BY <2>1, <2>2, <3>1, <3>2, <3>4
      <4> QED BY <2>1, <3>2, <4>1
    <3> QED BY <3>3, <3>4
  <2> QED BY <2>3, <2>4
<1> HIDE DEF G
<1>7. 0 .. n \subseteq G
  BY <1>1, <1>5, <1>6, Segment
<1>8. n \in G
  BY <1>1, <1>7
<1> USE DEF G
<1>9. PICK k \in 1 .. n : \A j \in 1 .. n : f[k] >= f[j]
  BY <1>4, <1>8
<1> QED
  BY <1>3, <1>9

-----------------------------------------------------------------------------
(* Recursive functions and sequences *)

\* The function that a first value and a step define exists on every segment.
LEMMA Iterated ==
  ASSUME NEW V, NEW first \in V, NEW n \in Nat, NEW next \in [1 .. n -> [V -> V]]
  PROVE  \E f \in [0 .. n -> V] : f[0] = first /\ \A k \in 1 .. n : f[k] = next[k][f[k - 1]]
<1> DEFINE Upto(m, f) ==
             f \in [0 .. m -> V] /\ f[0] = first /\ \A k \in 1 .. m : f[k] = next[k][f[k - 1]]
           E == {m \in 0 .. n : \E f : Upto(m, f)}
<1>1. 0 \in E
  <2>1. Upto(0, [k \in 0 .. 0 |-> first])
    OBVIOUS
  <2> HIDE DEF Upto
  <2> QED BY <2>1
<1>2. ASSUME NEW i \in 1 .. n, i - 1 \in E PROVE i \in E
  <2>1. PICK f : Upto(i - 1, f)
    BY <1>2
  <2>2. f[i - 1] \in V
    BY <2>1
  <2>3. next[i][f[i - 1]] \in V
    BY <2>2
  <2>4. PICK g : g = [k \in 0 .. i |-> IF k = i THEN next[i][f[i - 1]] ELSE f[k]]
    OBVIOUS
  <2>5. g \in [0 .. i -> V] /\ g[0] = first
    BY <2>1, <2>3, <2>4
  <2>6. ASSUME NEW k \in 1 .. i PROVE g[k] = next[k][g[k - 1]]
    <3>1. g[k - 1] = f[k - 1]
      BY <2>4
    <3>2. CASE k = i
      BY <2>4, <3>1, <3>2
    <3>3. CASE k # i
      BY <2>1, <2>4, <3>1, <3>3
    <3> QED BY <3>2, <3>3
  <2> QED BY <2>5, <2>6
<1> HIDE DEF E
<1>3. 0 .. n \subseteq E
  BY <1>1, <1>2, Segment
<1>4. n \in E
  BY <1>3
<1> USE DEF E
<1> QED
  BY <1>4

\* What holds of the empty sequence, and of every other with the one without its
\* last element, holds of all.
LEMMA SequencesIn ==
  ASSUME NEW A, NEW G, <<>> \in G, \A s \in Seq(A), x \in A : s \in G => Append(s, x) \in G
  PROVE  Seq(A) \subseteq G
<1> SUFFICES ASSUME NEW s \in Seq(A) PROVE s \in G
  OBVIOUS
<1>0. Len(s) \in Nat /\ <<>> \in Seq(A)
  OBVIOUS
<1>1. PICK prefix : prefix = [k \in 0 .. Len(s) |-> SubSeq(s, 1, k)]
  OBVIOUS
<1>2. prefix[0] = <<>>
  BY <1>0, <1>1, SubSeqEmpty
<1>3. ASSUME NEW i \in 1 .. Len(s) PROVE prefix[i] = prefix[i - 1] \o <<s[i]>>
  <2>1. 1 \in 1 .. Len(s) /\ i \in 1 .. Len(s) /\ i - 1 \in 0 .. Len(s) /\ i \in 0 .. Len(s)
    BY <1>0
  <2> QED BY <1>1, <2>1, SubSeqRecursiveSecond
<1>4. prefix[Len(s)] = s
  BY <1>0, <1>1, SubSeqFull
<1> DEFINE T == {k \in 0 .. Len(s) : prefix[k] \in Seq(A) /\ prefix[k] \in G}
<1>5. 0 \in T
  <2>1. 0 \in 0 .. Len(s)
    BY <1>0
  <2>2. prefix[0] \in Seq(A) /\ prefix[0] \in G
    BY <1>0, <1>2, Zenon
  <2> QED BY <2>1, <2>2, Zenon
<1>6. ASSUME NEW i \in 1 .. Len(s), i - 1 \in T PROVE i \in T
  <2>1. prefix[i - 1] \in Seq(A) /\ prefix[i - 1] \in G /\ s[i] \in A
    BY <1>6
  <2>2. prefix[i] = Append(prefix[i - 1], s[i]) /\ Append(prefix[i - 1], s[i]) \in Seq(A)
    <3>1. \A p \in Seq(A), x \in A : p \o <<x>> = Append(p, x) /\ Append(p, x) \in Seq(A)
      BY AppendIsConcat, AppendProperties
    <3> QED BY <1>3, <2>1, <3>1
  <2>3. prefix[i] \in G
    BY <2>1, <2>2, Zenon
  <2>4. i \in 0 .. Len(s)
    BY <1>0
  <2> QED BY <2>2, <2>3, <2>4, Zenon
<1> HIDE DEF T
<1>7. 0 .. Len(s) \subseteq T
  BY <1>0, <1>5, <1>6, Segment
<1> QED
  BY <1>0, <1>4, <1>7 DEF T
=============================================================================
