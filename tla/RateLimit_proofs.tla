--------------------------- MODULE RateLimit_proofs ---------------------------
(***************************************************************************)
(* Theorems about RateLimit, for all deployments, windows, cooldowns and   *)
(* any number of requests under way.  At the end, what follows for         *)
(* MCLimits, which puts the limiter beside the ledger.                     *)
(***************************************************************************)
EXTENDS MCLimits, UsageLedger_proofs, DataLemmas, SequenceTheorems

-----------------------------------------------------------------------------
(* The subsequence of the elements that are in a set *)

\* What the recursive definition of Kept says of its k-th value.
KeptStep(kept, q, S, k) ==
  IF k = 0 THEN <<>>
  ELSE IF q[k] \in S THEN Append(kept[k - 1], q[k]) ELSE kept[k - 1]

\* A function with these values exists on every initial segment.
LEMMA KeptExists ==
  ASSUME NEW q, NEW n \in Nat, NEW S
  PROVE  \E kept : kept = [k \in 0 .. n |-> KeptStep(kept, q, S, k)]
<1> DEFINE E == {m \in Nat : \E F : F = [k \in 0 .. m |-> KeptStep(F, q, S, k)]}
<1>1. 0 \in E
  <2>1. PICK F : F = [k \in 0 .. 0 |-> <<>>]
    OBVIOUS
  <2>2. F = [k \in 0 .. 0 |-> KeptStep(F, q, S, k)]
    BY <2>1 DEF KeptStep
  <2> QED BY <2>2
<1>2. ASSUME NEW i \in 1 .. n, i - 1 \in E PROVE i \in E
  <2>1. PICK F : F = [k \in 0 .. i - 1 |-> KeptStep(F, q, S, k)]
    BY <1>2
  <2>2. PICK G : G = [k \in 0 .. i |-> IF k = i THEN KeptStep(F, q, S, i) ELSE F[k]]
    OBVIOUS
  <2>3. ASSUME NEW k \in 0 .. i PROVE G[k] = KeptStep(G, q, S, k)
    <3>1. CASE k = 0
      BY <2>1, <2>2, <3>1 DEF KeptStep
    <3>2. CASE k # 0
      <4>1. G[k - 1] = F[k - 1]
        BY <2>2, <3>2
      <4>2. KeptStep(G, q, S, k) = KeptStep(F, q, S, k)
        BY <4>1 DEF KeptStep
      <4>3. CASE k = i
        BY <2>2, <4>2, <4>3
      <4>4. CASE k # i
        <5>1. G[k] = F[k] /\ F[k] = KeptStep(F, q, S, k)
          BY <2>1, <2>2, <4>4
        <5> QED BY <4>2, <5>1
      <4> QED BY <4>3, <4>4
    <3> QED BY <3>1, <3>2
  <2>4. G = [k \in 0 .. i |-> KeptStep(G, q, S, k)]
    BY <2>2, <2>3
  <2> QED BY <2>4
<1> HIDE DEF E
<1>3. 0 .. n \subseteq E
  BY <1>1, <1>2, Segment
<1> USE DEF E
<1> QED
  BY <1>3

LEMMA KeptDef ==
  ASSUME NEW q, Len(q) \in Nat, NEW S
  PROVE  \E kept : /\ \A k \in 0 .. Len(q) : kept[k] = KeptStep(kept, q, S, k)
                   /\ Kept(q, S) = kept[Len(q)]
<1>1. \E kept : kept = [k \in 0 .. Len(q) |-> KeptStep(kept, q, S, k)]
  BY KeptExists
<1>2. \E kept : /\ kept = [k \in 0 .. Len(q) |-> KeptStep(kept, q, S, k)]
                /\ Kept(q, S) = kept[Len(q)]
  BY <1>1 DEF Kept, KeptStep
<1>3. PICK kept : /\ kept = [k \in 0 .. Len(q) |-> KeptStep(kept, q, S, k)]
                  /\ Kept(q, S) = kept[Len(q)]
  BY <1>2
<1>4. \A k \in 0 .. Len(q) : kept[k] = KeptStep(kept, q, S, k)
  BY <1>3
<1> QED
  BY <1>3, <1>4

\* No element occurs twice.
Distinct(q) == \A j, k \in 1 .. Len(q) : q[j] = q[k] => j = k

\* Kept keeps the elements that are in S, each as often as it was, and no others.
LEMMA KeptElements ==
  ASSUME NEW A, NEW q \in Seq(A), NEW S
  PROVE  /\ Kept(q, S) \in Seq(A)
         /\ Members(Kept(q, S)) = Members(q) \cap S
         /\ Distinct(q) => Distinct(Kept(q, S))
<1>0. Len(q) \in Nat /\ \A k \in 1 .. Len(q) : q[k] \in A
  OBVIOUS
<1>1. PICK kept : /\ \A k \in 0 .. Len(q) : kept[k] = KeptStep(kept, q, S, k)
                  /\ Kept(q, S) = kept[Len(q)]
  BY <1>0, KeptDef
<1> DEFINE Good(k) == /\ kept[k] \in Seq(A)
                      /\ \A x : (\E j \in 1 .. Len(kept[k]) : kept[k][j] = x) <=>
                                (x \in S /\ \E j \in 1 .. k : q[j] = x)
                      /\ Distinct(q) => Distinct(kept[k])
           G == {k \in 0 .. Len(q) : Good(k)}
<1>2. 0 \in G
  <2>1. kept[0] = <<>>
    BY <1>0, <1>1 DEF KeptStep
  <2>2. kept[0] \in Seq(A) /\ Len(kept[0]) = 0
    BY <2>1
  <2> QED BY <1>0, <2>2 DEF Distinct
<1>3. ASSUME NEW k \in 1 .. Len(q), k - 1 \in G PROVE k \in G
  <2> DEFINE p == kept[k - 1]
  <2>0. k \in 0 .. Len(q) /\ k - 1 \in 0 .. Len(q) /\ k # 0
    BY <1>0
  <2>1. /\ p \in Seq(A) /\ Len(p) \in Nat
        /\ \A x : (\E j \in 1 .. Len(p) : p[j] = x) <=> (x \in S /\ \E j \in 1 .. k - 1 : q[j] = x)
        /\ Distinct(q) => Distinct(p)
    <3>1. Good(k - 1)
      BY <1>3
    <3>2. p \in Seq(A)
      BY <3>1
    <3>3. Len(p) \in Nat
      <4> HIDE DEF p
      <4> QED BY <3>2
    <3> QED BY <3>1, <3>3
  <2>2. CASE q[k] \notin S
    <3>1. kept[k] = p
      BY <1>1, <2>0, <2>2 DEF KeptStep
    <3>2. \A x : x \in S => ((\E j \in 1 .. k - 1 : q[j] = x) <=> (\E j \in 1 .. k : q[j] = x))
      BY <1>0, <2>0, <2>2
    <3> HIDE DEF p
    <3> QED BY <2>0, <2>1, <3>1, <3>2
  <2>3. CASE q[k] \in S
    <3> HIDE DEF p
    <3>1. kept[k] = Append(p, q[k])
      BY <1>1, <2>0, <2>3 DEF KeptStep, p
    <3>2. /\ kept[k] \in Seq(A) /\ Len(kept[k]) = Len(p) + 1
          /\ kept[k][Len(p) + 1] = q[k]
          /\ \A j \in 1 .. Len(p) : kept[k][j] = p[j]
      BY <1>0, <2>1, <3>1, AppendProperties
    <3>3. \A x : (\E j \in 1 .. Len(kept[k]) : kept[k][j] = x) <=>
                 (x = q[k] \/ \E j \in 1 .. Len(p) : p[j] = x)
      <4> TAKE x
      <4>1. /\ Len(p) + 1 \in 1 .. Len(kept[k])
            /\ \A j \in 1 .. Len(p) : j \in 1 .. Len(kept[k])
            /\ \A j \in 1 .. Len(kept[k]) : j = Len(p) + 1 \/ j \in 1 .. Len(p)
        BY <2>1, <3>2
      <4>2. ASSUME NEW j \in 1 .. Len(kept[k]), kept[k][j] = x
            PROVE  x = q[k] \/ \E l \in 1 .. Len(p) : p[l] = x
        BY <3>2, <4>1, <4>2, Zenon
      <4>3. x = q[k] => \E j \in 1 .. Len(kept[k]) : kept[k][j] = x
        BY <3>2, <4>1, Zenon
      <4>4. ASSUME NEW l \in 1 .. Len(p), p[l] = x
            PROVE  \E j \in 1 .. Len(kept[k]) : kept[k][j] = x
        BY <3>2, <4>1, <4>4, Zenon
      <4> QED BY <4>2, <4>3, <4>4
    <3>4. \A x : (\E j \in 1 .. k : q[j] = x) <=> (x = q[k] \/ \E j \in 1 .. k - 1 : q[j] = x)
      BY <1>0, <2>0
    <3>5. \A x : (\E j \in 1 .. Len(kept[k]) : kept[k][j] = x) <=>
                 (x \in S /\ \E j \in 1 .. k : q[j] = x)
      BY <2>1, <2>3, <3>3, <3>4
    <3>6. ASSUME Distinct(q) PROVE Distinct(kept[k])
      <4>1. \A j \in 1 .. Len(p) : p[j] # q[k]
        <5> SUFFICES ASSUME NEW j \in 1 .. Len(p), p[j] = q[k] PROVE FALSE
          OBVIOUS
        <5>1. PICK l \in 1 .. k - 1 : q[l] = q[k]
          BY <2>1
        <5> QED BY <1>0, <3>6, <5>1 DEF Distinct
      <4> QED BY <2>1, <3>2, <3>6, <4>1 DEF Distinct
    <3> QED BY <2>0, <3>2, <3>5, <3>6
  <2> QED BY <2>2, <2>3
<1>4. 0 .. Len(q) \subseteq G
  <2> HIDE DEF G
  <2> QED BY <1>0, <1>2, <1>3, Segment
<1>5. Good(Len(q))
  <2>1. Len(q) \in 0 .. Len(q)
    BY <1>0
  <2>2. Len(q) \in G
    <3> HIDE DEF G
    <3> QED BY <1>4, <2>1
  <2> HIDE DEF Good
  <2> QED BY <2>2, Zenon
<1> QED
  BY <1>1, <1>5 DEF Members

-----------------------------------------------------------------------------
(* Sequences without repetition *)

\* They have as many elements as positions.
LEMMA DistinctCount ==
  ASSUME NEW A, NEW q \in Seq(A), Distinct(q)
  PROVE  IsFiniteSet(Members(q)) /\ Cardinality(Members(q)) = Len(q)
<1>0. Len(q) \in Nat /\ q = [k \in 1 .. Len(q) |-> q[k]]
  OBVIOUS
<1>1. q \in Bijection(1 .. Len(q), Members(q))
  BY <1>0 DEF Bijection, Injection, Surjection, IsInjective, Members, Distinct
<1>2. ExistsBijection(1 .. Len(q), Members(q))
  BY <1>1 DEF ExistsBijection
<1>3. IsFiniteSet(Members(q))
  BY <1>0, <1>2, FS_NatBijection
<1>4. Cardinality(Members(q)) = Len(q)
  BY <1>0, <1>2, FS_CountingElements
<1> QED
  BY <1>3, <1>4

\* One whose elements are among those of the other is no longer.
LEMMA DistinctNoLonger ==
  ASSUME NEW A, NEW p \in Seq(A), NEW q \in Seq(A), Distinct(p), Distinct(q),
         Members(p) \subseteq Members(q)
  PROVE  Len(p) <= Len(q)
<1>1. /\ IsFiniteSet(Members(q)) /\ Cardinality(Members(q)) = Len(q)
      /\ Cardinality(Members(p)) = Len(p)
  BY DistinctCount
<1> QED
  BY <1>1, FS_Subset

-----------------------------------------------------------------------------
(* Pruning *)

\* Times in the order in which they were recorded.
Sorted(q) == \A j, k \in 1 .. Len(q) : j <= k => q[j] <= q[k]

\* Where the part of q that is after the cutoff begins.
CutAt(q, cutoff, m) ==
  /\ m \in 1 .. Len(q) + 1
  /\ \A k \in 1 .. Len(q) : q[k] > cutoff <=> k >= m

LEMMA CutExists ==
  ASSUME NEW q \in Seq(Nat), Sorted(q), NEW cutoff \in Int
  PROVE  \E m \in Nat : CutAt(q, cutoff, m)
<1> DEFINE T == {k \in 1 .. Len(q) + 1 : k = Len(q) + 1 \/ q[k] > cutoff}
<1>0. Len(q) \in Nat /\ \A k \in 1 .. Len(q) : q[k] \in Nat
  OBVIOUS
<1>1. T \subseteq Nat /\ Len(q) + 1 \in T
  BY <1>0
<1>2. PICK m \in T : \A k \in T : m <= k
  <2> HIDE DEF T
  <2> QED BY <1>1, Least
<1>3. m \in 1 .. Len(q) + 1
  BY <1>0
<1>4. ASSUME NEW k \in 1 .. Len(q), k >= m PROVE q[k] > cutoff
  <2>1. m \in 1 .. Len(q) /\ q[m] > cutoff
    BY <1>0, <1>3, <1>4
  <2>2. q[m] <= q[k]
    BY <1>4, <2>1 DEF Sorted
  <2> QED BY <1>0, <2>1, <2>2
<1>5. ASSUME NEW k \in 1 .. Len(q), q[k] > cutoff PROVE k >= m
  <2>1. k \in T
    BY <1>0, <1>5
  <2> QED BY <1>2, <2>1
<1> QED
  BY <1>0, <1>3, <1>4, <1>5 DEF CutAt

\* Pruning is what is left from there.
LEMMA PruneAt ==
  ASSUME NEW q \in Seq(Nat), NEW cutoff \in Int, NEW m \in Nat, CutAt(q, cutoff, m)
  PROVE  /\ Prune(q, cutoff) \in Seq(Nat)
         /\ Len(Prune(q, cutoff)) = Len(q) + 1 - m
         /\ \A j \in 1 .. Len(q) + 1 - m : Prune(q, cutoff)[j] = q[j + m - 1]
<1> DEFINE live == {k \in 1 .. Len(q) : q[k] > cutoff}
           first == CHOOSE k \in live : \A l \in live : k <= l
<1>0. Len(q) \in Nat /\ m \in 1 .. Len(q) + 1 /\ live = m .. Len(q)
  BY DEF CutAt
<1>1. CASE m = Len(q) + 1
  <2>1. Prune(q, cutoff) = <<>>
    BY <1>0, <1>1 DEF Prune
  <2> QED BY <1>0, <1>1, <2>1
<1>2. CASE m # Len(q) + 1
  <2>1. m \in live /\ \A l \in live : m <= l
    <3> HIDE DEF live
    <3> QED BY <1>0, <1>2
  <2>2. first = m
    BY <1>0, <2>1
  <2>3. Prune(q, cutoff) = SubSeq(q, m, Len(q))
    BY <2>1, <2>2 DEF Prune
  <2> QED BY <1>0, <1>2, <2>3
<1> QED
  BY <1>1, <1>2

\* What is after the cutoff is left, in order.
LEMMA PruneFacts ==
  ASSUME NEW q \in Seq(Nat), Sorted(q), NEW cutoff \in Int
  PROVE  /\ Prune(q, cutoff) \in Seq(Nat) /\ Sorted(Prune(q, cutoff))
         /\ Len(Prune(q, cutoff)) <= Len(q)
         /\ \A j \in 1 .. Len(Prune(q, cutoff)) :
              /\ Prune(q, cutoff)[j] > cutoff
              /\ \E k \in 1 .. Len(q) : Prune(q, cutoff)[j] = q[k]
<1>1. PICK m \in Nat : CutAt(q, cutoff, m)
  BY CutExists
<1> DEFINE p == Prune(q, cutoff)
<1>2. /\ p \in Seq(Nat) /\ Len(p) = Len(q) + 1 - m
      /\ \A j \in 1 .. Len(q) + 1 - m : p[j] = q[j + m - 1]
  BY <1>1, PruneAt
<1>3. Len(q) \in Nat /\ m \in 1 .. Len(q) + 1
  BY <1>1 DEF CutAt
<1> HIDE DEF p
<1>4. \A j \in 1 .. Len(p) : j + m - 1 \in 1 .. Len(q) /\ j + m - 1 >= m /\ p[j] = q[j + m - 1]
  BY <1>2, <1>3
<1>5. Sorted(p)
  <2> SUFFICES ASSUME NEW j \in 1 .. Len(p), NEW k \in 1 .. Len(p), j <= k PROVE p[j] <= p[k]
    BY DEF Sorted
  <2>1. j + m - 1 <= k + m - 1
    BY <1>2, <1>3
  <2> QED BY <1>4, <2>1 DEF Sorted
<1>6. \A j \in 1 .. Len(p) : p[j] > cutoff
  BY <1>1, <1>4 DEF CutAt
<1> QED
  BY <1>2, <1>3, <1>4, <1>5, <1>6 DEF p

\* Nothing is pruned that is after the cutoff ...
LEMMA PruneNone ==
  ASSUME NEW q \in Seq(Nat), NEW cutoff \in Int, \A k \in 1 .. Len(q) : q[k] > cutoff
  PROVE  Prune(q, cutoff) = q
<1>1. CutAt(q, cutoff, 1)
  BY DEF CutAt
<1>2. /\ Prune(q, cutoff) \in Seq(Nat) /\ Len(Prune(q, cutoff)) = Len(q)
      /\ \A j \in 1 .. Len(q) : Prune(q, cutoff)[j] = q[j]
  BY <1>1, PruneAt
<1> QED
  BY <1>2, SeqEqual

\* ... and everything is when the newest is not.
LEMMA PruneAll ==
  ASSUME NEW q \in Seq(Nat), Sorted(q), NEW cutoff \in Int,
         q = <<>> \/ q[Len(q)] <= cutoff
  PROVE  Prune(q, cutoff) = <<>>
<1>1. \A k \in 1 .. Len(q) : ~(q[k] > cutoff)
  BY DEF Sorted
<1>2. {k \in 1 .. Len(q) : q[k] > cutoff} = {}
  BY <1>1
<1> QED
  BY <1>2 DEF Prune

\* Pruning twice is pruning at the later cutoff.
LEMMA PruneTwice ==
  ASSUME NEW q \in Seq(Nat), Sorted(q), NEW c \in Int, NEW d \in Int, c <= d
  PROVE  Prune(Prune(q, c), d) = Prune(q, d)
<1> DEFINE p == Prune(q, c)
<1>1. PICK m \in Nat : CutAt(q, c, m)
  BY CutExists
<1>2. PICK n \in Nat : CutAt(q, d, n)
  BY CutExists
<1>3. /\ p \in Seq(Nat) /\ Len(p) = Len(q) + 1 - m
      /\ \A j \in 1 .. Len(q) + 1 - m : p[j] = q[j + m - 1]
  BY <1>1, PruneAt
<1>4. /\ Prune(q, d) \in Seq(Nat) /\ Len(Prune(q, d)) = Len(q) + 1 - n
      /\ \A j \in 1 .. Len(q) + 1 - n : Prune(q, d)[j] = q[j + n - 1]
  BY <1>2, PruneAt
<1>5. /\ Len(q) \in Nat /\ m \in 1 .. Len(q) + 1 /\ n \in 1 .. Len(q) + 1
      /\ \A k \in 1 .. Len(q) : q[k] \in Nat
  BY <1>1, <1>2 DEF CutAt
<1>6. m <= n
  <2> SUFFICES ASSUME n < m PROVE FALSE
    BY <1>5
  <2>1. n \in 1 .. Len(q) /\ q[n] > d /\ ~(q[n] > c)
    BY <1>1, <1>2, <1>5 DEF CutAt
  <2> QED BY <1>5, <2>1
<1> HIDE DEF p
<1>7. CutAt(p, d, n - m + 1)
  <2>1. \A j \in 1 .. Len(p) : j + m - 1 \in 1 .. Len(q) /\ p[j] = q[j + m - 1]
    BY <1>3, <1>5
  <2>2. \A j \in 1 .. Len(p) : p[j] > d <=> j + m - 1 >= n
    BY <1>2, <2>1 DEF CutAt
  <2> QED BY <1>3, <1>5, <1>6, <2>2 DEF CutAt
<1>8. n - m + 1 \in Nat
  BY <1>5, <1>6
<1>9. /\ Prune(p, d) \in Seq(Nat) /\ Len(Prune(p, d)) = Len(p) + 1 - (n - m + 1)
      /\ \A j \in 1 .. Len(p) + 1 - (n - m + 1) : Prune(p, d)[j] = p[j + (n - m + 1) - 1]
  BY <1>3, <1>7, <1>8, PruneAt
<1>10. Len(Prune(p, d)) = Len(Prune(q, d))
  BY <1>3, <1>4, <1>5, <1>9
<1>11. ASSUME NEW j \in 1 .. Len(Prune(q, d)) PROVE Prune(p, d)[j] = Prune(q, d)[j]
  <2>1. j \in 1 .. Len(q) + 1 - n /\ j \in 1 .. Len(p) + 1 - (n - m + 1)
    BY <1>3, <1>4, <1>5
  <2>2. j + (n - m + 1) - 1 \in 1 .. Len(q) + 1 - m
    BY <1>5, <1>6, <2>1
  <2>3. Prune(p, d)[j] = q[j + (n - m + 1) - 1 + m - 1]
    BY <1>3, <1>9, <2>1, <2>2
  <2>4. j + (n - m + 1) - 1 + m - 1 = j + n - 1
    BY <1>5, <2>1
  <2> QED BY <1>4, <2>1, <2>3, <2>4
<1> QED
  BY <1>4, <1>9, <1>10, <1>11, SeqEqual DEF p

\* Of a sorted log, those after the cutoff are what pruning leaves.
LEMMA KeptIsPruned ==
  ASSUME NEW q \in Seq(Nat), Sorted(q), NEW cutoff \in Int, NEW last \in Int,
         \A k \in 1 .. Len(q) : q[k] <= last
  PROVE  Kept(q, cutoff + 1 .. last) = Prune(q, cutoff)
<1> DEFINE S == cutoff + 1 .. last
<1>0. Len(q) \in Nat /\ \A k \in 1 .. Len(q) : q[k] \in Nat
  OBVIOUS
<1>1. PICK kept : /\ \A k \in 0 .. Len(q) : kept[k] = KeptStep(kept, q, S, k)
                  /\ Kept(q, S) = kept[Len(q)]
  BY <1>0, KeptDef
<1>2. PICK m \in Nat : CutAt(q, cutoff, m)
  BY CutExists
<1>3. /\ m \in 1 .. Len(q) + 1
      /\ \A k \in 1 .. Len(q) : q[k] \in S <=> k >= m
  BY <1>0, <1>2 DEF CutAt
<1> HIDE DEF S
<1> DEFINE Good(k) == /\ kept[k] \in Seq(Nat)
                      /\ Len(kept[k]) = IF k < m THEN 0 ELSE k + 1 - m
                      /\ \A j \in 1 .. k + 1 - m : kept[k][j] = q[j + m - 1]
           G == {k \in 0 .. Len(q) : Good(k)}
<1>4. 0 \in G
  <2>1. kept[0] = <<>>
    BY <1>0, <1>1 DEF KeptStep
  <2>2. kept[0] \in Seq(Nat) /\ Len(kept[0]) = 0
    BY <2>1
  <2> QED BY <1>0, <1>3, <2>2
<1>5. ASSUME NEW k \in 1 .. Len(q), k - 1 \in G PROVE k \in G
  <2> DEFINE p == kept[k - 1]
  <2>1. /\ p \in Seq(Nat) /\ Len(p) = IF k - 1 < m THEN 0 ELSE k - m
        /\ \A j \in 1 .. k - m : p[j] = q[j + m - 1]
    <3>1. Good(k - 1) /\ k - 1 + 1 - m = k - m
      BY <1>3, <1>5
    <3> HIDE DEF p
    <3> QED BY <3>1 DEF p
  <2>a. k \in 0 .. Len(q) /\ k # 0 /\ k \in Nat
    BY <1>0
  <2>2. CASE k < m
    <3>1. kept[k] = p
      <4>1. q[k] \notin S
        BY <1>3, <2>a, <2>2
      <4>2. kept[k] = KeptStep(kept, q, S, k)
        BY <1>1, <2>a
      <4> QED BY <2>a, <4>1, <4>2 DEF KeptStep
    <3> HIDE DEF p
    <3> QED BY <1>0, <1>3, <2>1, <2>a, <2>2, <3>1
  <2>3. CASE ~(k < m)
    <3>1. kept[k] = Append(p, q[k])
      <4>1. q[k] \in S
        BY <1>3, <2>a, <2>3
      <4>2. kept[k] = KeptStep(kept, q, S, k)
        BY <1>1, <2>a
      <4> QED BY <2>a, <4>1, <4>2 DEF KeptStep
    <3> HIDE DEF p
    <3>2. /\ kept[k] \in Seq(Nat) /\ Len(kept[k]) = k + 1 - m /\ Len(p) = k - m
          /\ kept[k][k + 1 - m] = q[k]
          /\ \A j \in 1 .. k - m : kept[k][j] = p[j]
      <4>1. Len(p) = k - m /\ q[k] \in Nat
        BY <1>0, <1>3, <2>1, <2>a, <2>3
      <4>2. /\ Append(p, q[k]) \in Seq(Nat) /\ Len(Append(p, q[k])) = Len(p) + 1
            /\ Append(p, q[k])[Len(p) + 1] = q[k]
            /\ \A j \in 1 .. Len(p) : Append(p, q[k])[j] = p[j]
        <5>1. \A r \in Seq(Nat), x \in Nat :
                /\ Append(r, x) \in Seq(Nat) /\ Len(Append(r, x)) = Len(r) + 1
                /\ Append(r, x)[Len(r) + 1] = x
                /\ \A j \in 1 .. Len(r) : Append(r, x)[j] = r[j]
          BY AppendProperties
        <5> QED BY <2>1, <4>1, <5>1, Zenon
      <4> QED BY <1>3, <2>a, <3>1, <4>1, <4>2
    <3>3. \A j \in 1 .. k + 1 - m : kept[k][j] = q[j + m - 1]
      <4> TAKE j \in 1 .. k + 1 - m
      <4>1. CASE j = k + 1 - m
        BY <1>3, <3>2, <4>1
      <4>2. CASE j # k + 1 - m
        <5>1. j \in 1 .. k - m
          BY <1>3, <2>a, <4>2
        <5> QED BY <2>1, <3>2, <5>1
      <4> QED BY <4>1, <4>2
    <3> QED BY <2>a, <2>3, <3>2, <3>3
  <2> QED BY <2>2, <2>3
<1>6. 0 .. Len(q) \subseteq G
  <2> HIDE DEF G
  <2> QED BY <1>0, <1>4, <1>5, Segment
<1>7. Good(Len(q))
  <2>1. Len(q) \in 0 .. Len(q)
    BY <1>0
  <2>2. Len(q) \in G
    <3> HIDE DEF G
    <3> QED BY <1>6, <2>1
  <2> HIDE DEF Good
  <2> QED BY <2>2, Zenon
<1>8. /\ Kept(q, S) \in Seq(Nat) /\ Len(Kept(q, S)) = Len(q) + 1 - m
      /\ \A j \in 1 .. Len(q) + 1 - m : Kept(q, S)[j] = q[j + m - 1]
  BY <1>0, <1>1, <1>3, <1>7
<1>9. /\ Prune(q, cutoff) \in Seq(Nat) /\ Len(Prune(q, cutoff)) = Len(q) + 1 - m
      /\ \A j \in 1 .. Len(q) + 1 - m : Prune(q, cutoff)[j] = q[j + m - 1]
  BY <1>2, PruneAt
<1>10. Kept(q, S) = Prune(q, cutoff)
  BY <1>8, <1>9, SeqEqual
<1> QED
  BY <1>10 DEF S

-----------------------------------------------------------------------------
(* The invariant *)

\* A log: times up to now in the order in which they came, and no more than the limit.
LogOK(q) ==
  q \in Seq(Nat) /\ Sorted(q) /\ Len(q) <= Limit /\ \A k \in 1 .. Len(q) : q[k] <= now

\* The memory of an instance: its subjects each once, at most its cap, and no log
\* of others.
OrderOK(i) ==
  /\ order[i] \in Seq(Subjects) /\ Distinct(order[i]) /\ Len(order[i]) <= MaxSubjects
  /\ \A s \in Subjects : log[i][s] # <<>> => s \in Members(order[i])

ClockOK == deployment \in Deployments /\ now \in 0 .. deployment.last

\* What a store allowed in the last window is what pruning leaves of its log.
StoreOK(st) ==
  \A s \in Subjects : LogOK(log[st][s]) /\ grants[st][s] = Prune(log[st][s], Cutoff)

StoresInv ==
  /\ log \in [Stores -> [Subjects -> Seq(Nat)]]
  /\ grants \in [Stores -> [Subjects -> Seq(Nat)]]
  /\ order \in [Instances -> Seq(Subjects)]
  /\ lastSweep \in [Instances -> Times]
  /\ \A st \in Stores : StoreOK(st)
  /\ \A i \in Instances : OrderOK(i)

CallsInv ==
  /\ retryAt \in [Instances -> {Healthy} \cup (0 .. MaxTime + Cooldown)]
  /\ call \in [Calls -> Pending]

LimiterInv == ClockOK /\ StoresInv /\ CallsInv

LEMMA DeploymentFacts ==
  ASSUME ClockOK
  PROVE  /\ now \in Nat /\ now \in Times /\ Limit \in Nat \ {0} /\ MaxSubjects \in Nat \ {0}
         /\ Window \in Nat \ {0} /\ Cutoff \in Int /\ Cutoff < now
         /\ Redis \notin Instances /\ Times \subseteq Nat
         /\ IsFiniteSet(Instances) /\ IsFiniteSet(Subjects)
         /\ MaxTime \in Nat /\ now <= MaxTime /\ Cooldown \in Nat
<1>1. /\ deployment.limit \in Nat \ {0} /\ deployment.cap \in Nat \ {0}
      /\ deployment.instances \subseteq InstanceNames /\ deployment.subjects \subseteq SubjectNames
      /\ deployment.last \in 0 .. MaxTime
  BY RateLimitAssumption DEF ClockOK
<1>2. IsFiniteSet(Instances) /\ IsFiniteSet(Subjects)
  BY <1>1, RateLimitAssumption, FS_Subset DEF Instances, Subjects
<1> QED
  BY <1>1, <1>2, RateLimitAssumption DEF ClockOK, Limit, MaxSubjects, Cutoff, Instances, Times

-----------------------------------------------------------------------------
(* One request *)

\* The log after a request, from what was left of it in its window.
LEMMA CountedFacts ==
  ASSUME ClockOK, NEW own, LogOK(own), \A k \in 1 .. Len(own) : own[k] > Cutoff
  PROVE  LogOK(Counted(own)) /\ Prune(Counted(own), Cutoff) = Counted(own)
<1>0. /\ now \in Nat /\ Limit \in Nat \ {0} /\ Cutoff \in Int /\ Cutoff < now
      /\ own \in Seq(Nat) /\ Len(own) \in Nat
  BY DeploymentFacts DEF LogOK
<1>1. CASE Len(own) < Limit
  <2> DEFINE q == Append(own, now)
  <2>1. /\ q \in Seq(Nat) /\ Len(q) = Len(own) + 1 /\ q[Len(own) + 1] = now
        /\ \A k \in 1 .. Len(own) : q[k] = own[k]
    BY <1>0
  <2>2. Counted(own) = q
    BY <1>1 DEF Counted
  <2> HIDE DEF q
  <2>3. Len(q) <= Limit
    BY <1>0, <1>1, <2>1
  <2>4. \A k \in 1 .. Len(q) : q[k] \in Nat /\ q[k] <= now /\ q[k] > Cutoff
    <3> TAKE k \in 1 .. Len(q)
    <3>1. CASE k = Len(own) + 1
      BY <1>0, <2>1, <3>1
    <3>2. CASE k # Len(own) + 1
      <4>1. k \in 1 .. Len(own) /\ q[k] = own[k]
        BY <1>0, <2>1, <3>2
      <4> QED BY <1>0, <4>1 DEF LogOK
    <3> QED BY <3>1, <3>2
  <2>5. Sorted(q)
    <3> SUFFICES ASSUME NEW j \in 1 .. Len(q), NEW k \in 1 .. Len(q), j <= k PROVE q[j] <= q[k]
      BY DEF Sorted
    <3>1. CASE k = Len(own) + 1
      BY <2>1, <2>4, <3>1
    <3>2. CASE k # Len(own) + 1
      <4>1. j \in 1 .. Len(own) /\ k \in 1 .. Len(own)
        BY <1>0, <2>1, <3>2
      <4> QED BY <2>1, <4>1 DEF LogOK, Sorted
    <3> QED BY <3>1, <3>2
  <2>6. Prune(q, Cutoff) = q
    BY <1>0, <2>1, <2>4, PruneNone
  <2> QED BY <2>1, <2>2, <2>3, <2>4, <2>5, <2>6 DEF LogOK
<1>2. CASE ~(Len(own) < Limit)
  <2>1. Counted(own) = own
    BY <1>2 DEF Counted
  <2>2. Prune(own, Cutoff) = own
    BY <1>0, PruneNone
  <2> QED BY <2>1, <2>2
<1> QED
  BY <1>1, <1>2

\* What is left of a log in its window.
LEMMA PrunedLog ==
  ASSUME ClockOK, NEW q, LogOK(q)
  PROVE  /\ LogOK(Prune(q, Cutoff))
         /\ \A k \in 1 .. Len(Prune(q, Cutoff)) : Prune(q, Cutoff)[k] > Cutoff
<1>0. Cutoff \in Int /\ Limit \in Nat
  BY DeploymentFacts
<1> DEFINE p == Prune(q, Cutoff)
<1>1. /\ p \in Seq(Nat) /\ Sorted(p) /\ Len(p) <= Len(q)
      /\ \A j \in 1 .. Len(p) : p[j] > Cutoff /\ \E k \in 1 .. Len(q) : p[j] = q[k]
  BY <1>0, PruneFacts DEF LogOK
<1> HIDE DEF p
<1>2. Len(p) \in Nat /\ Len(q) \in Nat
  BY <1>1 DEF LogOK
<1> QED
  BY <1>0, <1>1, <1>2 DEF LogOK, p

LEMMA EmptyLog ==
  ASSUME ClockOK
  PROVE  LogOK(<<>>) /\ Prune(<<>>, Cutoff) = <<>>
<1>1. LogOK(<<>>)
  BY DeploymentFacts DEF LogOK, Sorted
<1> QED
  BY <1>1, DeploymentFacts, PruneAll DEF LogOK

\* The subjects that are left of an OrderedDict, the newest among them.
LEMMA RememberedFacts ==
  ASSUME NEW A, NEW q \in Seq(A), Len(q) > 0, Distinct(q), MaxSubjects \in Nat \ {0}
  PROVE  /\ Remembered(q) \in Seq(A) /\ Distinct(Remembered(q))
         /\ Len(Remembered(q)) <= MaxSubjects
         /\ q[Len(q)] \in Members(Remembered(q))
<1>0. Len(q) \in Nat
  OBVIOUS
<1>1. CASE Len(q) > MaxSubjects
  <2> DEFINE r == SubSeq(q, Len(q) - MaxSubjects + 1, Len(q))
  <2>1. Remembered(q) = r
    BY <1>1 DEF Remembered
  <2>2. /\ r \in Seq(A) /\ Len(r) = MaxSubjects
        /\ \A j \in 1 .. MaxSubjects : r[j] = q[j + Len(q) - MaxSubjects]
    BY <1>0, <1>1
  <2> HIDE DEF r
  <2>3. Distinct(r)
    <3> SUFFICES ASSUME NEW j \in 1 .. Len(r), NEW k \in 1 .. Len(r), r[j] = r[k] PROVE j = k
      BY DEF Distinct
    <3>1. /\ j + Len(q) - MaxSubjects \in 1 .. Len(q) /\ k + Len(q) - MaxSubjects \in 1 .. Len(q)
          /\ q[j + Len(q) - MaxSubjects] = q[k + Len(q) - MaxSubjects]
      BY <1>0, <1>1, <2>2
    <3>2. j + Len(q) - MaxSubjects = k + Len(q) - MaxSubjects
      BY <3>1 DEF Distinct
    <3> QED BY <1>0, <2>2, <3>2
  <2>4. r[MaxSubjects] = q[Len(q)]
    <3>1. MaxSubjects \in 1 .. MaxSubjects /\ MaxSubjects + Len(q) - MaxSubjects = Len(q)
      BY <1>0
    <3> QED BY <2>2, <3>1
  <2> QED BY <2>1, <2>2, <2>3, <2>4 DEF Members
<1>2. CASE ~(Len(q) > MaxSubjects)
  BY <1>0, <1>2 DEF Remembered, Members
<1> QED
  BY <1>1, <1>2

\* The invariant of the stores after a step in which no time passes.
LEMMA StoresNext ==
  ASSUME ClockOK, UNCHANGED <<deployment, now>>,
         log' \in [Stores -> [Subjects -> Seq(Nat)]],
         grants' \in [Stores -> [Subjects -> Seq(Nat)]],
         order' \in [Instances -> Seq(Subjects)],
         lastSweep' \in [Instances -> Times],
         \A st \in Stores, s \in Subjects :
           LogOK(log'[st][s]) /\ grants'[st][s] = Prune(log'[st][s], Cutoff),
         \A i \in Instances :
           /\ Distinct(order'[i]) /\ Len(order'[i]) <= MaxSubjects
           /\ \A s \in Subjects : log'[i][s] # <<>> => s \in Members(order'[i])
  PROVE  StoresInv'
<1>1. /\ Stores' = Stores /\ Instances' = Instances /\ Subjects' = Subjects
      /\ Limit' = Limit /\ MaxSubjects' = MaxSubjects /\ Cutoff' = Cutoff /\ Times' = Times
  BY DEF Stores, Instances, Subjects, Limit, MaxSubjects, Cutoff, Times
<1>2. ASSUME NEW st \in Stores' PROVE StoreOK(st)'
  <2> SUFFICES ASSUME NEW s \in Subjects'
               PROVE  LogOK(log[st][s])' /\ grants'[st][s] = Prune(log[st][s], Cutoff)'
    BY DEF StoreOK
  <2>1. LogOK(log'[st][s]) /\ grants'[st][s] = Prune(log'[st][s], Cutoff)
    BY <1>1
  <2>2. LogOK(log[st][s])'
    BY <1>1, <2>1 DEF LogOK, Sorted
  <2>3. Prune(log[st][s], Cutoff)' = Prune(log'[st][s], Cutoff)
    BY <1>1 DEF Prune
  <2> QED BY <2>1, <2>2, <2>3
<1>3. ASSUME NEW i \in Instances' PROVE OrderOK(i)'
  <2>1. /\ order'[i] \in Seq(Subjects) /\ Distinct(order'[i]) /\ Len(order'[i]) <= MaxSubjects
        /\ \A s \in Subjects : log'[i][s] # <<>> => s \in Members(order'[i])
    BY <1>1
  <2> QED BY <1>1, <2>1 DEF OrderOK, Distinct, Members
<1> QED
  BY <1>1, <1>2, <1>3 DEF StoresInv

\* What a request does to the store of an instance.
LEMMA HitEffects ==
  ASSUME ClockOK, StoresInv, NEW i \in Instances, NEW s \in Subjects, MemoryHit(i, s),
         UNCHANGED <<deployment, now>>
  PROVE  StoresInv'
<1> DEFINE due  == now - lastSweep[i] >= Window
           gone == IF due THEN Swept(i) ELSE {}
           rest == Kept(order[i], Subjects \ (gone \cup {s}))
           full == Append(rest, s)
           own  == IF s \in gone THEN <<>> ELSE Prune(log[i][s], Cutoff)
           left == Members(Remembered(full))
<1>0. /\ now \in Nat /\ now \in Times /\ MaxSubjects \in Nat \ {0} /\ Cutoff \in Int
      /\ Cutoff < now /\ Limit \in Nat \ {0}
  BY DeploymentFacts
<1>1. /\ lastSweep' = [lastSweep EXCEPT ![i] = IF due THEN now ELSE @]
      /\ order' = [order EXCEPT ![i] = Remembered(full)]
      /\ log' = [log EXCEPT ![i] =
                   [x \in Subjects |-> IF x = s THEN Counted(own)
                                       ELSE IF x \in left THEN @[x] ELSE <<>>]]
      /\ grants' = [grants EXCEPT ![i] =
                      [x \in Subjects |->
                         IF x \in Members(full) \ left THEN <<>>
                         ELSE IF x = s /\ Allows(own) THEN Append(@[x], now)
                         ELSE @[x]]]
  BY DEF MemoryHit
<1>2. /\ log[i] \in [Subjects -> Seq(Nat)] /\ grants[i] \in [Subjects -> Seq(Nat)]
      /\ order[i] \in Seq(Subjects) /\ i \in Stores
      /\ StoreOK(i) /\ OrderOK(i)
  BY DEF StoresInv, Stores
<1>3. \A x \in gone : log[i][x] = <<>> \/ log[i][x][Len(log[i][x])] <= Cutoff
  BY DEF Swept, Lapsed
<1> HIDE DEF due, gone
<1>4. /\ rest \in Seq(Subjects) /\ Members(rest) = Members(order[i]) \ (gone \cup {s})
      /\ Distinct(rest)
  <2>1. /\ rest \in Seq(Subjects)
        /\ Members(rest) = Members(order[i]) \cap (Subjects \ (gone \cup {s}))
        /\ Distinct(rest)
    BY <1>2, KeptElements DEF OrderOK
  <2>2. Members(order[i]) \subseteq Subjects
    BY <1>2 DEF Members
  <2> QED BY <2>1, <2>2
<1> HIDE DEF rest
<1>5. /\ full \in Seq(Subjects) /\ Len(full) > 0 /\ full[Len(full)] = s
      /\ Members(full) = Members(rest) \cup {s} /\ Distinct(full)
  <2>1. /\ full \in Seq(Subjects) /\ Len(full) = Len(rest) + 1 /\ Len(rest) \in Nat
        /\ full[Len(rest) + 1] = s /\ \A k \in 1 .. Len(rest) : full[k] = rest[k]
    BY <1>4
  <2> HIDE DEF full
  <2>2. \A k \in 1 .. Len(rest) : rest[k] # s
    BY <1>4 DEF Members
  <2>3. Distinct(full)
    <3> SUFFICES ASSUME NEW j \in 1 .. Len(full), NEW k \in 1 .. Len(full), full[j] = full[k]
                 PROVE  j = k
      BY DEF Distinct
    <3>1. CASE j = Len(rest) + 1 \/ k = Len(rest) + 1
      BY <2>1, <2>2, <3>1
    <3>2. CASE j # Len(rest) + 1 /\ k # Len(rest) + 1
      <4>1. j \in 1 .. Len(rest) /\ k \in 1 .. Len(rest) /\ rest[j] = rest[k]
        BY <2>1, <3>2
      <4> QED BY <1>4, <4>1 DEF Distinct
    <3> QED BY <3>1, <3>2
  <2>4. Members(full) = Members(rest) \cup {s}
    <3>1. \A x : (\E k \in 1 .. Len(full) : full[k] = x) <=>
                 (x = s \/ \E k \in 1 .. Len(rest) : rest[k] = x)
      BY <2>1
    <3> QED BY <3>1 DEF Members
  <2> QED BY <2>1, <2>3, <2>4
<1> HIDE DEF full
<1>6. /\ Remembered(full) \in Seq(Subjects) /\ Distinct(Remembered(full))
      /\ Len(Remembered(full)) <= MaxSubjects /\ s \in left
      /\ left \subseteq Members(full)
  <2>1. /\ Remembered(full) \in Seq(Subjects) /\ Distinct(Remembered(full))
        /\ Len(Remembered(full)) <= MaxSubjects /\ s \in left
    BY <1>0, <1>5, RememberedFacts
  <2>2. left \subseteq Members(full)
    BY <1>0, <1>5 DEF Members, Remembered
  <2> QED BY <2>1, <2>2
<1>7. \A x \in Subjects : /\ LogOK(log[i][x]) /\ grants[i][x] = Prune(log[i][x], Cutoff)
                          /\ log[i][x] # <<>> => x \in Members(order[i])
                          /\ log[i][x] \in Seq(Nat) /\ Sorted(log[i][x])
  BY <1>2 DEF StoreOK, OrderOK, LogOK
<1>8. own = Prune(log[i][s], Cutoff) /\ own = grants[i][s]
  <2>1. CASE s \in gone
    <3>1. Prune(log[i][s], Cutoff) = <<>>
      BY <1>0, <1>3, <1>7, <2>1, PruneAll
    <3> QED BY <1>7, <2>1, <3>1
  <2>2. CASE s \notin gone
    BY <1>7, <2>2
  <2> QED BY <2>1, <2>2
<1> HIDE DEF own, left
<1>9. LogOK(own) /\ \A k \in 1 .. Len(own) : own[k] > Cutoff
  BY <1>7, <1>8, PrunedLog
<1>10. LogOK(Counted(own)) /\ Prune(Counted(own), Cutoff) = Counted(own)
  BY <1>9, CountedFacts
<1>11. Counted(own) = IF Allows(own) THEN Append(grants[i][s], now) ELSE grants[i][s]
  BY <1>8 DEF Counted, Allows
<1>12. ASSUME NEW x \in Subjects, x # s, x \notin left, x \notin Members(full) \ left
       PROVE  grants[i][x] = <<>>
  <2>1. x \notin Members(rest) /\ x \in gone \cup (Subjects \ Members(order[i]))
    BY <1>4, <1>5, <1>6, <1>12
  <2>2. log[i][x] = <<>> \/ log[i][x][Len(log[i][x])] <= Cutoff
    BY <1>3, <1>7, <2>1
  <2> QED BY <1>0, <1>7, <2>2, PruneAll
<1>13. LogOK(<<>>) /\ Prune(<<>>, Cutoff) = <<>>
  BY EmptyLog
<1>14. ASSUME NEW x \in Subjects
       PROVE  LogOK(log'[i][x]) /\ grants'[i][x] = Prune(log'[i][x], Cutoff)
  <2>0. /\ log'[i][x] = IF x = s THEN Counted(own) ELSE IF x \in left THEN log[i][x] ELSE <<>>
        /\ grants'[i][x] = IF x \in Members(full) \ left THEN <<>>
                           ELSE IF x = s /\ Allows(own) THEN Append(grants[i][x], now)
                           ELSE grants[i][x]
    BY <1>1, <1>2 DEF StoresInv
  <2>1. CASE x = s
    <3>1. log'[i][x] = Counted(own) /\ grants'[i][x] = Counted(own)
      BY <1>6, <1>11, <2>0, <2>1
    <3> QED BY <1>10, <3>1
  <2>2. CASE x # s /\ x \in left
    BY <1>7, <2>0, <2>2
  <2>3. CASE x # s /\ x \notin left
    <3>1. log'[i][x] = <<>>
      BY <2>0, <2>3
    <3>2. grants'[i][x] = <<>>
      BY <1>12, <2>0, <2>3
    <3> QED BY <1>13, <3>1, <3>2
  <2> QED BY <2>1, <2>2, <2>3
<1>15. ASSUME NEW x \in Subjects
       PROVE  log'[i][x] # <<>> => x \in Members(order'[i])
  <2>1. log'[i][x] = IF x = s THEN Counted(own) ELSE IF x \in left THEN log[i][x] ELSE <<>>
    BY <1>1, <1>2 DEF StoresInv
  <2>2. order'[i] = Remembered(full)
    BY <1>1, <1>2 DEF StoresInv
  <2> QED BY <1>6, <2>1, <2>2 DEF left
<1>16. log' \in [Stores -> [Subjects -> Seq(Nat)]]
  <2>1. Counted(own) \in Seq(Nat) /\ <<>> \in Seq(Nat)
    BY <1>10 DEF LogOK
  <2> QED BY <1>1, <1>2, <2>1 DEF StoresInv
<1>17. grants' \in [Stores -> [Subjects -> Seq(Nat)]]
  <2>1. <<>> \in Seq(Nat) /\ \A x \in Subjects : grants[i][x] \in Seq(Nat) /\ Append(grants[i][x], now) \in Seq(Nat)
    BY <1>0, <1>2
  <2> QED BY <1>1, <1>2, <2>1 DEF StoresInv
<1>18. order' \in [Instances -> Seq(Subjects)] /\ lastSweep' \in [Instances -> Times]
  BY <1>0, <1>1, <1>6 DEF StoresInv
<1>19. ASSUME NEW st \in Stores, NEW x \in Subjects
       PROVE  LogOK(log'[st][x]) /\ grants'[st][x] = Prune(log'[st][x], Cutoff)
  <2>1. CASE st = i
    BY <1>14, <2>1
  <2>2. CASE st # i
    <3>1. log'[st][x] = log[st][x] /\ grants'[st][x] = grants[st][x]
      BY <1>1, <2>2 DEF StoresInv
    <3> QED BY <3>1 DEF StoresInv, StoreOK
  <2> QED BY <2>1, <2>2
<1>20. ASSUME NEW j \in Instances
       PROVE  /\ Distinct(order'[j]) /\ Len(order'[j]) <= MaxSubjects
              /\ \A x \in Subjects : log'[j][x] # <<>> => x \in Members(order'[j])
  <2>1. CASE j = i
    <3>1. order'[j] = Remembered(full)
      BY <1>1, <2>1 DEF StoresInv
    <3> QED BY <1>6, <1>15, <2>1, <3>1
  <2>2. CASE j # i
    <3>1. order'[j] = order[j] /\ log'[j] = log[j]
      BY <1>1, <2>2 DEF StoresInv, Stores
    <3> QED BY <3>1 DEF StoresInv, OrderOK
  <2> QED BY <2>1, <2>2
<1> QED
  BY <1>16, <1>17, <1>18, <1>19, <1>20, StoresNext

-----------------------------------------------------------------------------
(* The steps *)

LEMMA InitInv == LimiterInit => LimiterInv
<1> SUFFICES ASSUME LimiterInit PROVE LimiterInv
  OBVIOUS
<1>1. ClockOK
  <2>1. deployment \in Deployments /\ deployment.last \in Nat
    BY RateLimitAssumption DEF LimiterInit
  <2> QED BY <2>1 DEF ClockOK, LimiterInit
<1>2. CallsInv
  BY <1>1, DeploymentFacts DEF CallsInv, LimiterInit, Pending
<1>3. 0 \in Times /\ MaxSubjects \in Nat \ {0}
  BY <1>1, DeploymentFacts, RateLimitAssumption DEF Times
<1>4. \A st \in Stores : StoreOK(st)
  BY <1>1, EmptyLog DEF StoreOK, LimiterInit
<1>5. \A i \in Instances : OrderOK(i)
  BY <1>3 DEF OrderOK, LimiterInit, Distinct, Stores
<1>6. StoresInv
  BY <1>3, <1>4, <1>5 DEF StoresInv, LimiterInit
<1> QED
  BY <1>1, <1>2, <1>6 DEF LimiterInv

\* Redis decides on a request as an instance's store does, with no cap.
LEMMA ScriptEffects ==
  ASSUME LimiterInv, NEW c \in Calls, RunScript(c)
  PROVE  StoresInv'
<1> DEFINE s == call[c].subj
           own == Prune(log[Redis][s], Cutoff)
<1>0. ClockOK /\ StoresInv /\ CallsInv /\ Redis \in Stores /\ UNCHANGED <<deployment, now>>
  BY DEF LimiterInv, Stores, RunScript
<1>1. s \in Subjects
  BY <1>0 DEF RunScript, CallsInv, Pending, NoPending
<1>2. /\ log' = [log EXCEPT ![Redis][s] = Counted(own)]
      /\ grants' = IF Allows(own) THEN [grants EXCEPT ![Redis][s] = Append(@, now)] ELSE grants
      /\ order' = order /\ lastSweep' = lastSweep
  BY DEF RunScript
<1> HIDE DEF s
<1>3. /\ LogOK(log[Redis][s]) /\ grants[Redis][s] = own
      /\ log[Redis] \in [Subjects -> Seq(Nat)] /\ grants[Redis] \in [Subjects -> Seq(Nat)]
  BY <1>0, <1>1 DEF StoresInv, StoreOK
<1>4. LogOK(own) /\ \A k \in 1 .. Len(own) : own[k] > Cutoff
  BY <1>0, <1>3, PrunedLog
<1> HIDE DEF own
<1>5. LogOK(Counted(own)) /\ Prune(Counted(own), Cutoff) = Counted(own)
  BY <1>0, <1>4, CountedFacts
<1>6. Counted(own) \in Seq(Nat)
  BY <1>5 DEF LogOK
<1>7. grants' = [grants EXCEPT ![Redis][s] = Counted(own)]
  BY <1>0, <1>1, <1>2, <1>3 DEF Counted, Allows, StoresInv
<1>8. log' \in [Stores -> [Subjects -> Seq(Nat)]] /\ grants' \in [Stores -> [Subjects -> Seq(Nat)]]
  BY <1>0, <1>1, <1>2, <1>6, <1>7 DEF StoresInv
<1>9. ASSUME NEW st \in Stores, NEW x \in Subjects
      PROVE  LogOK(log'[st][x]) /\ grants'[st][x] = Prune(log'[st][x], Cutoff)
  <2>1. CASE st = Redis /\ x = s
    <3>1. log'[st][x] = Counted(own) /\ grants'[st][x] = Counted(own)
      BY <1>0, <1>1, <1>2, <1>7, <2>1 DEF StoresInv
    <3> QED BY <1>5, <3>1
  <2>2. CASE ~(st = Redis /\ x = s)
    <3>1. log'[st][x] = log[st][x] /\ grants'[st][x] = grants[st][x]
      BY <1>0, <1>1, <1>2, <1>7, <2>2 DEF StoresInv
    <3> QED BY <1>0, <3>1 DEF StoresInv, StoreOK
  <2> QED BY <2>1, <2>2
<1>10. ASSUME NEW i \in Instances
       PROVE  /\ Distinct(order'[i]) /\ Len(order'[i]) <= MaxSubjects
              /\ \A x \in Subjects : log'[i][x] # <<>> => x \in Members(order'[i])
  <2>1. i # Redis /\ i \in Stores
    BY <1>0, DeploymentFacts DEF Stores
  <2>2. log'[i] = log[i] /\ order'[i] = order[i]
    BY <1>0, <1>2, <2>1 DEF StoresInv
  <2> QED BY <1>0, <2>2 DEF StoresInv, OrderOK
<1> QED
  BY <1>0, <1>2, <1>8, <1>9, <1>10, StoresNext DEF StoresInv

\* A sweep forgets subjects whose records have all left the window.
LEMMA SweepEffects ==
  ASSUME ClockOK, StoresInv, NEW i \in Instances, Sweep(i)
  PROVE  StoresInv'
<1> DEFINE left == Kept(order[i], Subjects \ Swept(i))
<1>0. UNCHANGED <<deployment, now, grants>> /\ i \in Stores /\ now \in Times /\ Cutoff \in Int
  BY DeploymentFacts DEF Sweep, Stores
<1>1. /\ lastSweep' = [lastSweep EXCEPT ![i] = now]
      /\ order' = [order EXCEPT ![i] = left]
      /\ log' = [log EXCEPT ![i] = [x \in Subjects |-> IF x \in Swept(i) THEN <<>> ELSE @[x]]]
  BY DEF Sweep, StoresInv
<1>2. /\ order[i] \in Seq(Subjects) /\ OrderOK(i) /\ StoreOK(i)
      /\ log[i] \in [Subjects -> Seq(Nat)]
  BY <1>0 DEF StoresInv
<1>3. Members(order[i]) \subseteq Subjects
  BY <1>2 DEF Members
<1>4. /\ left \in Seq(Subjects) /\ Distinct(left)
      /\ Members(left) = Members(order[i]) \cap (Subjects \ Swept(i))
  BY <1>2, KeptElements DEF OrderOK
<1>5. Len(left) <= MaxSubjects
  <2> HIDE DEF left
  <2>1. \A n \in Nat : \A q \in Seq(Subjects) : Len(q) \in Nat
    OBVIOUS
  <2>2. MaxSubjects \in Nat /\ Len(order[i]) <= MaxSubjects /\ Len(order[i]) \in Nat
    BY <1>2, DeploymentFacts DEF OrderOK
  <2>3. Len(left) <= Len(order[i])
    BY <1>2, <1>4, DistinctNoLonger DEF OrderOK
  <2> QED BY <1>4, <2>2, <2>3
<1> HIDE DEF left
<1>6. ASSUME NEW st \in Stores, NEW x \in Subjects
      PROVE  /\ log'[st][x] = IF st = i /\ x \in Swept(i) THEN <<>> ELSE log[st][x]
             /\ LogOK(log'[st][x]) /\ grants'[st][x] = Prune(log'[st][x], Cutoff)
  <2>1. log'[st][x] = IF st = i /\ x \in Swept(i) THEN <<>> ELSE log[st][x]
    BY <1>0, <1>1, <1>2 DEF StoresInv
  <2>2. LogOK(log[st][x]) /\ grants[st][x] = Prune(log[st][x], Cutoff)
    BY DEF StoresInv, StoreOK
  <2>3. CASE st = i /\ x \in Swept(i)
    <3>1. log[i][x] = <<>> \/ log[i][x][Len(log[i][x])] <= Cutoff
      BY <2>3 DEF Swept, Lapsed
    <3>2. Prune(log[i][x], Cutoff) = <<>>
      BY <1>0, <2>2, <2>3, <3>1, PruneAll DEF LogOK
    <3> QED BY <1>0, <2>1, <2>2, <2>3, <3>2, EmptyLog
  <2>4. CASE ~(st = i /\ x \in Swept(i))
    BY <1>0, <2>1, <2>2, <2>4
  <2> QED BY <2>1, <2>3, <2>4
<1>7. log' \in [Stores -> [Subjects -> Seq(Nat)]]
  <2>1. <<>> \in Seq(Nat)
    OBVIOUS
  <2> QED BY <1>0, <1>1, <1>2, <2>1 DEF StoresInv
<1>8. ASSUME NEW j \in Instances
      PROVE  /\ Distinct(order'[j]) /\ Len(order'[j]) <= MaxSubjects
             /\ \A x \in Subjects : log'[j][x] # <<>> => x \in Members(order'[j])
  <2>1. j \in Stores
    BY DEF Stores
  <2>2. CASE j = i
    <3>1. order'[j] = left
      BY <1>1, <2>2 DEF StoresInv
    <3>2. ASSUME NEW x \in Subjects, log'[j][x] # <<>> PROVE x \in Members(left)
      <4>1. x \notin Swept(i) /\ log[i][x] # <<>>
        BY <1>6, <2>1, <2>2, <3>2
      <4> QED BY <1>2, <1>4, <4>1 DEF OrderOK
    <3> QED BY <1>4, <1>5, <3>1, <3>2
  <2>3. CASE j # i
    <3>1. order'[j] = order[j] /\ log'[j] = log[j]
      BY <1>1, <2>1, <2>3 DEF StoresInv
    <3> QED BY <3>1 DEF StoresInv, OrderOK
  <2> QED BY <2>2, <2>3
<1>9. /\ order' \in [Instances -> Seq(Subjects)] /\ lastSweep' \in [Instances -> Times]
      /\ grants' \in [Stores -> [Subjects -> Seq(Nat)]]
  BY <1>0, <1>1, <1>4 DEF StoresInv
<1> QED
  BY <1>0, <1>6, <1>7, <1>8, <1>9, StoresNext

\* A record leaves the history of what was allowed when it leaves its window.
LEMMA TickEffects ==
  ASSUME ClockOK, StoresInv, Tick
  PROVE  ClockOK' /\ StoresInv'
<1>0. /\ now' = now + 1 /\ deployment' = deployment /\ UNCHANGED <<log, order, lastSweep>>
      /\ grants' = [st \in Stores |-> [s \in Subjects |->
                     Kept(grants[st][s], now' - Window + 1 .. MaxTime)]]
      /\ now < deployment.last
  BY DEF Tick
<1>1. /\ Stores' = Stores /\ Instances' = Instances /\ Subjects' = Subjects
      /\ Limit' = Limit /\ MaxSubjects' = MaxSubjects /\ Times' = Times
      /\ Cutoff' = now' - Window
  BY <1>0 DEF Stores, Instances, Subjects, Limit, MaxSubjects, Times, Cutoff
<1>2. /\ now \in Nat /\ now <= MaxTime /\ MaxTime \in Nat /\ Window \in Nat \ {0}
      /\ Cutoff \in Int /\ Cutoff = now - Window /\ Limit \in Nat
  BY DeploymentFacts DEF Cutoff
<1>3. Cutoff' \in Int /\ Cutoff <= Cutoff' /\ now <= now' /\ now' \in Nat
  BY <1>0, <1>1, <1>2
<1>4. ClockOK'
  <2>1. deployment.last \in Nat
    BY RateLimitAssumption DEF ClockOK
  <2> QED BY <1>0, <1>2, <2>1 DEF ClockOK
<1>5. ASSUME NEW st \in Stores, NEW s \in Subjects
      PROVE  /\ LogOK(log[st][s])' /\ grants'[st][s] = Prune(log[st][s], Cutoff')
             /\ grants'[st][s] \in Seq(Nat)
  <2> DEFINE q == log[st][s]
             g == grants[st][s]
  <2>1. LogOK(q) /\ g = Prune(q, Cutoff)
    BY DEF StoresInv, StoreOK
  <2> HIDE DEF q, g
  <2>2. /\ g \in Seq(Nat) /\ Sorted(g)
        /\ \A k \in 1 .. Len(g) : \E j \in 1 .. Len(q) : g[k] = q[j]
    BY <1>2, <2>1, PruneFacts DEF LogOK
  <2>3. \A k \in 1 .. Len(g) : g[k] <= MaxTime
    <3>1. \A j \in 1 .. Len(q) : q[j] <= now /\ q[j] \in Nat
      BY <2>1 DEF LogOK
    <3>2. ASSUME NEW k \in 1 .. Len(g) PROVE g[k] <= MaxTime
      <4>1. PICK j \in 1 .. Len(q) : g[k] = q[j]
        BY <2>2
      <4> QED BY <1>2, <3>1, <4>1
    <3> QED BY <3>2
  <2>4. Kept(g, Cutoff' + 1 .. MaxTime) = Prune(g, Cutoff')
    BY <1>2, <1>3, <2>2, <2>3, KeptIsPruned
  <2>5. Prune(g, Cutoff') = Prune(q, Cutoff')
    BY <1>2, <1>3, <2>1, PruneTwice DEF LogOK
  <2>6. grants'[st][s] = Kept(g, Cutoff' + 1 .. MaxTime)
    BY <1>0, <1>1 DEF g
  <2>7. Prune(q, Cutoff') \in Seq(Nat)
    BY <1>3, <2>1, PruneFacts DEF LogOK
  <2>8. LogOK(log[st][s])'
    <3>1. /\ q \in Seq(Nat) /\ Sorted(q) /\ Len(q) <= Limit
          /\ \A k \in 1 .. Len(q) : q[k] <= now /\ q[k] \in Nat
      BY <2>1 DEF LogOK
    <3>2. \A k \in 1 .. Len(q) : q[k] <= now'
      BY <1>2, <1>3, <3>1
    <3> QED BY <1>0, <1>1, <3>1, <3>2 DEF LogOK, Sorted, q
  <2> QED BY <2>4, <2>5, <2>6, <2>7, <2>8 DEF q
<1>6. ASSUME NEW st \in Stores PROVE StoreOK(st)'
  <2> SUFFICES ASSUME NEW s \in Subjects'
               PROVE  LogOK(log[st][s])' /\ grants'[st][s] = Prune(log[st][s], Cutoff)'
    BY DEF StoreOK
  <2>1. LogOK(log[st][s])' /\ grants'[st][s] = Prune(log[st][s], Cutoff')
    BY <1>1, <1>5
  <2>2. Prune(log[st][s], Cutoff)' = Prune(log[st][s], Cutoff')
    BY <1>0 DEF Prune
  <2> QED BY <2>1, <2>2
<1>7. ASSUME NEW i \in Instances PROVE OrderOK(i)'
  <2>1. OrderOK(i)
    BY DEF StoresInv
  <2> QED BY <1>0, <1>1, <2>1 DEF OrderOK, Distinct, Members
<1>8. grants' \in [Stores -> [Subjects -> Seq(Nat)]]
  BY <1>0, <1>5
<1>9. StoresInv'
  BY <1>0, <1>1, <1>6, <1>7, <1>8 DEF StoresInv
<1> QED
  BY <1>4, <1>9

\* A step that leaves the stores alone.
LEMMA StoresSame ==
  ASSUME ClockOK, StoresInv, UNCHANGED <<deployment, now, log, order, lastSweep, grants>>
  PROVE  StoresInv'
BY StoresNext DEF StoresInv, StoreOK, OrderOK

LEMMA CallsSame ==
  ASSUME CallsInv, UNCHANGED <<deployment, retryAt, call>>
  PROVE  CallsInv'
BY DEF CallsInv, Pending, NoPending, CallSteps, Healthy, Times, Instances, Subjects

\* The calls after a step in which at most one of them changes.
LEMMA CallsNext ==
  ASSUME CallsInv, UNCHANGED deployment, NEW c \in Calls,
         \E r \in Pending : call' = [call EXCEPT ![c] = r],
         retryAt' \in [Instances -> {Healthy} \cup (0 .. MaxTime + Cooldown)]
  PROVE  CallsInv'
<1>1. Pending' = Pending /\ Instances' = Instances
  BY DEF Pending, NoPending, CallSteps, Times, Instances, Subjects
<1>2. call' \in [Calls -> Pending]
  BY DEF CallsInv
<1> QED
  BY <1>1, <1>2 DEF CallsInv, Healthy

LEMMA StepInv == LimiterInv /\ [LimiterNext]_limiterVars => LimiterInv'
<1> SUFFICES ASSUME LimiterInv, [LimiterNext]_limiterVars PROVE LimiterInv'
  OBVIOUS
<1>0. ClockOK /\ StoresInv /\ CallsInv
  BY DEF LimiterInv
<1>a. /\ now \in Nat /\ now \in Times /\ now <= MaxTime /\ MaxTime \in Nat /\ Cooldown \in Nat
      /\ Times \subseteq Nat
  BY <1>0, DeploymentFacts
<1>b. UNCHANGED <<deployment, now>> => ClockOK'
  BY <1>0 DEF ClockOK
<1>c. NoPending \in Pending
  BY DEF Pending
<1>d. ASSUME NEW c \in Calls, call[c].step \in CallSteps
      PROVE  /\ call[c].inst \in Instances /\ call[c].subj \in Subjects /\ call[c].at \in Times
             /\ call[c] \in [step : CallSteps, inst : Instances, subj : Subjects,
                             at : Times, allowed : BOOLEAN]
  <2>1. call[c] \in Pending /\ call[c] # NoPending
    BY <1>0, <1>d DEF CallsInv, NoPending, CallSteps
  <2> QED BY <2>1 DEF Pending
<1>e. \A i \in Instances, c \in Calls : call[c].step \in CallSteps =>
        [retryAt EXCEPT ![i] = call[c].at + Cooldown]
          \in [Instances -> {Healthy} \cup (0 .. MaxTime + Cooldown)]
  <2> SUFFICES ASSUME NEW i \in Instances, NEW c \in Calls, call[c].step \in CallSteps
               PROVE  call[c].at + Cooldown \in 0 .. MaxTime + Cooldown
    BY <1>0 DEF CallsInv
  <2>1. call[c].at \in 0 .. MaxTime
    BY <1>d DEF Times
  <2> QED BY <1>a, <2>1
<1>1. ASSUME NEW c \in Calls, NEW i \in Instances, NEW s \in Subjects, TryShared(c, i, s)
      PROVE  LimiterInv'
  <2> DEFINE r == [step |-> "sent", inst |-> i, subj |-> s, at |-> now, allowed |-> FALSE]
  <2>1. r \in Pending
    BY <1>a DEF Pending, CallSteps
  <2>2. call' = [call EXCEPT ![c] = r] /\ retryAt' = retryAt /\ UNCHANGED deployment
    BY <1>1 DEF TryShared
  <2> HIDE DEF r
  <2>3. CallsInv'
    BY <1>0, <2>1, <2>2, CallsNext DEF CallsInv
  <2>4. StoresInv' /\ ClockOK'
    BY <1>0, <1>1, <1>b, StoresSame DEF TryShared
  <2> QED BY <2>3, <2>4 DEF LimiterInv
<1>2. ASSUME NEW i \in Instances, NEW s \in Subjects, CountLocally(i, s)
      PROVE  LimiterInv'
  <2>1. StoresInv' /\ ClockOK'
    BY <1>0, <1>2, <1>b, HitEffects DEF CountLocally
  <2>2. CallsInv'
    BY <1>0, <1>2, CallsSame DEF CountLocally
  <2> QED BY <2>1, <2>2 DEF LimiterInv
<1>3. ASSUME NEW c \in Calls, RunScript(c)
      PROVE  LimiterInv'
  <2> DEFINE yes == Allows(Prune(log[Redis][call[c].subj], Cutoff))
             r == IF call[c].step = "lost" THEN NoPending
                  ELSE [call[c] EXCEPT !.step = "ran", !.allowed = yes]
  <2>1. call[c].step \in CallSteps /\ UNCHANGED deployment /\ retryAt' = retryAt
    BY <1>3 DEF RunScript, CallSteps
  <2>2. yes \in BOOLEAN
    BY DEF Allows
  <2>3. call' = [call EXCEPT ![c] = r]
    BY <1>0, <1>3 DEF RunScript, CallsInv
  <2> HIDE DEF yes
  <2>4. r \in Pending
    BY <1>c, <1>d, <2>1, <2>2 DEF Pending, CallSteps
  <2> HIDE DEF r
  <2>5. CallsInv'
    BY <1>0, <2>1, <2>3, <2>4, CallsNext DEF CallsInv
  <2>6. StoresInv' /\ ClockOK'
    BY <1>3, <1>b, ScriptEffects DEF RunScript
  <2> QED BY <2>5, <2>6 DEF LimiterInv
<1>4. ASSUME NEW c \in Calls, Reply(c)
      PROVE  LimiterInv'
  <2>1. call[c].inst \in Instances
    BY <1>4, <1>d DEF Reply, CallSteps
  <2>2. retryAt' \in [Instances -> {Healthy} \cup (0 .. MaxTime + Cooldown)]
    BY <1>0, <1>4, <2>1 DEF Reply, CallsInv
  <2>3. CallsInv'
    BY <1>0, <1>4, <1>c, <2>2, CallsNext DEF Reply
  <2>4. StoresInv' /\ ClockOK'
    BY <1>0, <1>4, <1>b, StoresSame DEF Reply
  <2> QED BY <2>3, <2>4 DEF LimiterInv
<1>5. ASSUME NEW c \in Calls, Fail(c)
      PROVE  LimiterInv'
  <2>1. call[c].step \in CallSteps /\ UNCHANGED <<deployment, now>>
    BY <1>5 DEF Fail, CallSteps
  <2>2. call[c].inst \in Instances /\ call[c].subj \in Subjects
    BY <1>d, <2>1
  <2>3. StoresInv' /\ ClockOK'
    BY <1>0, <1>5, <1>b, <2>1, <2>2, HitEffects DEF Fail
  <2>4. \E r \in Pending : call' = [call EXCEPT ![c] = r]
    <3>1. CASE call' = [call EXCEPT ![c] = NoPending]
      BY <1>c, <3>1
    <3>2. CASE call' = [call EXCEPT ![c].step = "lost"]
      <4>1. [call[c] EXCEPT !.step = "lost"] \in Pending
        BY <1>d, <2>1 DEF Pending, CallSteps
      <4> QED BY <1>0, <3>2, <4>1 DEF CallsInv
    <3> QED BY <1>5, <3>1, <3>2 DEF Fail
  <2>5. retryAt' \in [Instances -> {Healthy} \cup (0 .. MaxTime + Cooldown)]
    <3>1. retryAt' = [retryAt EXCEPT ![call[c].inst] = call[c].at + Cooldown]
      BY <1>5 DEF Fail
    <3> QED BY <1>e, <2>1, <2>2, <3>1
  <2>6. CallsInv'
    BY <1>0, <2>1, <2>4, <2>5, CallsNext
  <2> QED BY <2>3, <2>6 DEF LimiterInv
<1>6. ASSUME NEW c \in Calls, Vanish(c)
      PROVE  LimiterInv'
  <2>1. CallsInv'
    BY <1>0, <1>6, <1>c, CallsNext DEF Vanish, CallsInv
  <2>2. StoresInv' /\ ClockOK'
    BY <1>0, <1>6, <1>b, StoresSame DEF Vanish
  <2> QED BY <2>1, <2>2 DEF LimiterInv
<1>7. ASSUME NEW i \in Instances, Sweep(i)
      PROVE  LimiterInv'
  <2>1. StoresInv' /\ ClockOK'
    BY <1>0, <1>7, <1>b, SweepEffects DEF Sweep
  <2>2. CallsInv'
    BY <1>0, <1>7, CallsSame DEF Sweep
  <2> QED BY <2>1, <2>2 DEF LimiterInv
<1>8. CASE Tick
  <2>1. StoresInv' /\ ClockOK'
    BY <1>0, <1>8, TickEffects
  <2>2. CallsInv'
    BY <1>0, <1>8, CallsSame DEF Tick
  <2> QED BY <2>1, <2>2 DEF LimiterInv
<1>9. CASE UNCHANGED limiterVars
  <2>1. StoresInv' /\ ClockOK' /\ CallsInv'
    BY <1>0, <1>9, <1>b, StoresSame, CallsSame DEF limiterVars
  <2> QED BY <2>1 DEF LimiterInv
<1> QED
  BY <1>1, <1>2, <1>3, <1>4, <1>5, <1>6, <1>7, <1>8, <1>9 DEF LimiterNext

LEMMA LimiterAlways == LimiterSpec => []LimiterInv
BY InitInv, StepInv, PTL DEF LimiterSpec

-----------------------------------------------------------------------------
(* Theorems *)

\* A log that a store prunes is what the store allowed in the last window.
LEMMA GrantsArePruned ==
  ASSUME LimiterInv, NEW st \in Stores, NEW s \in Subjects
  PROVE  /\ grants[st][s] = Prune(log[st][s], Cutoff)
         /\ LogOK(grants[st][s]) /\ LogOK(log[st][s])
BY PrunedLog DEF LimiterInv, StoresInv, StoreOK

\* The variables of the limiter have their types, whatever the deployment.
THEOREM LimiterTypes == LimiterSpec => []LimiterTypeOK
<1>1. LimiterInv => LimiterTypeOK
  <2> SUFFICES ASSUME LimiterInv PROVE LimiterTypeOK
    OBVIOUS
  <2>0. ClockOK /\ StoresInv /\ CallsInv
    BY DEF LimiterInv
  <2>1. Times = 0 .. MaxTime /\ now \in Nat /\ now <= MaxTime /\ MaxTime \in Nat
    BY <2>0, DeploymentFacts DEF Times
  <2>2. \A q : LogOK(q) => Members(q) \subseteq Times /\ Len(q) <= Limit
    BY <2>1 DEF LogOK, Members
  <2>3. \A i \in Instances : Members(order[i]) \subseteq Subjects
    BY <2>0 DEF StoresInv, Members
  <2>4. \A st \in Stores, s \in Subjects : LogOK(log[st][s]) /\ LogOK(grants[st][s])
    BY GrantsArePruned
  <2> QED BY <2>0, <2>2, <2>3, <2>4 DEF LimiterTypeOK, ClockOK, StoresInv, CallsInv
<1> QED
  BY <1>1, LimiterAlways, PTL

\* Every request that a store allowed in the last window weighs on its next
\* decision: nothing is allowed without being counted, nothing counted is lost to a
\* sweep (rate_limit_store.py:4).
THEOREM AllowedIsCounted == LimiterSpec => []GrantsAreCounted
<1>1. LimiterInv => GrantsAreCounted
  BY GrantsArePruned DEF GrantsAreCounted
<1> QED
  BY <1>1, LimiterAlways, PTL

\* No store allows a subject more than the limit in any window.
THEOREM LimitHolds == LimiterSpec => []WindowLimit
<1>1. LimiterInv => WindowLimit
  BY GrantsArePruned DEF WindowLimit, LogOK
<1> QED
  BY <1>1, LimiterAlways, PTL

\* An instance remembers at most as many subjects as its cap, none of them twice,
\* and keeps no records of others.
THEOREM CapHolds == LimiterSpec => []MemoryBounded
<1>1. LimiterInv => MemoryBounded
  <2> SUFFICES ASSUME LimiterInv, NEW i \in Instances
               PROVE  /\ Len(order[i]) <= MaxSubjects
                      /\ Cardinality(Members(order[i])) = Len(order[i])
                      /\ \A s \in Subjects : log[i][s] # <<>> => s \in Members(order[i])
    BY DEF MemoryBounded
  <2>1. OrderOK(i)
    BY DEF LimiterInv, StoresInv
  <2>2. Cardinality(Members(order[i])) = Len(order[i])
    BY <2>1, DistinctCount DEF OrderOK
  <2> QED BY <2>1, <2>2 DEF OrderOK
<1> QED
  BY <1>1, LimiterAlways, PTL

-----------------------------------------------------------------------------
(* The composition with the ledger *)

\* Side by side, the limiter and the ledger each behave as they do alone, so what is
\* proved of the one or the other holds of a request that passes both.
THEOREM PartsOfLimits == LimitsSpec => Spec /\ LimiterSpec
<1>1. LimitsInit => Init /\ LimiterInit
  BY DEF LimitsInit
<1>2. [LimitsNext]_limitsVars => [Next]_vars /\ [LimiterNext]_limiterVars
  BY DEF LimitsNext, LedgerPart, LimiterPart, limitsVars
<1> QED
  BY <1>1, <1>2, PTL DEF LimitsSpec, Spec, LimiterSpec

\* Whatever requests, tenants and Redis do, the rows and the counters keep their types.
THEOREM LimitsTypes == LimitsSpec => []LimitsTypeOK
<1>1. TypeOK /\ LimiterTypeOK => LimitsTypeOK
  BY DEF LimitsTypeOK
<1> QED
  BY <1>1, PartsOfLimits, TypeCorrect, LimiterTypes, PTL
=============================================================================
