------------------------- MODULE UsageLedger_proofs -------------------------
(***************************************************************************)
(* Theorems about UsageLedger for every set of workers, every number of    *)
(* days and every set of quotas.                                           *)
(***************************************************************************)
EXTENDS UsageLedger, FiniteSetTheorems, TLAPS

-----------------------------------------------------------------------------
(* Types *)

TypeInv == TypeOK /\ BucketAssigned

USE DEF rows, locals, history

LEMMA BucketParts ==
  /\ \A b \in Buckets : KindOf(b) \in Kinds /\ DayOf(b) \in Days
  /\ \A k \in Kinds, d \in Days :
       <<k, d>> \in Buckets /\ KindOf(<<k, d>>) = k /\ DayOf(<<k, d>>) = d
BY DEF Buckets, KindOf, DayOf

\* A request that returns leaves its locals unassigned.
LEMMA ReturnType ==
  ASSUME TypeInv, NEW w \in Workers, Return(w)
  PROVE  /\ pc' \in [Workers -> Steps]
         /\ bucket' \in [Workers -> Buckets \cup {NoBucket}]
         /\ lim' \in [Workers -> Nat]
         /\ seen' \in [Workers -> Nat]
         /\ BucketAssigned'
BY DEF TypeInv, TypeOK, BucketAssigned, Return, Goto, Steps, AssignedSteps, HoldingSteps

\* A request that moves on keeps its locals.
LEMMA GotoType ==
  ASSUME TypeInv, NEW w \in Workers, NEW step \in Steps, Goto(w, step),
         UNCHANGED bucket, step \in AssignedSteps => bucket[w] \in Buckets
  PROVE  pc' \in [Workers -> Steps] /\ BucketAssigned'
BY DEF TypeInv, TypeOK, BucketAssigned, Goto

LEMMA TypeInit == Init => TypeInv
<1> SUFFICES ASSUME Init PROVE TypeInv
  OBVIOUS
<1>1. [Kinds -> Limits] \subseteq [Kinds -> Nat]
  BY LedgerAssumption
<1>2. TypeOK
  BY <1>1, LedgerAssumption
  DEF Init, TypeOK, Statuses, Steps, HoldingSteps, Days, Never
<1>3. BucketAssigned
  BY DEF Init, BucketAssigned, AssignedSteps, HoldingSteps
<1> QED
  BY <1>2, <1>3 DEF TypeInv

LEMMA TypeStep == TypeInv /\ [Next]_vars => TypeInv'
<1> SUFFICES ASSUME TypeInv, [Next]_vars PROVE TypeInv'
  OBVIOUS
<1> USE LedgerAssumption DEF TypeInv
<1> TypeOK
  OBVIOUS
<1>1. ASSUME NEW w \in Workers, Begin(w) PROVE TypeInv'
  <2>1. "lookup" \in Steps /\ "lookup" \notin AssignedSteps
    BY DEF Steps, AssignedSteps, HoldingSteps
  <2>2. pc' \in [Workers -> Steps] /\ BucketAssigned'
    BY <1>1, <2>1, GotoType DEF Begin
  <2> QED BY <1>1, <2>2 DEF Begin, TypeOK
<1>2. ASSUME NEW w \in Workers, Lookup(w) PROVE TypeInv'
  <2>1. \A step \in {"expire", "sample"} : step \in Steps /\ step \notin AssignedSteps
    BY DEF Steps, AssignedSteps, HoldingSteps
  <2>2. CASE Return(w)
    BY <1>2, <2>2, ReturnType DEF Lookup, TypeOK
  <2>3. CASE UNCHANGED locals /\ (Goto(w, "expire") \/ Goto(w, "sample"))
    <3>1. pc' \in [Workers -> Steps] /\ BucketAssigned'
      BY <2>1, <2>3, GotoType
    <3> QED BY <1>2, <2>3, <3>1 DEF Lookup, TypeOK
  <2> QED BY <1>2, <2>2, <2>3 DEF Lookup
<1>3. ASSUME NEW w \in Workers, ExpireTenant(w) PROVE TypeInv'
  BY <1>3, ReturnType DEF ExpireTenant, TypeOK, Statuses
<1>4. ASSUME NEW w \in Workers, NEW k \in Kinds, SampleDay(w, k) PROVE TypeInv'
  <2>1. <<k, today>> \in Buckets
    BY BucketParts DEF TypeOK
  <2>2. bucket' \in [Workers -> Buckets \cup {NoBucket}] /\ bucket'[w] = <<k, today>>
    BY <1>4, <2>1 DEF SampleDay, TypeOK
  <2>3. pc' \in [Workers -> Steps] /\ BucketAssigned'
    BY <1>4, <2>1, <2>2 DEF SampleDay, Goto, TypeOK, BucketAssigned, Steps
  <2> QED BY <1>4, <2>2, <2>3 DEF SampleDay, TypeOK
<1>5. ASSUME NEW w \in Workers, CheckStatus(w) PROVE TypeInv'
  <2>1. CASE Return(w)
    BY <1>5, <2>1, ReturnType DEF CheckStatus, TypeOK
  <2>2. CASE Goto(w, "lock") /\ UNCHANGED locals
    <3>1. "lock" \in Steps /\ bucket[w] \in Buckets
      BY <1>5 DEF CheckStatus, BucketAssigned, AssignedSteps, Steps
    <3>2. pc' \in [Workers -> Steps] /\ BucketAssigned'
      BY <2>2, <3>1, GotoType
    <3> QED BY <1>5, <2>2, <3>2 DEF CheckStatus, TypeOK
  <2> QED BY <1>5, <2>1, <2>2 DEF CheckStatus
<1>6. ASSUME NEW w \in Workers, LockQuota(w) PROVE TypeInv'
  <2>1. CASE Return(w) /\ UNCHANGED lock
    BY <1>6, <2>1, ReturnType DEF LockQuota, TypeOK
  <2>2. CASE /\ lock' = w
             /\ lim' = [lim EXCEPT ![w] = limit[KindOf(bucket[w])]]
             /\ seen' = [seen EXCEPT ![w] = count[bucket[w]]]
             /\ Goto(w, "decide")
             /\ UNCHANGED bucket
    <3>1. "decide" \in Steps /\ bucket[w] \in Buckets
      BY <1>6 DEF LockQuota, BucketAssigned, AssignedSteps, Steps
    <3>2. limit[KindOf(bucket[w])] \in Nat /\ count[bucket[w]] \in Nat
      BY <3>1, BucketParts DEF TypeOK
    <3>3. pc' \in [Workers -> Steps] /\ BucketAssigned'
      BY <2>2, <3>1, GotoType
    <3> QED BY <1>6, <2>2, <3>2, <3>3 DEF LockQuota, TypeOK
  <2> QED BY <1>6, <2>1, <2>2 DEF LockQuota
<1>7. ASSUME NEW w \in Workers, Admit(w) PROVE TypeInv'
  <2>1. bucket[w] \in Buckets
    BY <1>7 DEF Admit, BucketAssigned, AssignedSteps
  <2>2. PICK step \in {"cache", "pipeline"} : Goto(w, step)
    BY <1>7 DEF Admit
  <2>3. step \in Steps
    BY DEF Steps, HoldingSteps
  <2>4. pc' \in [Workers -> Steps] /\ BucketAssigned'
    BY <1>7, <2>1, <2>2, <2>3, GotoType DEF Admit
  <2>5. count' \in [Buckets -> Nat]
    BY <1>7, <2>1 DEF Admit, TypeOK
  <2>6. lim' \in [Workers -> Nat] /\ seen' \in [Workers -> Nat]
    BY <1>7 DEF Admit, TypeOK
  <2> QED BY <1>7, <2>4, <2>5, <2>6 DEF Admit, TypeOK
<1>8. ASSUME NEW w \in Workers, Refuse(w) PROVE TypeInv'
  BY <1>8, ReturnType DEF Refuse, TypeOK
<1>9. ASSUME NEW w \in Workers, NEW step \in HoldingSteps, pc[w] \in HoldingSteps,
             Goto(w, step), UNCHANGED <<rows, lock, today, locals, history>>
      PROVE  TypeInv'
  <2>1. step \in Steps /\ bucket[w] \in Buckets
    BY <1>9 DEF BucketAssigned, AssignedSteps, Steps
  <2>2. pc' \in [Workers -> Steps] /\ BucketAssigned'
    BY <1>9, <2>1, GotoType
  <2> QED BY <1>9, <2>2 DEF TypeOK
<1>10. ASSUME NEW w \in Workers, pc[w] \in HoldingSteps, Succeed(w) PROVE TypeInv'
  <2>1. bucket[w] \in Buckets
    BY <1>10 DEF BucketAssigned, AssignedSteps
  <2> QED BY <1>10, <2>1, ReturnType DEF Succeed, TypeOK
<1>11. ASSUME NEW w \in Workers, ConsultCache(w) PROVE TypeInv'
  BY <1>9, <1>11 DEF ConsultCache, HoldingSteps
<1>12. ASSUME NEW w \in Workers, FinalizeHit(w) PROVE TypeInv'
  BY <1>9, <1>10, <1>12 DEF FinalizeHit, HoldingSteps
<1>13. ASSUME NEW w \in Workers, RunPipeline(w) PROVE TypeInv'
  BY <1>9, <1>13 DEF RunPipeline, HoldingSteps
<1>14. ASSUME NEW w \in Workers, Finalize(w) PROVE TypeInv'
  BY <1>9, <1>10, <1>14 DEF Finalize, HoldingSteps
<1>15. ASSUME NEW w \in Workers, Release(w) PROVE TypeInv'
  <2>1. bucket[w] \in Buckets
    BY <1>15 DEF Release, BucketAssigned, AssignedSteps, HoldingSteps
  <2>2. RefundBucket(w) \in Buckets
    BY <2>1, BucketParts DEF RefundBucket, TypeOK
  <2>3. count' \in [Buckets -> Nat] /\ foreign' \in [Buckets -> Nat]
    BY <1>15, <2>2 DEF Release, TypeOK
  <2> QED BY <1>15, <2>3, ReturnType DEF Release, TypeOK
<1>16. ASSUME NEW w \in Workers, Abort(w) PROVE TypeInv'
  BY <1>16, ReturnType DEF Abort, TypeOK
<1>17. ASSUME Administer PROVE TypeInv'
  <2>1. ASSUME NEW s \in Statuses \ {"absent"}, SetStatus(s) PROVE TypeInv'
    BY <2>1 DEF SetStatus, TypeOK, Statuses, BucketAssigned
  <2>2. ASSUME NEW d \in Days \cup {Never}, Renew(d) PROVE TypeInv'
    BY <2>2 DEF Renew, TypeOK, BucketAssigned
  <2>3. ASSUME NEW newLimit \in [Kinds -> Limits], SetQuota(newLimit) PROVE TypeInv'
    <3>1. peak' \in [Kinds -> Nat]
      BY <2>3 DEF SetQuota, TypeOK
    <3> QED BY <2>3, <3>1 DEF SetQuota, TypeOK, BucketAssigned
  <2>4. ASSUME DeleteTenant PROVE TypeInv'
    BY <2>4 DEF DeleteTenant, TypeOK, Statuses, BucketAssigned
  <2> QED BY <1>17, <2>1, <2>2, <2>3, <2>4 DEF Administer
<1>18. ASSUME Midnight PROVE TypeInv'
  BY <1>18 DEF Midnight, TypeOK, Days, BucketAssigned
<1>19. ASSUME UNCHANGED vars PROVE TypeInv'
  BY <1>19 DEF vars, TypeOK, BucketAssigned
<1> QED
  BY <1>1, <1>2, <1>3, <1>4, <1>5, <1>6, <1>7, <1>8, <1>11, <1>12, <1>13, <1>14,
     <1>15, <1>16, <1>17, <1>18, <1>19 DEF Next, Serve

\* The database rows, the clock and the locals of every request keep their
\* types whatever the workers and administrators do.
THEOREM TypeCorrect == Spec => []TypeOK
<1>1. TypeInv => TypeOK
  BY DEF TypeInv
<1> QED
  BY <1>1, TypeInit, TypeStep, PTL DEF Spec

-----------------------------------------------------------------------------
(* Counting the holders of a slot *)

\* The contribution of one request to the holders of a bucket.
Held(w, b) == IF w \in Holders(b) THEN 1 ELSE 0

\* A step of one request leaves the others where they are.
OthersStay(w) ==
  \A v \in Workers \ {w} : pc'[v] = pc[v] /\ bucket'[v] = bucket[v]

LEMMA HoldersFinite ==
  \A b : /\ IsFiniteSet(Holders(b)) /\ Cardinality(Holders(b)) \in Nat
         /\ IsFiniteSet(Holders(b)') /\ Cardinality(Holders(b)') \in Nat
<1> TAKE b
<1>1. Holders(b) \subseteq Workers /\ Holders(b)' \subseteq Workers
  BY DEF Holders
<1> QED
  BY <1>1, LedgerAssumption, FS_Subset, FS_CardinalityType DEF LedgerAssumption

LEMMA RemoveCount ==
  ASSUME NEW S, IsFiniteSet(S), NEW x
  PROVE  Cardinality(S \ {x}) = Cardinality(S) - IF x \in S THEN 1 ELSE 0
<1>1. Cardinality(S) \in Nat
  BY FS_CardinalityType
<1>2. Cardinality(S \ {x}) = IF x \in S THEN Cardinality(S) - 1 ELSE Cardinality(S)
  BY FS_RemoveElement
<1> QED
  BY <1>1, <1>2

\* The holders of a bucket change by what the moving request contributes.
LEMMA HoldersCount ==
  ASSUME NEW w \in Workers, NEW b, OthersStay(w)
  PROVE  Cardinality(Holders(b)') - Held(w, b)'
           = Cardinality(Holders(b)) - Held(w, b)
<1> DEFINE R == Holders(b) \ {w}
<1>1. R = Holders(b)' \ {w}
  BY DEF OthersStay, Holders
<1>2. IsFiniteSet(R) /\ Cardinality(R) \in Nat
  BY HoldersFinite, FS_Subset, FS_CardinalityType
<1>3. Cardinality(R) = Cardinality(Holders(b)) - Held(w, b)
  BY HoldersFinite, RemoveCount DEF Held
<1>4. Cardinality(R) = Cardinality(Holders(b)') - Held(w, b)'
  <2>1. Cardinality(Holders(b)' \ {w})
          = Cardinality(Holders(b)') - IF w \in Holders(b)' THEN 1 ELSE 0
    BY HoldersFinite, RemoveCount
  <2>2. Held(w, b)' = IF w \in Holders(b)' THEN 1 ELSE 0
    BY DEF Held
  <2> HIDE DEF R
  <2> QED BY <1>1, <2>1, <2>2
<1> HIDE DEF R
<1> QED
  BY <1>3, <1>4

LEMMA ReturnStay ==
  ASSUME TypeInv, NEW w \in Workers, Return(w)
  PROVE  /\ OthersStay(w) /\ pc'[w] = "idle"
         /\ \A b : Held(w, b)' = 0
BY DEF TypeInv, TypeOK, Return, Goto, OthersStay, Held, Holders, HoldingSteps

LEMMA GotoStay ==
  ASSUME TypeInv, NEW w \in Workers, NEW step, Goto(w, step), UNCHANGED bucket
  PROVE  /\ OthersStay(w) /\ pc'[w] = step
         /\ \A b : Held(w, b)' = IF step \in HoldingSteps /\ bucket[w] = b THEN 1 ELSE 0
BY DEF TypeInv, TypeOK, Goto, OthersStay, Held, Holders

LEMMA HeldHere ==
  ASSUME NEW w \in Workers, NEW b
  PROVE  Held(w, b) = IF pc[w] \in HoldingSteps /\ bucket[w] = b THEN 1 ELSE 0
BY DEF Held, Holders

-----------------------------------------------------------------------------
(* The ledger accounts for the work *)

LEMMA LedgerInit == Init => LedgerInv
<1> SUFFICES ASSUME Init PROVE LedgerInv
  OBVIOUS
<1>1. TypeInv
  BY TypeInit
<1>2. LockOwner /\ LockedTenantExists /\ SnapshotHolds
  BY LedgerAssumption DEF Init, LockOwner, LockedTenantExists, SnapshotHolds
<1>3. LimitWithinPeak /\ CountWithinPeak
  BY <1>1, BucketParts
  DEF Init, LimitWithinPeak, CountWithinPeak, TypeInv, TypeOK
<1>4. \A b : Cardinality(Holders(b)) = 0
  <2>1. \A b : Holders(b) = {}
    BY DEF Init, Holders, HoldingSteps
  <2> QED BY <2>1, FS_EmptySet
<1>5. NoSlotForgotten /\ ServedWithinQuota
  BY <1>1, <1>4, BucketParts
  DEF Init, NoSlotForgotten, ServedWithinQuota, TypeInv, TypeOK
<1> QED
  BY <1>1, <1>2, <1>3, <1>5 DEF LedgerInv, TypeInv

\* A step of a request outside its critical section that leaves every row and
\* every count of its work alone.
LEMMA QuietStep ==
  ASSUME LedgerInv, TypeInv', NEW w \in Workers, OthersStay(w),
         pc[w] # "decide", pc'[w] # "decide",
         limit' = limit, count' = count, lock' = lock, peak' = peak,
         foreign' = foreign, succeeded' = succeeded,
         status' = "absent" <=> status = "absent",
         \A v \in Workers \ {w} : lim'[v] = lim[v] /\ seen'[v] = seen[v],
         \A b \in Buckets : Held(w, b)' <= Held(w, b)
  PROVE  LedgerInv'
<1> USE DEF LedgerInv
<1>1. LockOwner' /\ LockedTenantExists'
  BY DEF LockOwner, LockedTenantExists, OthersStay
<1>2. SnapshotHolds'
  BY DEF SnapshotHolds, OthersStay
<1>3. LimitWithinPeak' /\ CountWithinPeak'
  BY DEF LimitWithinPeak, CountWithinPeak
<1>4. ASSUME NEW b \in Buckets
      PROVE  Cardinality(Holders(b)') <= Cardinality(Holders(b))
  <2>1. Held(w, b) \in {0, 1} /\ Held(w, b)' \in {0, 1}
    BY DEF Held
  <2> QED BY <2>1, HoldersCount, HoldersFinite
<1>5. ASSUME NEW b \in Buckets
      PROVE  /\ succeeded[b] \in Nat /\ count[b] \in Nat /\ foreign[b] \in Nat
             /\ peak[KindOf(b)] \in Nat
             /\ Cardinality(Holders(b)) \in Nat /\ Cardinality(Holders(b)') \in Nat
  BY BucketParts, HoldersFinite DEF TypeOK
<1>6. NoSlotForgotten' /\ ServedWithinQuota'
  BY <1>4, <1>5 DEF NoSlotForgotten, ServedWithinQuota
<1> QED
  BY <1>1, <1>2, <1>3, <1>6 DEF TypeInv

\* The counts of one bucket before and after a step, as numbers.
LEMMA Numbers ==
  ASSUME TypeOK, TypeOK', NEW b \in Buckets
  PROVE  /\ succeeded[b] \in Nat /\ count[b] \in Nat /\ foreign[b] \in Nat
         /\ succeeded'[b] \in Nat /\ count'[b] \in Nat /\ foreign'[b] \in Nat
         /\ KindOf(b) \in Kinds
         /\ peak[KindOf(b)] \in Nat /\ peak'[KindOf(b)] \in Nat
         /\ limit[KindOf(b)] \in Nat
         /\ Cardinality(Holders(b)) \in Nat /\ Cardinality(Holders(b)') \in Nat
BY BucketParts, HoldersFinite, LedgerAssumption DEF TypeOK

LEMMA LedgerStep == LedgerInv /\ [Next]_vars => LedgerInv'
<1> SUFFICES ASSUME LedgerInv, [Next]_vars PROVE LedgerInv'
  OBVIOUS
<1>0. TypeInv /\ TypeInv'
  BY TypeStep DEF LedgerInv, TypeInv
<1>a. TypeOK /\ TypeOK' /\ BucketAssigned /\ BucketAssigned'
  BY <1>0 DEF TypeInv
<1>b. ASSUME NEW w \in Workers, Return(w)
      PROVE  \A v \in Workers \ {w} : lim'[v] = lim[v] /\ seen'[v] = seen[v]
  BY <1>a, <1>b DEF Return, TypeOK
<1>c. ASSUME NEW w \in Workers, NEW b
      PROVE  Held(w, b) \in {0, 1}
  BY DEF Held
<1>1. ASSUME NEW w \in Workers, Begin(w) PROVE LedgerInv'
  BY <1>0, <1>1, <1>c, QuietStep, GotoStay DEF Begin, HoldingSteps
<1>2. ASSUME NEW w \in Workers, Lookup(w) PROVE LedgerInv'
  <2>1. CASE Return(w)
    BY <1>0, <1>2, <1>b, <1>c, <2>1, QuietStep, ReturnStay DEF Lookup
  <2>2. CASE UNCHANGED locals /\ (Goto(w, "expire") \/ Goto(w, "sample"))
    BY <1>0, <1>2, <1>c, <2>2, QuietStep, GotoStay DEF Lookup, HoldingSteps
  <2> QED BY <1>2, <2>1, <2>2 DEF Lookup
<1>3. ASSUME NEW w \in Workers, ExpireTenant(w) PROVE LedgerInv'
  BY <1>0, <1>3, <1>b, <1>c, QuietStep, ReturnStay DEF ExpireTenant
<1>4. ASSUME NEW w \in Workers, NEW k \in Kinds, SampleDay(w, k) PROVE LedgerInv'
  <2>1. OthersStay(w) /\ pc'[w] = "check"
    BY <1>a, <1>4 DEF SampleDay, Goto, OthersStay, TypeOK
  <2>2. \A b : Held(w, b)' = 0
    BY <2>1 DEF Held, Holders, HoldingSteps
  <2> QED BY <1>0, <1>4, <1>c, <2>1, <2>2, QuietStep DEF SampleDay
<1>5. ASSUME NEW w \in Workers, CheckStatus(w) PROVE LedgerInv'
  <2>1. CASE Return(w)
    BY <1>0, <1>5, <1>b, <1>c, <2>1, QuietStep, ReturnStay DEF CheckStatus
  <2>2. CASE Goto(w, "lock") /\ UNCHANGED locals
    BY <1>0, <1>5, <1>c, <2>2, QuietStep, GotoStay DEF CheckStatus, HoldingSteps
  <2> QED BY <1>5, <2>1, <2>2 DEF CheckStatus
<1>6. ASSUME NEW w \in Workers, LockQuota(w) PROVE LedgerInv'
  <2>1. CASE Return(w) /\ UNCHANGED lock
    BY <1>0, <1>6, <1>b, <1>c, <2>1, QuietStep, ReturnStay DEF LockQuota
  <2>2. CASE /\ status # "absent"
             /\ lock' = w
             /\ lim' = [lim EXCEPT ![w] = limit[KindOf(bucket[w])]]
             /\ seen' = [seen EXCEPT ![w] = count[bucket[w]]]
             /\ Goto(w, "decide")
             /\ UNCHANGED bucket
    <3>1. OthersStay(w) /\ pc'[w] = "decide" /\ \A b : Held(w, b)' = 0
      BY <1>0, <2>2, GotoStay DEF HoldingSteps
    <3>2. \A v \in Workers : pc[v] # "decide"
      BY <1>6, LedgerAssumption DEF LedgerInv, LockOwner, LockQuota
    <3>3. LockOwner' /\ LockedTenantExists'
      BY <1>6, <2>2, <3>1, <3>2, LedgerAssumption
      DEF LockQuota, LockOwner, LockedTenantExists, OthersStay
    <3>4. bucket[w] \in Buckets /\ count[bucket[w]] \in Nat
      BY <1>a, <1>6 DEF LockQuota, BucketAssigned, AssignedSteps, TypeOK
    <3>5. lim'[w] = limit[KindOf(bucket[w])] /\ seen'[w] = count[bucket[w]]
      BY <1>a, <2>2 DEF TypeOK
    <3>6. SnapshotHolds'
      BY <1>6, <2>2, <3>1, <3>2, <3>4, <3>5 DEF LockQuota, SnapshotHolds, OthersStay
    <3>7. \A b \in Buckets : Cardinality(Holders(b)') = Cardinality(Holders(b))
      BY <1>6, <3>1, HoldersCount, HoldersFinite, HeldHere DEF LockQuota, HoldingSteps
    <3> QED
      BY <1>a, <1>6, <3>3, <3>6, <3>7
      DEF LedgerInv, LockQuota, LimitWithinPeak, CountWithinPeak,
          NoSlotForgotten, ServedWithinQuota
  <2> QED BY <1>6, <2>1, <2>2 DEF LockQuota
<1>7. ASSUME NEW w \in Workers, Admit(w) PROVE LedgerInv'
  <2> DEFINE own == bucket[w]
  <2>1. own \in Buckets /\ status # "absent" /\ lock = w
    BY <1>7, LedgerAssumption
    DEF Admit, LedgerInv, BucketAssigned, AssignedSteps, LockOwner, LockedTenantExists
  <2>2. PICK step \in {"cache", "pipeline"} : Goto(w, step)
    BY <1>7 DEF Admit
  <2>3. /\ OthersStay(w) /\ pc'[w] = step /\ step \in HoldingSteps
        /\ \A b : Held(w, b)' = IF own = b THEN 1 ELSE 0
    BY <1>0, <1>7, <2>2, GotoStay DEF Admit, HoldingSteps
  <2>4. \A v \in Workers : pc'[v] # "decide"
    <3>1. \A v \in Workers \ {w} : pc[v] # "decide"
      BY <2>1 DEF LedgerInv, LockOwner
    <3> QED BY <2>2, <2>3, <3>1 DEF OthersStay
  <2>5. LockOwner' /\ LockedTenantExists' /\ SnapshotHolds'
    BY <1>7, <2>4, LedgerAssumption
    DEF Admit, LockOwner, LockedTenantExists, SnapshotHolds
  <2>6. LimitWithinPeak'
    BY <1>7 DEF Admit, LedgerInv, LimitWithinPeak
  <2>7. ASSUME NEW b \in Buckets
        PROVE  /\ Cardinality(Holders(b)')
                    = Cardinality(Holders(b)) + IF own = b THEN 1 ELSE 0
               /\ count'[b] = count[b] + IF own = b THEN 1 ELSE 0
    <3>1. Held(w, b) = 0
      BY <1>7, HeldHere DEF Admit, HoldingSteps
    <3>2. Cardinality(Holders(b)') - Held(w, b)' = Cardinality(Holders(b)) - Held(w, b)
      BY <2>3, HoldersCount
    <3>3. count'[b] = count[b] + IF own = b THEN 1 ELSE 0
      BY <1>7, <1>a, <2>1 DEF Admit, TypeOK
    <3> QED BY <2>3, <3>1, <3>2, <3>3, HoldersFinite
  <2>8. count[own] + 1 <= peak[KindOf(own)]
    <3>1. /\ seen[w] < lim[w] /\ lim[w] = limit[KindOf(own)] /\ count[own] <= seen[w]
          /\ limit[KindOf(own)] <= peak[KindOf(own)]
      BY <1>7, <2>1, BucketParts DEF Admit, LedgerInv, SnapshotHolds, LimitWithinPeak
    <3>2. seen[w] \in Nat /\ lim[w] \in Nat
      BY <1>a DEF TypeOK
    <3> QED BY <1>a, <2>1, <3>1, <3>2, Numbers
  <2>9. CountWithinPeak' /\ NoSlotForgotten' /\ ServedWithinQuota'
    <3> SUFFICES ASSUME NEW b \in Buckets
                 PROVE  /\ count'[b] <= peak'[KindOf(b)]
                        /\ succeeded'[b] + Cardinality(Holders(b)') <= count'[b] + foreign'[b]
                        /\ succeeded'[b] + Cardinality(Holders(b)') <= peak'[KindOf(b)] + foreign'[b]
      BY DEF CountWithinPeak, NoSlotForgotten, ServedWithinQuota
    <3>1. /\ count[b] <= peak[KindOf(b)]
          /\ succeeded[b] + Cardinality(Holders(b)) <= count[b] + foreign[b]
          /\ succeeded[b] + Cardinality(Holders(b)) <= peak[KindOf(b)] + foreign[b]
      BY <2>1 DEF LedgerInv, CountWithinPeak, NoSlotForgotten, ServedWithinQuota
    <3>2. peak' = peak /\ foreign' = foreign /\ succeeded' = succeeded
      BY <1>7 DEF Admit
    <3> HIDE DEF own
    <3>3. CASE own = b
      BY <1>a, <2>7, <2>8, <3>1, <3>2, <3>3, Numbers
    <3>4. CASE own # b
      BY <1>a, <2>7, <3>1, <3>2, <3>4, Numbers
    <3> QED BY <3>3, <3>4
  <2> QED BY <1>a, <2>5, <2>6, <2>9 DEF LedgerInv
<1>8. ASSUME NEW w \in Workers, pc[w] = "decide", lock' = NoWorker, Return(w),
             UNCHANGED <<rows, today, history>>
      PROVE  LedgerInv'
  <2>1. lock = w
    BY <1>8 DEF LedgerInv, LockOwner
  <2>2. OthersStay(w) /\ pc'[w] = "idle" /\ \A b : Held(w, b)' = 0
    BY <1>0, <1>8, ReturnStay
  <2>3. \A v \in Workers : pc'[v] # "decide"
    BY <2>1, <2>2 DEF LedgerInv, LockOwner, OthersStay
  <2>4. LockOwner' /\ LockedTenantExists' /\ SnapshotHolds'
    BY <1>8, <2>3, LedgerAssumption DEF LockOwner, LockedTenantExists, SnapshotHolds
  <2>5. \A b : Held(w, b) = 0
    BY <1>8, HeldHere DEF HoldingSteps
  <2>6. \A b \in Buckets : Cardinality(Holders(b)') = Cardinality(Holders(b))
    BY <2>2, <2>5, HoldersCount, HoldersFinite
  <2> QED
    BY <1>a, <1>8, <2>4, <2>6
    DEF LedgerInv, LimitWithinPeak, CountWithinPeak, NoSlotForgotten, ServedWithinQuota
<1>9. ASSUME NEW w \in Workers, NEW step \in HoldingSteps, pc[w] \in HoldingSteps,
             Goto(w, step), UNCHANGED <<rows, lock, today, locals, history>>
      PROVE  LedgerInv'
  <2>1. OthersStay(w) /\ pc'[w] = step
    BY <1>0, <1>9, GotoStay
  <2>2. \A b : Held(w, b)' = Held(w, b)
    BY <1>0, <1>9, GotoStay, HeldHere
  <2>3. pc[w] # "decide" /\ step # "decide"
    BY <1>9 DEF HoldingSteps
  <2> QED BY <1>0, <1>9, <1>c, <2>1, <2>2, <2>3, QuietStep
<1>10. ASSUME NEW w \in Workers, pc[w] \in HoldingSteps, Succeed(w) PROVE LedgerInv'
  <2> DEFINE own == bucket[w]
  <2>1. own \in Buckets /\ pc[w] # "decide"
    BY <1>a, <1>10 DEF BucketAssigned, AssignedSteps, HoldingSteps
  <2>2. OthersStay(w) /\ pc'[w] = "idle" /\ \A b : Held(w, b)' = 0
    BY <1>0, <1>10, ReturnStay DEF Succeed
  <2>3. LockOwner' /\ LockedTenantExists'
    BY <1>10, <2>1, <2>2
    DEF Succeed, LedgerInv, LockOwner, LockedTenantExists, OthersStay
  <2>4. SnapshotHolds'
    BY <1>10, <1>b, <2>2 DEF Succeed, LedgerInv, SnapshotHolds, OthersStay
  <2>5. ASSUME NEW b \in Buckets
        PROVE  succeeded'[b] + Cardinality(Holders(b)')
                 = succeeded[b] + Cardinality(Holders(b))
    <3>1. Held(w, b) = IF own = b THEN 1 ELSE 0
      BY <1>10, HeldHere
    <3>2. succeeded'[b] = succeeded[b] + IF own = b THEN 1 ELSE 0
      BY <1>a, <1>10, <2>1 DEF Succeed, TypeOK
    <3>3. Cardinality(Holders(b)') - Held(w, b)' = Cardinality(Holders(b)) - Held(w, b)
      BY <2>2, HoldersCount
    <3> HIDE DEF own
    <3> QED BY <1>a, <2>2, <3>1, <3>2, <3>3, Numbers
  <2>6. NoSlotForgotten' /\ ServedWithinQuota'
    BY <1>10, <2>5 DEF Succeed, LedgerInv, NoSlotForgotten, ServedWithinQuota
  <2> QED
    BY <1>a, <1>10, <2>3, <2>4, <2>6
    DEF Succeed, LedgerInv, LimitWithinPeak, CountWithinPeak
<1>11. ASSUME NEW w \in Workers, ConsultCache(w) PROVE LedgerInv'
  BY <1>9, <1>11 DEF ConsultCache, HoldingSteps
<1>12. ASSUME NEW w \in Workers, FinalizeHit(w) PROVE LedgerInv'
  BY <1>9, <1>10, <1>12 DEF FinalizeHit, HoldingSteps
<1>13. ASSUME NEW w \in Workers, RunPipeline(w) PROVE LedgerInv'
  BY <1>9, <1>13 DEF RunPipeline, HoldingSteps
<1>14. ASSUME NEW w \in Workers, Finalize(w) PROVE LedgerInv'
  BY <1>9, <1>10, <1>14 DEF Finalize, HoldingSteps
<1>15. ASSUME NEW w \in Workers, Release(w) PROVE LedgerInv'
  <2> DEFINE own == bucket[w]
             refund == RefundBucket(w)
  <2>1. own \in Buckets /\ pc[w] # "decide"
    BY <1>a, <1>15 DEF Release, BucketAssigned, AssignedSteps, HoldingSteps
  <2>2. refund \in Buckets /\ KindOf(refund) = KindOf(own) /\ DayOf(refund) = today
    BY <1>a, <2>1, BucketParts DEF RefundBucket, TypeOK
  <2>3. DayOf(own) = today => refund = own
    BY <1>a, <2>1 DEF RefundBucket, DayOf, KindOf, Buckets
  <2>4. OthersStay(w) /\ pc'[w] = "idle" /\ \A b : Held(w, b)' = 0
    BY <1>0, <1>15, ReturnStay DEF Release
  <2>5. LockOwner' /\ LockedTenantExists'
    BY <1>15, <2>1, <2>4
    DEF Release, LedgerInv, LockOwner, LockedTenantExists, OthersStay
  <2>6. ASSUME NEW b \in Buckets
        PROVE  /\ Cardinality(Holders(b)')
                    = Cardinality(Holders(b)) - IF own = b THEN 1 ELSE 0
               /\ count'[b] = IF refund = b /\ count[b] > 0 THEN count[b] - 1 ELSE count[b]
               /\ foreign'[b] = foreign[b]
                    + IF refund = b /\ DayOf(own) # today THEN 1 ELSE 0
    <3>1. Held(w, b) = IF own = b THEN 1 ELSE 0
      BY <1>15, HeldHere DEF Release, HoldingSteps
    <3>2. Cardinality(Holders(b)') - Held(w, b)' = Cardinality(Holders(b)) - Held(w, b)
      BY <2>4, HoldersCount
    <3>3. count'[b] = IF refund = b /\ count[b] > 0 THEN count[b] - 1 ELSE count[b]
      BY <1>a, <1>15, <2>2 DEF Release, TypeOK
    <3>4. foreign'[b] = foreign[b] + IF refund = b /\ DayOf(own) # today THEN 1 ELSE 0
      BY <1>a, <1>15, <2>2 DEF Release, TypeOK
    <3> HIDE DEF own, refund
    <3> QED BY <2>4, <3>1, <3>2, <3>3, <3>4, HoldersFinite
  <2>7. \A b \in Buckets : count'[b] <= count[b]
    BY <1>a, <2>6, Numbers
  <2>8. SnapshotHolds'
    <3> SUFFICES ASSUME NEW v \in Workers, pc'[v] = "decide"
                 PROVE  lim'[v] = limit'[KindOf(bucket'[v])] /\ count'[bucket'[v]] <= seen'[v]
      BY DEF SnapshotHolds
    <3>1. v # w /\ pc[v] = "decide" /\ bucket'[v] = bucket[v]
      BY <2>4 DEF OthersStay
    <3>2. lim'[v] = lim[v] /\ seen'[v] = seen[v] /\ limit' = limit
      BY <1>15, <1>b, <3>1 DEF Release
    <3>3. lim[v] = limit[KindOf(bucket[v])] /\ count[bucket[v]] <= seen[v]
      BY <3>1 DEF LedgerInv, SnapshotHolds
    <3>4. bucket[v] \in Buckets /\ seen[v] \in Nat
      BY <1>a, <3>1 DEF BucketAssigned, AssignedSteps, TypeOK
    <3>5. count'[bucket[v]] <= count[bucket[v]]
      BY <2>7, <3>4
    <3> QED BY <1>a, <3>1, <3>2, <3>3, <3>4, <3>5, Numbers
  <2>9. ASSUME NEW b \in Buckets
        PROVE  /\ count'[b] <= peak'[KindOf(b)]
               /\ status' # "absent" =>
                    succeeded'[b] + Cardinality(Holders(b)') <= count'[b] + foreign'[b]
               /\ succeeded'[b] + Cardinality(Holders(b)') <= peak'[KindOf(b)] + foreign'[b]
    <3>1. /\ count[b] <= peak[KindOf(b)]
          /\ status # "absent" =>
               succeeded[b] + Cardinality(Holders(b)) <= count[b] + foreign[b]
          /\ succeeded[b] + Cardinality(Holders(b)) <= peak[KindOf(b)] + foreign[b]
      BY DEF LedgerInv, CountWithinPeak, NoSlotForgotten, ServedWithinQuota
    <3>2. peak' = peak /\ succeeded' = succeeded /\ status' = status
      BY <1>15 DEF Release
    <3> HIDE DEF own, refund
    <3>3. CASE refund = b /\ DayOf(own) = today
      BY <1>a, <2>3, <2>6, <3>1, <3>2, <3>3, Numbers
    <3>4. CASE refund = b /\ DayOf(own) # today
      BY <1>a, <2>6, <3>1, <3>2, <3>4, Numbers
    <3>5. CASE refund # b
      BY <1>a, <2>6, <3>1, <3>2, <3>5, Numbers
    <3> QED BY <3>3, <3>4, <3>5
  <2>10. LimitWithinPeak'
    BY <1>15 DEF Release, LedgerInv, LimitWithinPeak
  <2> QED
    BY <1>a, <2>5, <2>8, <2>9, <2>10
    DEF LedgerInv, CountWithinPeak, NoSlotForgotten, ServedWithinQuota
<1>16. ASSUME NEW w \in Workers, Abort(w) PROVE LedgerInv'
  <2>1. CASE pc[w] = "decide"
    BY <1>8, <1>16, <2>1 DEF Abort, LedgerInv, LockOwner
  <2>2. CASE pc[w] # "decide"
    <3>1. lock' = lock
      BY <1>16, <2>2 DEF Abort, LedgerInv, LockOwner
    <3> QED
      BY <1>0, <1>16, <1>b, <1>c, <2>2, <3>1, QuietStep, ReturnStay DEF Abort
  <2> QED BY <2>1, <2>2
<1>17. ASSUME UNCHANGED <<pc, locals>>, UNCHANGED <<lock, foreign, succeeded>>,
              status' = "absent" <=> status = "absent",
              UNCHANGED <<limit, count, peak>>
       PROVE  LedgerInv'
  <2>1. \A b : Holders(b)' = Holders(b)
    BY <1>17 DEF Holders
  <2> QED
    BY <1>a, <1>17, <2>1
    DEF LedgerInv, LockOwner, LockedTenantExists, SnapshotHolds,
        LimitWithinPeak, CountWithinPeak, NoSlotForgotten, ServedWithinQuota
<1>18. ASSUME NEW newLimit \in [Kinds -> Limits], SetQuota(newLimit) PROVE LedgerInv'
  <2>1. \A b : Holders(b)' = Holders(b)
    BY <1>18 DEF SetQuota, Holders
  <2>2. \A k \in Kinds : peak'[k] >= peak[k] /\ peak'[k] >= limit'[k]
    <3> SUFFICES ASSUME NEW k \in Kinds PROVE peak'[k] >= peak[k] /\ peak'[k] >= limit'[k]
      OBVIOUS
    <3>1. newLimit[k] \in Nat /\ peak[k] \in Nat
      BY <1>a, LedgerAssumption DEF TypeOK
    <3>2. peak'[k] = IF newLimit[k] > peak[k] THEN newLimit[k] ELSE peak[k]
      BY <1>18 DEF SetQuota
    <3> QED BY <1>18, <3>1, <3>2 DEF SetQuota
  <2>3. LockOwner' /\ LockedTenantExists' /\ SnapshotHolds'
    BY <1>18, LedgerAssumption
    DEF SetQuota, LedgerInv, LockOwner, LockedTenantExists, SnapshotHolds
  <2>4. LimitWithinPeak'
    BY <1>a, <2>2, LedgerAssumption DEF LimitWithinPeak, TypeOK
  <2>5. ASSUME NEW b \in Buckets
        PROVE  /\ count'[b] <= peak'[KindOf(b)]
               /\ status' # "absent" =>
                    succeeded'[b] + Cardinality(Holders(b)') <= count'[b] + foreign'[b]
               /\ succeeded'[b] + Cardinality(Holders(b)') <= peak'[KindOf(b)] + foreign'[b]
    <3>1. /\ count[b] <= peak[KindOf(b)]
          /\ status # "absent" =>
               succeeded[b] + Cardinality(Holders(b)) <= count[b] + foreign[b]
          /\ succeeded[b] + Cardinality(Holders(b)) <= peak[KindOf(b)] + foreign[b]
      BY DEF LedgerInv, CountWithinPeak, NoSlotForgotten, ServedWithinQuota
    <3>2. /\ succeeded' = succeeded /\ status' = status /\ count' = count
          /\ foreign' = foreign
      BY <1>18 DEF SetQuota
    <3>3. peak'[KindOf(b)] >= peak[KindOf(b)]
      BY <2>2, BucketParts
    <3> QED BY <1>a, <2>1, <3>1, <3>2, <3>3, Numbers
  <2> QED
    BY <1>a, <2>3, <2>4, <2>5
    DEF LedgerInv, CountWithinPeak, NoSlotForgotten, ServedWithinQuota
<1>19. ASSUME DeleteTenant PROVE LedgerInv'
  <2>1. \A b : Holders(b)' = Holders(b)
    BY <1>19 DEF DeleteTenant, Holders
  <2>2. LockOwner' /\ LockedTenantExists'
    BY <1>19, LedgerAssumption
    DEF DeleteTenant, LedgerInv, LockOwner, LockedTenantExists
  <2>3. SnapshotHolds'
    BY <1>19, LedgerAssumption
    DEF DeleteTenant, LedgerInv, LockOwner, SnapshotHolds
  <2>4. CountWithinPeak'
    BY <1>a, <1>19, Numbers DEF DeleteTenant, CountWithinPeak
  <2>5. NoSlotForgotten' /\ ServedWithinQuota' /\ LimitWithinPeak'
    BY <1>19, <2>1
    DEF DeleteTenant, LedgerInv, NoSlotForgotten, ServedWithinQuota, LimitWithinPeak
  <2> QED BY <1>a, <2>2, <2>3, <2>4, <2>5 DEF LedgerInv
<1>20. ASSUME Administer PROVE LedgerInv'
  <2>1. ASSUME NEW s \in Statuses \ {"absent"}, SetStatus(s) PROVE LedgerInv'
    BY <1>17, <2>1 DEF SetStatus
  <2>2. ASSUME NEW d \in Days \cup {Never}, Renew(d) PROVE LedgerInv'
    BY <1>17, <2>2 DEF Renew
  <2> QED BY <1>18, <1>19, <1>20, <2>1, <2>2 DEF Administer
<1>21. ASSUME NEW w \in Workers, Refuse(w) PROVE LedgerInv'
  BY <1>8, <1>21 DEF Refuse
<1>22. ASSUME Midnight \/ UNCHANGED vars PROVE LedgerInv'
  BY <1>17, <1>22 DEF Midnight, vars
<1> QED
  BY <1>1, <1>2, <1>3, <1>4, <1>5, <1>6, <1>7, <1>10, <1>11, <1>12, <1>13, <1>14,
     <1>15, <1>16, <1>20, <1>21, <1>22 DEF Next, Serve

\* The whole inductive invariant holds of the ledger: one worker at most holds
\* the quota row, every worker past the admission holds a slot of the day it was
\* admitted on, and the counters account for all of them.
THEOREM LedgerInvariant == Spec => []LedgerInv
BY LedgerInit, LedgerStep, PTL DEF Spec

\* No counter of tenant_usage exceeds the highest quota its kind ever had: the
\* row lock taken before the counter is read is enough to make the test and
\* the upsert one step, for any number of workers.
THEOREM CountBounded == Spec => []CountWithinPeak
<1>1. LedgerInv => CountWithinPeak
  BY DEF LedgerInv
<1> QED
  BY <1>1, LedgerInvariant, PTL

\* A failed request gives back no slot but its own, unless midnight passed: no
\* path through the cache, the pipeline and the finalization refunds twice.
THEOREM SlotsAccounted == Spec => []NoSlotForgotten
<1>1. LedgerInv => NoSlotForgotten
  BY DEF LedgerInv
<1> QED
  BY <1>1, LedgerInvariant, PTL

\* A day's work exceeds the quota by at most the refunds that crossed midnight.
THEOREM OvershootBounded == Spec => []ServedWithinQuota
<1>1. LedgerInv => ServedWithinQuota
  BY DEF LedgerInv
<1> QED
  BY <1>1, LedgerInvariant, PTL

-----------------------------------------------------------------------------
(* The transaction implements an indivisible admission *)

USE DEF Quota!aqVars

LEMMA QuotaInit == Init => Quota!AInit
BY LedgerAssumption DEF Init, Quota!AInit

LEMMA QuotaStep == LedgerInv /\ LedgerInv' /\ [Next]_vars => [Quota!ANext]_(Quota!aqVars)
<1> SUFFICES ASSUME LedgerInv, LedgerInv', [Next]_vars
             PROVE  [Quota!ANext]_(Quota!aqVars)
  OBVIOUS
<1>a. TypeOK /\ TypeOK' /\ BucketAssigned
  BY DEF LedgerInv
<1>1. ASSUME NEW w \in Workers, Admit(w) PROVE Quota!ANext
  <2>1. bucket[w] \in Buckets
    BY <1>1, <1>a DEF Admit, BucketAssigned, AssignedSteps
  <2>2. count[bucket[w]] < limit[KindOf(bucket[w])]
    <3>1. seen[w] < lim[w] /\ lim[w] = limit[KindOf(bucket[w])] /\ count[bucket[w]] <= seen[w]
      BY <1>1 DEF Admit, LedgerInv, SnapshotHolds
    <3>2. seen[w] \in Nat /\ lim[w] \in Nat /\ count[bucket[w]] \in Nat
      BY <1>a, <2>1 DEF TypeOK
    <3> QED BY <3>1, <3>2
  <2>3. Quota!Admit(bucket[w])
    BY <1>1, <2>2 DEF Admit, Quota!Admit
  <2> QED BY <2>1, <2>3 DEF Quota!ANext
<1>2. ASSUME NEW w \in Workers, Release(w) PROVE [Quota!ANext]_(Quota!aqVars)
  <2> DEFINE refund == RefundBucket(w)
  <2>1. refund \in Buckets
    BY <1>2, <1>a, BucketParts
    DEF Release, RefundBucket, BucketAssigned, AssignedSteps, HoldingSteps, TypeOK
  <2>2. /\ count' = [count EXCEPT ![refund] = IF @ > 0 THEN @ - 1 ELSE 0]
        /\ UNCHANGED limit
    BY <1>2 DEF Release
  <2>3. count \in [Buckets -> Nat]
    BY <1>a DEF TypeOK
  <2> HIDE DEF refund
  <2>4. CASE count[refund] > 0
    <3>1. Quota!Restore(refund)
      BY <2>2, <2>4 DEF Quota!Restore
    <3> QED BY <2>1, <3>1 DEF Quota!ANext
  <2>5. CASE ~(count[refund] > 0)
    <3>1. count[refund] = 0
      BY <2>1, <2>3, <2>5
    <3>2. count' = count
      BY <2>2, <2>3, <3>1
    <3> QED BY <2>2, <3>2
  <2> QED BY <2>4, <2>5
<1>3. ASSUME Administer PROVE [Quota!ANext]_(Quota!aqVars)
  <2>1. ASSUME NEW newLimit \in [Kinds -> Limits], SetQuota(newLimit) PROVE Quota!ANext
    <3>1. Quota!Requota
      BY <2>1, LedgerAssumption DEF SetQuota, Quota!Requota
    <3> QED BY <3>1 DEF Quota!ANext
  <2>2. ASSUME DeleteTenant PROVE Quota!ANext
    BY <2>2 DEF DeleteTenant, Quota!ANext, Quota!Drop
  <2> QED BY <1>3, <2>1, <2>2 DEF Administer, SetStatus, Renew
<1>4. ASSUME UNCHANGED rows PROVE [Quota!ANext]_(Quota!aqVars)
  BY <1>4
<1>5. ASSUME NEW w \in Workers, FinalizeHit(w) \/ Finalize(w) PROVE UNCHANGED rows
  BY <1>5 DEF FinalizeHit, Finalize, Succeed
<1>6. ASSUME NEW w \in Workers, Serve(w), ~Admit(w), ~Release(w)
      PROVE  UNCHANGED <<count, limit>>
  BY <1>5, <1>6
  DEF Serve, Lookup, ExpireTenant, SampleDay, CheckStatus, LockQuota, Refuse,
      ConsultCache, RunPipeline
<1>7. ASSUME NEW w \in Workers, Begin(w) \/ Abort(w) PROVE UNCHANGED rows
  BY <1>7 DEF Begin, Abort
<1>8. ASSUME Midnight \/ UNCHANGED vars PROVE UNCHANGED rows
  BY <1>8 DEF Midnight, vars
<1> QED
  BY <1>1, <1>2, <1>3, <1>4, <1>6, <1>7, <1>8 DEF Next

\* Admissions, refunds, quota changes and deletions of concurrent requests have
\* the effect of indivisible operations on the counters, in some order.
THEOREM LedgerImplementsQuota == Spec => ImplementsAtomicQuota
<1>1. ImplementsAtomicQuota <=> Quota!AInit /\ [][Quota!ANext]_(Quota!aqVars)
  BY DEF ImplementsAtomicQuota, Quota!ASpec
<1> QED
  BY <1>1, QuotaInit, QuotaStep, LedgerInvariant, PTL DEF Spec

-----------------------------------------------------------------------------
(* How many refunds can cross midnight *)

\* The requests whose sample of the clock is older than day d.
Crossing(d) ==
  {w \in Workers : pc[w] \in AssignedSteps /\ DayOf(bucket[w]) < d}

\* No request knows a day that has not begun.
NoFuture ==
  \A w \in Workers : pc[w] \in AssignedSteps => DayOf(bucket[w]) <= today

\* A refund that crosses into today uses up one request that was in flight at
\* midnight, and no request begins in the past.
ForeignInv ==
  /\ TypeInv /\ NoFuture
  /\ \A b \in Buckets :
       /\ DayOf(b) > today => foreign[b] = 0
       /\ DayOf(b) = today =>
            foreign[b] + Cardinality(Crossing(today)) <= Cardinality(Workers)
       /\ DayOf(b) < today => foreign[b] <= Cardinality(Workers)

LEMMA CrossingFinite ==
  ASSUME NEW d
  PROVE  /\ IsFiniteSet(Crossing(d)) /\ Cardinality(Crossing(d)) \in Nat
         /\ Cardinality(Crossing(d)) <= Cardinality(Workers)
         /\ Cardinality(Workers) \in Nat
<1>1. Crossing(d) \subseteq Workers
  BY DEF Crossing
<1> QED
  BY <1>1, LedgerAssumption, FS_Subset, FS_CardinalityType DEF LedgerAssumption

LEMMA CrossingFinitePrimed ==
  ASSUME NEW d
  PROVE  /\ IsFiniteSet(Crossing(d)') /\ Cardinality(Crossing(d)') \in Nat
         /\ Cardinality(Crossing(d)') <= Cardinality(Workers)
<1>1. Crossing(d)' \subseteq Workers
  BY DEF Crossing
<1> QED
  BY <1>1, LedgerAssumption, FS_Subset, FS_CardinalityType DEF LedgerAssumption

LEMMA ForeignInit == Init => ForeignInv
<1> SUFFICES ASSUME Init PROVE ForeignInv
  OBVIOUS
<1>1. TypeInv
  BY TypeInit
<1> QED
  BY <1>1, CrossingFinite DEF Init, ForeignInv, NoFuture, AssignedSteps, HoldingSteps

LEMMA ForeignStep == ForeignInv /\ [Next]_vars => ForeignInv'
<1> SUFFICES ASSUME ForeignInv, [Next]_vars PROVE ForeignInv'
  OBVIOUS
<1>0. TypeInv /\ TypeInv'
  BY TypeStep DEF ForeignInv
<1>a. TypeOK /\ TypeOK' /\ BucketAssigned /\ BucketAssigned'
  BY <1>0 DEF TypeInv
<1>b. today \in Nat /\ today' \in Nat /\ \A b \in Buckets :
        DayOf(b) \in Nat /\ foreign[b] \in Nat /\ foreign'[b] \in Nat
  BY <1>a, BucketParts, LedgerAssumption DEF TypeOK, Days
<1>1. ASSUME UNCHANGED <<today, foreign>>, Crossing(today)' \subseteq Crossing(today),
             NoFuture'
      PROVE  ForeignInv'
  <2>1. Cardinality(Crossing(today)') <= Cardinality(Crossing(today))
    BY <1>1, CrossingFinite, FS_Subset
  <2> QED
    BY <1>0, <1>1, <1>b, <2>1, CrossingFinite, CrossingFinitePrimed DEF ForeignInv
<1>2. ASSUME NEW w \in Workers, Return(w), UNCHANGED <<today, foreign>>
      PROVE  ForeignInv'
  <2>1. OthersStay(w) /\ pc'[w] = "idle"
    BY <1>0, <1>2, ReturnStay
  <2>2. Crossing(today)' \subseteq Crossing(today)
    BY <1>2, <2>1 DEF Crossing, OthersStay, AssignedSteps, HoldingSteps
  <2>3. NoFuture'
    BY <1>2, <2>1 DEF ForeignInv, NoFuture, OthersStay, AssignedSteps, HoldingSteps
  <2> QED BY <1>1, <1>2, <2>2, <2>3
<1>3. ASSUME NEW w \in Workers, NEW step, Goto(w, step),
             step \in AssignedSteps => pc[w] \in AssignedSteps,
             UNCHANGED <<today, foreign, bucket>>
      PROVE  ForeignInv'
  <2>1. OthersStay(w) /\ pc'[w] = step
    BY <1>0, <1>3, GotoStay
  <2>2. Crossing(today)' \subseteq Crossing(today)
    BY <1>3, <2>1 DEF Crossing, OthersStay
  <2>3. NoFuture'
    BY <1>3, <2>1 DEF ForeignInv, NoFuture, OthersStay
  <2> QED BY <1>1, <1>3, <2>2, <2>3
<1>4. ASSUME NEW w \in Workers, NEW k \in Kinds, SampleDay(w, k) PROVE ForeignInv'
  <2>1. OthersStay(w)
    BY <1>a, <1>4 DEF SampleDay, Goto, OthersStay, TypeOK
  <2>2. bucket'[w] = <<k, today>> /\ DayOf(<<k, today>>) = today
    BY <1>a, <1>4, BucketParts DEF SampleDay, TypeOK
  <2>3. ~(today < today) /\ today' = today
    BY <1>b, <1>4 DEF SampleDay
  <2>4. Crossing(today)' \subseteq Crossing(today)
    BY <2>1, <2>2, <2>3 DEF Crossing, OthersStay
  <2>5. NoFuture'
    BY <1>b, <2>1, <2>2, <2>3 DEF ForeignInv, NoFuture, OthersStay
  <2> QED BY <1>1, <1>4, <2>4, <2>5 DEF SampleDay
<1>5. ASSUME NEW w \in Workers, Release(w) PROVE ForeignInv'
  <2> DEFINE refund == RefundBucket(w)
  <2>1. pc[w] \in AssignedSteps /\ bucket[w] \in Buckets
    BY <1>a, <1>5 DEF Release, BucketAssigned, AssignedSteps, HoldingSteps
  <2>2. refund \in Buckets /\ DayOf(refund) = today
    BY <1>a, <2>1, BucketParts DEF RefundBucket, TypeOK
  <2>3. OthersStay(w) /\ pc'[w] = "idle" /\ today' = today
    BY <1>0, <1>5, ReturnStay DEF Release
  <2>4. CASE DayOf(bucket[w]) = today
    BY <1>2, <1>5, <2>4 DEF Release
  <2>5. CASE DayOf(bucket[w]) < today
    <3>1. Crossing(today)' = Crossing(today) \ {w} /\ w \in Crossing(today)
      BY <2>1, <2>3, <2>5 DEF Crossing, OthersStay, AssignedSteps, HoldingSteps
    <3>2. Cardinality(Crossing(today)') = Cardinality(Crossing(today)) - 1
      BY <3>1, CrossingFinite, FS_RemoveElement
    <3>3. \A b \in Buckets : foreign'[b] = foreign[b] + IF b = refund THEN 1 ELSE 0
      BY <1>a, <1>5, <2>2, <2>5, <1>b DEF Release, TypeOK
    <3>4. NoFuture'
      BY <2>3 DEF ForeignInv, NoFuture, OthersStay, AssignedSteps, HoldingSteps
    <3> HIDE DEF refund
    <3> QED
      BY <1>0, <1>b, <2>2, <2>3, <3>2, <3>3, <3>4, CrossingFinite, CrossingFinitePrimed
      DEF ForeignInv
  <2>6. DayOf(bucket[w]) <= today
    BY <2>1 DEF ForeignInv, NoFuture
  <2> QED BY <1>b, <2>1, <2>4, <2>5, <2>6
<1>6. ASSUME Midnight PROVE ForeignInv'
  <2>1. today' = today + 1 /\ UNCHANGED <<foreign, pc, bucket>>
    BY <1>6 DEF Midnight
  <2>2. NoFuture'
    BY <1>a, <1>b, <2>1 DEF ForeignInv, NoFuture, BucketAssigned
  <2>3. ASSUME NEW b \in Buckets, DayOf(b) = today' PROVE foreign'[b] = 0
    BY <1>b, <2>1, <2>3 DEF ForeignInv
  <2>4. ASSUME NEW b \in Buckets, DayOf(b) < today' PROVE foreign'[b] <= Cardinality(Workers)
    <3>1. CASE DayOf(b) = today
      BY <1>b, <2>1, <3>1, CrossingFinite DEF ForeignInv
    <3>2. CASE DayOf(b) < today
      BY <2>1, <3>2 DEF ForeignInv
    <3> QED BY <1>b, <2>1, <2>4, <3>1, <3>2
  <2>5. ASSUME NEW b \in Buckets, DayOf(b) > today' PROVE foreign'[b] = 0
    BY <1>b, <2>1, <2>5 DEF ForeignInv
  <2>6. Cardinality(Crossing(today)') \in Nat
        /\ Cardinality(Crossing(today)') <= Cardinality(Workers)
    BY CrossingFinitePrimed
  <2> QED
    BY <1>0, <2>2, <2>3, <2>4, <2>5, <2>6, CrossingFinite DEF ForeignInv
<1>7. ASSUME NEW w \in Workers, Serve(w) PROVE ForeignInv'
  <2>1. CASE Lookup(w)
    BY <1>2, <1>3, <2>1 DEF Lookup, AssignedSteps, HoldingSteps
  <2>2. CASE ExpireTenant(w) \/ Refuse(w)
    BY <1>2, <2>2 DEF ExpireTenant, Refuse
  <2>3. CASE CheckStatus(w)
    BY <1>2, <1>3, <2>3 DEF CheckStatus, AssignedSteps
  <2>4. CASE LockQuota(w)
    BY <1>2, <1>3, <2>4 DEF LockQuota, AssignedSteps
  <2>5. CASE Admit(w)
    BY <1>3, <2>5 DEF Admit, AssignedSteps
  <2>6. CASE ConsultCache(w) \/ RunPipeline(w)
    BY <1>3, <2>6 DEF ConsultCache, RunPipeline, AssignedSteps, HoldingSteps
  <2>7. CASE FinalizeHit(w) \/ Finalize(w)
    BY <1>2, <1>3, <2>7 DEF FinalizeHit, Finalize, Succeed, AssignedSteps, HoldingSteps
  <2> QED BY <1>4, <1>5, <1>7, <2>1, <2>2, <2>3, <2>4, <2>5, <2>6, <2>7 DEF Serve
<1>8. ASSUME NEW w \in Workers, Begin(w) \/ Abort(w) PROVE ForeignInv'
  BY <1>2, <1>3, <1>8 DEF Begin, Abort, AssignedSteps, HoldingSteps
<1>9. ASSUME Administer \/ UNCHANGED vars PROVE ForeignInv'
  <2>1. UNCHANGED <<today, foreign, pc, bucket>>
    BY <1>9 DEF Administer, SetStatus, Renew, SetQuota, DeleteTenant, vars
  <2>2. Crossing(today)' = Crossing(today) /\ NoFuture'
    BY <2>1 DEF ForeignInv, NoFuture, Crossing
  <2> QED BY <1>1, <2>1, <2>2
<1> QED
  BY <1>6, <1>7, <1>8, <1>9 DEF Next

\* At most one refund per concurrent request lands on the counter of a day it
\* does not belong to, however many requests a day serves.
THEOREM CrossingsBounded == Spec => []ForeignBounded
<1>1. ForeignInv => ForeignBounded
  <2> SUFFICES ASSUME ForeignInv, NEW b \in Buckets
               PROVE  foreign[b] <= Cardinality(Workers)
    BY DEF ForeignBounded
  <2>1. today \in Nat /\ DayOf(b) \in Nat /\ foreign[b] \in Nat
    BY BucketParts, LedgerAssumption DEF ForeignInv, TypeInv, TypeOK, Days
  <2> QED BY <2>1, CrossingFinite DEF ForeignInv
<1> QED
  BY <1>1, ForeignInit, ForeignStep, PTL DEF Spec
=============================================================================
