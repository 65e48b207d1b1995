---------------------------- MODULE UsageLedger ----------------------------
(***************************************************************************)
(* The daily quota of one tenant and the requests that consume it.         *)
(*                                                                         *)
(* Workers are concurrent requests (RAGService.ingest_document and         *)
(* RAGService.query_documents), in one process or in several that share    *)
(* the PostgreSQL database.  Each looks the tenant up, reserves one slot   *)
(* of the day's counter, does its work outside any transaction, and then   *)
(* finalizes the slot or releases it.  Administrators change the tenant    *)
(* meanwhile and midnight passes.  One action is one statement or one      *)
(* transaction: what happens between two awaits of the code.               *)
(***************************************************************************)
EXTENDS Naturals, FiniteSets

CONSTANTS
  Workers,    \* concurrent requests
  NoWorker,   \* nobody holds the quota row
  Kinds,      \* the operations requested: "query", "document"
  LastDay,    \* bound: days are 1..LastDay
  Limits      \* bound: the quotas an administrator may set

ASSUME LedgerAssumption ==
  /\ IsFiniteSet(Workers)
  /\ NoWorker \notin Workers
  /\ Kinds \subseteq {"query", "document"}
  /\ LastDay \in Nat \ {0}
  /\ Limits \subseteq Nat
  /\ Limits # {}

Days == 1 .. LastDay
Never == LastDay + 1             \* expires_at is NULL
Buckets == Kinds \X Days         \* rows of tenant_usage, one counter each
KindOf(b) == b[1]
DayOf(b) == b[2]
NoBucket == <<"none", 0>>        \* a local not assigned yet

VARIABLES
  (* rows of the database *)
  status,     \* tenants.status, "absent" once the tenant is deleted
  expiresAt,  \* tenants.expires_at, a day
  limit,      \* tenant_quotas: limit[k]
  count,      \* tenant_usage: count[b]
  lock,       \* the transaction holding tenant_quotas FOR UPDATE
  (* the clock *)
  today,
  (* locals of each request *)
  pc, bucket, lim, seen,
  (* history, read by no action *)
  peak,       \* peak[k]: the highest quota kind k ever had
  foreign,    \* foreign[b]: refunds applied to b of slots of another day
  succeeded   \* succeeded[b]: slots of b whose request succeeded

rows == <<status, expiresAt, limit, count>>
locals == <<bucket, lim, seen>>
history == <<peak, foreign, succeeded>>
vars == <<rows, lock, today, pc, locals, history>>

\* "inactive" stands for every status that nothing distinguishes from it.
Statuses == {"active", "suspended", "inactive", "absent"}

\* The steps of a request at which it owns a reserved slot.
HoldingSteps == {"cache", "hit", "pipeline", "finalize", "release"}
Steps == {"idle", "lookup", "expire", "sample", "check", "lock", "decide"}
           \cup HoldingSteps

Holders(b) == {w \in Workers : pc[w] \in HoldingSteps /\ bucket[w] = b}

Expired == today > expiresAt

TypeOK ==
  /\ status \in Statuses
  /\ expiresAt \in Days \cup {Never}
  /\ limit \in [Kinds -> Limits]
  /\ count \in [Buckets -> Nat]
  /\ lock \in Workers \cup {NoWorker}
  /\ today \in Days
  /\ pc \in [Workers -> Steps]
  /\ bucket \in [Workers -> Buckets \cup {NoBucket}]
  /\ lim \in [Workers -> Nat]
  /\ seen \in [Workers -> Nat]
  /\ peak \in [Kinds -> Nat]
  /\ foreign \in [Buckets -> Nat]
  /\ succeeded \in [Buckets -> Nat]


Init ==
  /\ status = "active"
  /\ expiresAt \in Days \cup {Never}
  /\ limit \in [Kinds -> Limits]
  /\ count = [b \in Buckets |-> 0]
  /\ lock = NoWorker
  /\ today = 1
  /\ pc = [w \in Workers |-> "idle"]
  /\ bucket = [w \in Workers |-> NoBucket]
  /\ lim = [w \in Workers |-> 0]
  /\ seen = [w \in Workers |-> 0]
  /\ peak = limit
  /\ foreign = [b \in Buckets |-> 0]
  /\ succeeded = [b \in Buckets |-> 0]

-----------------------------------------------------------------------------
(* A request *)

Goto(w, step) == pc' = [pc EXCEPT ![w] = step]

\* The request returns or raises: its locals are gone.
Return(w) ==
  /\ Goto(w, "idle")
  /\ bucket' = [bucket EXCEPT ![w] = NoBucket]
  /\ lim' = [lim EXCEPT ![w] = 0]
  /\ seen' = [seen EXCEPT ![w] = 0]

Begin(w) ==
  /\ pc[w] = "idle"
  /\ Goto(w, "lookup")
  /\ UNCHANGED <<rows, lock, today, locals, history>>

\* get_tenant: a transaction of its own, and the caller's test of its result.
Lookup(w) ==
  /\ pc[w] = "lookup"
  /\ \/ /\ status # "absent" /\ Expired
        /\ Goto(w, "expire")
        /\ UNCHANGED locals
     \/ /\ status = "active" /\ ~Expired
        /\ Goto(w, "sample")
        /\ UNCHANGED locals
     \/ /\ status = "absent" \/ (status # "active" /\ ~Expired)
        /\ Return(w)
  /\ UNCHANGED <<rows, lock, today, history>>

\* get_tenant found expires_at in the past: a second transaction suspends the
\* tenant, whatever became of it since, and the caller is told there is none.
ExpireTenant(w) ==
  /\ pc[w] = "expire"
  /\ status' = IF status = "absent" THEN "absent" ELSE "suspended"
  /\ Return(w)
  /\ UNCHANGED <<expiresAt, limit, count, lock, today, history>>

\* reserve_tenant_usage fixes the day before its transaction begins.
SampleDay(w, k) ==
  /\ pc[w] = "sample"
  /\ bucket' = [bucket EXCEPT ![w] = <<k, today>>]
  /\ Goto(w, "check")
  /\ UNCHANGED <<rows, lock, today, lim, seen, history>>

\* First statement of the transaction: the tenant row, not locked.
CheckStatus(w) ==
  /\ pc[w] = "check"
  /\ \/ /\ status = "active"
        /\ Goto(w, "lock")
        /\ UNCHANGED locals
     \/ /\ status # "active"
        /\ Return(w)
  /\ UNCHANGED <<rows, lock, today, history>>

\* Mutant: the quota row is read without FOR UPDATE.
LockQuotaUnlocked(w) ==
  /\ pc[w] = "lock"
  /\ \/ /\ status # "absent"
        /\ lock' = w
        /\ lim' = [lim EXCEPT ![w] = limit[KindOf(bucket[w])]]
        /\ seen' = [seen EXCEPT ![w] = count[bucket[w]]]
        /\ Goto(w, "decide")
        /\ UNCHANGED bucket
     \/ /\ status = "absent"
        /\ Return(w)
        /\ UNCHANGED lock
  /\ UNCHANGED <<rows, today, history>>

\* SELECT ... FOR UPDATE on the quota row, then the read of the usage row.
\* A waiting transaction finds no row if the tenant was deleted meanwhile.
LockQuota(w) ==
  /\ pc[w] = "lock"
  /\ lock = NoWorker
  /\ \/ /\ status # "absent"
        /\ lock' = w
        /\ lim' = [lim EXCEPT ![w] = limit[KindOf(bucket[w])]]
        /\ seen' = [seen EXCEPT ![w] = count[bucket[w]]]
        /\ Goto(w, "decide")
        /\ UNCHANGED bucket
     \/ /\ status = "absent"
        /\ Return(w)
        /\ UNCHANGED lock
  /\ UNCHANGED <<rows, today, history>>

\* Mutant: the upsert asks the clock again for its day.
AdmitOnCurrentDay(w) ==
  /\ pc[w] = "decide"
  /\ seen[w] < lim[w]
  /\ count' = [count EXCEPT ![<<KindOf(bucket[w]), today>>] = @ + 1]
  /\ lock' = NoWorker
  /\ Goto(w, IF KindOf(bucket[w]) = "query" THEN "cache" ELSE "pipeline")
  /\ lim' = [lim EXCEPT ![w] = 0]
  /\ seen' = [seen EXCEPT ![w] = 0]
  /\ UNCHANGED <<status, expiresAt, limit, today, bucket, history>>

\* The upsert that counts the slot, and the commit.
Admit(w) ==
  /\ pc[w] = "decide"
  /\ seen[w] < lim[w]
  /\ count' = [count EXCEPT ![bucket[w]] = @ + 1]
  /\ lock' = NoWorker
  /\ Goto(w, IF KindOf(bucket[w]) = "query" THEN "cache" ELSE "pipeline")
  /\ lim' = [lim EXCEPT ![w] = 0]
  /\ seen' = [seen EXCEPT ![w] = 0]
  /\ UNCHANGED <<status, expiresAt, limit, today, bucket, history>>

\* Mutant: the refusal returns without leaving its transaction.
RefuseInTransaction(w) ==
  /\ pc[w] = "decide"
  /\ seen[w] >= lim[w]
  /\ Return(w)
  /\ UNCHANGED <<rows, lock, today, history>>

\* The counter is at the quota: only the audit record is committed.
Refuse(w) ==
  /\ pc[w] = "decide"
  /\ seen[w] >= lim[w]
  /\ lock' = NoWorker
  /\ Return(w)
  /\ UNCHANGED <<rows, today, history>>

\* The semantic cache answers the query, or has nothing or fails.
ConsultCache(w) ==
  /\ pc[w] = "cache"
  /\ \/ Goto(w, "hit")
     \/ Goto(w, "pipeline")
  /\ UNCHANGED <<rows, lock, today, locals, history>>

\* Finalizing a slot writes statistics and no counter: it ends the request.
Succeed(w) ==
  /\ succeeded' = [succeeded EXCEPT ![bucket[w]] = @ + 1]
  /\ Return(w)
  /\ UNCHANGED <<rows, lock, today, peak, foreign>>

\* Mutant: the slot is given back before the request goes on without the cache.
FinalizeHitRefunding(w) ==
  /\ pc[w] = "hit"
  /\ \/ Succeed(w)
     \/ /\ count' = [count EXCEPT ![bucket[w]] = IF @ > 0 THEN @ - 1 ELSE 0]
        /\ Goto(w, "pipeline")
        /\ UNCHANGED <<status, expiresAt, limit, lock, today, locals, history>>

\* A cached answer is finalized inside the try block of the cache lookup: if
\* that fails, the request goes on as though the cache had had nothing.
FinalizeHit(w) ==
  /\ pc[w] = "hit"
  /\ \/ Succeed(w)
     \/ /\ Goto(w, "pipeline")
        /\ UNCHANGED <<rows, lock, today, locals, history>>

\* Loading, chunking, embedding, storing; or retrieving and answering.
RunPipeline(w) ==
  /\ pc[w] = "pipeline"
  /\ \/ Goto(w, "finalize")
     \/ Goto(w, "release")
  /\ UNCHANGED <<rows, lock, today, locals, history>>

Finalize(w) ==
  /\ pc[w] = "finalize"
  /\ \/ Succeed(w)
     \/ /\ Goto(w, "release")
        /\ UNCHANGED <<rows, lock, today, locals, history>>

\* release_tenant_usage: one UPDATE, of the row of the day it runs on.
RefundBucket(w) == <<KindOf(bucket[w]), today>>

\* Mutant: a lost answer to the UPDATE makes the request send it again.
ReleaseRetried(w) ==
  /\ pc[w] = "release"
  /\ LET b == RefundBucket(w)
     IN  /\ count' = [count EXCEPT ![b] = IF @ > 0 THEN @ - 1 ELSE 0]
         /\ foreign' = IF DayOf(bucket[w]) = today THEN foreign
                       ELSE [foreign EXCEPT ![b] = @ + 1]
  /\ \/ Return(w)
     \/ UNCHANGED <<pc, locals>>
  /\ UNCHANGED <<status, expiresAt, limit, lock, today, peak, succeeded>>

\* Mutant: the UPDATE subtracts without GREATEST(..., 0).
ReleaseBelowZero(w) ==
  /\ pc[w] = "release"
  /\ LET b == RefundBucket(w)
     IN  /\ count' = [count EXCEPT ![b] = @ - 1]
         /\ foreign' = IF DayOf(bucket[w]) = today THEN foreign
                       ELSE [foreign EXCEPT ![b] = @ + 1]
  /\ Return(w)
  /\ UNCHANGED <<status, expiresAt, limit, lock, today, peak, succeeded>>

Release(w) ==
  /\ pc[w] = "release"
  /\ LET b == RefundBucket(w)
     IN  /\ count' = [count EXCEPT ![b] = IF @ > 0 THEN @ - 1 ELSE 0]
         /\ foreign' = IF DayOf(bucket[w]) = today THEN foreign
                       ELSE [foreign EXCEPT ![b] = @ + 1]
  /\ Return(w)
  /\ UNCHANGED <<status, expiresAt, limit, lock, today, peak, succeeded>>

\* Any await may raise, be cancelled, or never return because the process
\* died.  An open transaction is rolled back; a reserved slot stays taken.
Abort(w) ==
  /\ pc[w] # "idle"
  /\ lock' = IF lock = w THEN NoWorker ELSE lock
  /\ Return(w)
  /\ UNCHANGED <<rows, today, history>>

-----------------------------------------------------------------------------
(* Administrators and the clock *)

\* suspend_tenant, activate_tenant, and update_tenant with a status.
SetStatus(s) ==
  /\ status \notin {"absent", s}
  /\ status' = s
  /\ UNCHANGED <<expiresAt, limit, count, lock, today, pc, locals, history>>

\* update_tenant with a new expiry: the quota row is not written.
Renew(d) ==
  /\ status # "absent"
  /\ expiresAt' = d
  /\ UNCHANGED <<status, limit, count, lock, today, pc, locals, history>>

\* update_tenant with new limits: its UPDATE waits for the quota row.
SetQuota(newLimit) ==
  /\ status # "absent"
  /\ lock = NoWorker
  /\ limit' = newLimit
  /\ peak' = [k \in Kinds |-> IF newLimit[k] > peak[k] THEN newLimit[k]
                                                       ELSE peak[k]]
  /\ UNCHANGED <<status, expiresAt, count, lock, today, pc, locals,
                 foreign, succeeded>>

\* delete_tenant: the cascade removes the quota row, so it waits for it, and
\* the usage rows.
DeleteTenant ==
  /\ status # "absent"
  /\ lock = NoWorker
  /\ status' = "absent"
  /\ count' = [b \in Buckets |-> 0]
  /\ UNCHANGED <<expiresAt, limit, lock, today, pc, locals, history>>

Midnight ==
  /\ today < LastDay
  /\ today' = today + 1
  /\ UNCHANGED <<rows, lock, pc, locals, history>>

-----------------------------------------------------------------------------
Serve(w) ==
  \/ Lookup(w) \/ ExpireTenant(w)
  \/ \E k \in Kinds : SampleDay(w, k)
  \/ CheckStatus(w) \/ LockQuota(w) \/ Admit(w) \/ Refuse(w)
  \/ ConsultCache(w) \/ FinalizeHit(w) \/ RunPipeline(w) \/ Finalize(w)
  \/ Release(w)

Administer ==
  \/ \E s \in Statuses \ {"absent"} : SetStatus(s)
  \/ \E d \in Days \cup {Never} : Renew(d)
  \/ \E newLimit \in [Kinds -> Limits] : SetQuota(newLimit)
  \/ DeleteTenant

Next ==
  \/ \E w \in Workers : Begin(w) \/ Serve(w) \/ Abort(w)
  \/ Administer
  \/ Midnight

Spec == Init /\ [][Next]_vars

\* A request that can take a step takes it: every await of the code ends, by
\* its own timeout or the driver's.  Row locks are granted in the order they
\* were asked for, so a waiting request is not overtaken for ever.
Fairness ==
  \A w \in Workers : WF_vars(Serve(w)) /\ SF_vars(LockQuota(w))

FairSpec == Spec /\ Fairness

-----------------------------------------------------------------------------
(* Properties *)

\* No counter exceeds the highest quota its kind ever had, however many
\* workers reserve at once and whatever an administrator does meanwhile: the
\* test and the upsert of reserve_tenant_usage are one critical section.
CountWithinPeak == \A b \in Buckets : count[b] <= peak[KindOf(b)]

\* A slot in use, or used up by a success, is still on its counter, unless a
\* refund of another day's slot landed there: a failed request gives back its
\* own slot once and nobody else's, also when a cached answer cannot be
\* finalized and when the pipeline fails after its chunks were stored.
NoSlotForgotten ==
  status # "absent" =>
    \A b \in Buckets :
      succeeded[b] + Cardinality(Holders(b)) <= count[b] + foreign[b]

\* The work a tenant gets out of one day, finished or in flight, exceeds its
\* quota by no more than the refunds that crossed midnight into that day.
ServedWithinQuota ==
  \A b \in Buckets :
    succeeded[b] + Cardinality(Holders(b)) <= peak[KindOf(b)] + foreign[b]

\* Those refunds are at most one for each request that was in flight.
ForeignBounded ==
  \A b \in Buckets : foreign[b] <= Cardinality(Workers)

\* What makes the above inductive.  The quota row is locked by the request
\* that is about to decide, and by no other; while it is, the tenant and its
\* quota stay, and refunds may lower the counter but nobody raises it.
LockOwner == \A w \in Workers : pc[w] = "decide" <=> lock = w
LockedTenantExists == lock # NoWorker => status # "absent"
SnapshotHolds ==
  \A w \in Workers : pc[w] = "decide" =>
    lim[w] = limit[KindOf(bucket[w])] /\ count[bucket[w]] <= seen[w]
LimitWithinPeak == \A k \in Kinds : limit[k] <= peak[k]

\* From its sample of the clock until it returns, a request knows its row.
AssignedSteps == {"check", "lock", "decide"} \cup HoldingSteps
BucketAssigned ==
  \A w \in Workers : pc[w] \in AssignedSteps => bucket[w] \in Buckets

\* The inductive invariant: reserve_tenant_usage is a critical section that
\* protects the counter, and the counter accounts for the work.
LedgerInv ==
  /\ TypeOK /\ BucketAssigned
  /\ LockOwner /\ LockedTenantExists /\ SnapshotHolds /\ LimitWithinPeak
  /\ CountWithinPeak /\ NoSlotForgotten /\ ServedWithinQuota

\* docs/features/postgresql-multitenancy/README.md:153 and the docstring of
\* release_tenant_usage: a refund compensates the reservation that failed, so
\* a day's work never exceeds the quota.  Midnight between the two refutes it.
ServedWithinLimit ==
  \A b \in Buckets :
    succeeded[b] + Cardinality(Holders(b)) <= peak[KindOf(b)]

\* The audit record written with the suspension gives the reason "expired":
\* the tenant is past its expiry when it is suspended for it.  A renewal
\* between the two transactions of get_tenant refutes it.
SuspendedOnlyIfExpired ==
  [][\A w \in Workers :
       pc[w] = "expire" /\ status = "active" /\ status' = "suspended"
         /\ pc'[w] = "idle" => Expired]_vars

\* The transaction of several statements implements the indivisible one.
Quota == INSTANCE AtomicQuota WITH used <- count, quota <- limit
ImplementsAtomicQuota == Quota!ASpec

\* Every request ends: no interleaving of reservations, refusals, failures and
\* administrators leaves the quota row locked or a request waiting for ever.
RequestsEnd == \A w \in Workers : pc[w] # "idle" ~> pc[w] = "idle"
=============================================================================
