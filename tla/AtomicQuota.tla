---------------------------- MODULE AtomicQuota ----------------------------
(***************************************************************************)
(* What the quota ledger of one tenant promises its callers, whatever the  *)
(* number of workers and processes that share the database: admission is   *)
(* one indivisible test-and-increment of a daily counter, and a counter    *)
(* only ever falls one slot at a time or together with its tenant.         *)
(*                                                                         *)
(* docs/features/postgresql-multitenancy/README.md:153 states it as "Quota *)
(* reservations are atomic and short-lived".  UsageLedger implements it    *)
(* with a transaction of several statements, and TenantUsers implements it *)
(* for the users of a tenant, with one bucket and max_users as its quota.  *)
(***************************************************************************)
EXTENDS Naturals

CONSTANTS
  Buckets,     \* one counter per operation kind and calendar day
  KindOf(_),   \* the operation kind of a bucket
  Kinds        \* the operation kinds that have a quota

VARIABLES
  used,        \* used[b]: slots taken in bucket b
  quota        \* quota[k]: slots a bucket of kind k may have

aqVars == <<used, quota>>

AInit ==
  /\ used = [b \in Buckets |-> 0]
  /\ quota \in [Kinds -> Nat]

\* Take a slot; impossible once the bucket is full.
Admit(b) ==
  /\ used[b] < quota[KindOf(b)]
  /\ used' = [used EXCEPT ![b] = @ + 1]
  /\ UNCHANGED quota

\* Give one slot back.
Restore(b) ==
  /\ used[b] > 0
  /\ used' = [used EXCEPT ![b] = @ - 1]
  /\ UNCHANGED quota

\* An administrator changes the quotas, in any direction.
Requota ==
  /\ quota' \in [Kinds -> Nat]
  /\ UNCHANGED used

\* The tenant is deleted and its counters go with it.
Drop ==
  /\ used' = [b \in Buckets |-> 0]
  /\ UNCHANGED quota

ANext ==
  \/ \E b \in Buckets : Admit(b) \/ Restore(b)
  \/ Requota
  \/ Drop

ASpec == AInit /\ [][ANext]_aqVars
=============================================================================
