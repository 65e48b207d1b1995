------------------------------ MODULE MCLimits ------------------------------
(***************************************************************************)
(* The two limits a request has to pass, side by side: so many in a window *)
(* of time, and so many in the period its tenant pays for.  They share no  *)
(* state, and a behaviour is one of a single part.                         *)
(***************************************************************************)
EXTENDS UsageLedger, RateLimit, TLC

CONSTANTS i1, i2, i3, s1, s2, s3

\* One instance with its own memory only, and two that share Redis.
MCDeployments ==
  {[shared |-> FALSE, limit |-> 2, cap |-> 2, instances |-> {i3},
    subjects |-> {s1, s2, s3}, last |-> 6],
   [shared |-> TRUE, limit |-> 1, cap |-> 1, instances |-> {i1, i2},
    subjects |-> {s1}, last |-> 3]}

VARIABLE part

limitsVars == <<vars, limiterVars, part>>

\* Where the limiter is not the part, one deployment stands for both, and where
\* the ledger is not, one of its initial states.
LimitsInit ==
  /\ Init /\ LimiterInit
  /\ \/ part = "ledger" /\ deployment.shared
     \/ part = "limiter" /\ limit = [k \in Kinds |-> 1] /\ expiresAt = Never

LedgerPart == part = "ledger" /\ Next /\ UNCHANGED <<limiterVars, part>>

LimiterPart == part = "limiter" /\ LimiterNext /\ UNCHANGED <<vars, part>>

LimitsNext == LedgerPart \/ LimiterPart

LimitsSpec == LimitsInit /\ [][LimitsNext]_limitsVars

LimitsTypeOK ==
  /\ part = "ledger" => TypeOK
  /\ part = "limiter" => LimiterTypeOK

\* A worker of the ledger and a call to Redis have the same names.
Symmetry == Permutations(Workers \cup Calls) \cup Permutations({i1, i2})
=============================================================================
