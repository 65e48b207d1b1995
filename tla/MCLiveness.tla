----------------------------- MODULE MCLiveness -----------------------------
(***************************************************************************)
(* Two components that need fairness, side by side: a behaviour is one of  *)
(* the ledger or one of the circuit breaker, the other stays as it began.  *)
(***************************************************************************)
EXTENDS UsageLedger, CircuitBreaker

VARIABLE part

PartsInit == Init /\ BreakerInit /\ part \in {"ledger", "breaker"}

LedgerPart == part = "ledger" /\ Next /\ UNCHANGED <<breakerVars, part>>
BreakerPart == part = "breaker" /\ BreakerNext /\ UNCHANGED <<vars, part>>

PartsNext == LedgerPart \/ BreakerPart

\* The part that rests enables none of its fair actions: no request is under
\* way, and no wait has begun.
PartsSpec ==
  /\ PartsInit /\ [][PartsNext]_<<vars, breakerVars, part>>
  /\ Fairness /\ BreakerFairness
=============================================================================
