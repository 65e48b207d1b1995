--------------------------- MODULE CircuitBreaker ---------------------------
(***************************************************************************)
(* One service of GracefulDegradation: execute_with_fallback around the    *)
(* service's CircuitBreaker.                                               *)
(*                                                                         *)
(* The timeout runs the breaker's call in a task of its own, so that the   *)
(* breaker counts the outcome in one step and the service's health records *)
(* it in a later one.  A cancelled call, by its caller or by the outer     *)
(* timeout, is not counted by the breaker; a rejected one is a failure of  *)
(* the service.  Caches in front of the call are left out.                 *)
(***************************************************************************)
EXTENDS Naturals

CONSTANTS
  Requests,           \* calls under way at the same time
  FailureThreshold, SuccessThreshold, RecoveryTimeout,
  DegradedAt, CriticalAt,  \* 5 and 10 in _record_failure
  MostErrors, MostWins     \* bounds of the model

ASSUME CircuitBreakerAssumption ==
  /\ FailureThreshold \in Nat \ {0} /\ SuccessThreshold \in Nat \ {0}
  /\ RecoveryTimeout \in Nat /\ MostErrors \in Nat /\ MostWins \in Nat
  /\ DegradedAt \in Nat \ {0} /\ CriticalAt \in Nat /\ DegradedAt <= CriticalAt

VARIABLES
  circuit,    \* state
  failures,   \* failure_count, up to FailureThreshold: beyond it makes no difference
  successes,  \* success_count
  wait,       \* what is left until next_attempt_time
  request,    \* where each call stands
  health,     \* status of the service
  errors, wins, degraded,  \* its error_count, success_count and fallback_active
  (* history, read by no action *)
  probes,     \* successes that the breaker saw since it last became half open
  lateSuccess \* it saw a success while it was open

breakerVars == <<circuit, failures, successes, wait, request, health, errors, wins,
                 degraded, probes, lateSuccess>>
healthVars == <<health, errors, wins, degraded>>
circuitVars == <<circuit, failures, successes, wait, probes, lateSuccess>>

BreakerTypeOK ==
  /\ circuit \in {"closed", "open", "half_open"}
  /\ failures \in 0..FailureThreshold /\ successes \in 0..SuccessThreshold
  /\ wait \in 0..RecoveryTimeout
  /\ request \in [Requests -> {"none", "primary", "succeeded", "failed", "fallback"}]
  /\ health \in {"healthy", "degraded", "critical"}
  /\ errors \in 0..MostErrors /\ wins \in 0..MostWins
  /\ degraded \in BOOLEAN /\ lateSuccess \in BOOLEAN
  /\ probes \in 0..SuccessThreshold

BreakerInit ==
  /\ circuit = "closed" /\ failures = 0 /\ successes = 0 /\ wait = 0
  /\ request = [r \in Requests |-> "none"]
  /\ health = "healthy" /\ errors = 0 /\ wins = 0 /\ degraded = FALSE
  /\ probes = 0 /\ lateSuccess = FALSE

-----------------------------------------------------------------------------
Proceed(r, from, to) == request[r] = from /\ request' = [request EXCEPT ![r] = to]

\* Mutant: a rejection starts the wait anew.
RejectLonger(r) ==
  /\ circuit = "open" /\ wait > 0
  /\ Proceed(r, "none", "failed")
  /\ wait' = RecoveryTimeout
  /\ UNCHANGED <<circuit, failures, successes, probes, lateSuccess, healthVars>>

Reject(r) ==
  /\ circuit = "open" /\ wait > 0
  /\ Proceed(r, "none", "failed")
  /\ UNCHANGED <<circuitVars, healthVars>>

\* A call begins with the circuit closed or half open: there is no limit to the
\* number of probes.
Pass(r) ==
  /\ circuit # "open"
  /\ Proceed(r, "none", "primary")
  /\ UNCHANGED <<circuitVars, healthVars>>

\* Mutant: success_count is left from the last time the circuit was half open.
ProbeAgain(r) ==
  /\ circuit = "open" /\ wait = 0
  /\ Proceed(r, "none", "primary")
  /\ circuit' = "half_open" /\ probes' = 0
  /\ UNCHANGED <<failures, successes, wait, lateSuccess, healthVars>>

Probe(r) ==
  /\ circuit = "open" /\ wait = 0
  /\ Proceed(r, "none", "primary")
  /\ circuit' = "half_open" /\ successes' = 0 /\ probes' = 0
  /\ UNCHANGED <<failures, wait, lateSuccess, healthVars>>

\* Mutant: every success forgives the failures.
OnSuccessForgiving(r) ==
  /\ Proceed(r, "primary", "succeeded")
  /\ failures' = 0
  /\ IF circuit = "half_open"
     THEN /\ successes' = successes + 1 /\ probes' = probes + 1
          /\ circuit' = IF successes' >= SuccessThreshold THEN "closed" ELSE "half_open"
     ELSE UNCHANGED <<circuit, successes, probes>>
  /\ lateSuccess' = (lateSuccess \/ circuit = "open")
  /\ UNCHANGED <<wait, healthVars>>

\* A success while the circuit is open, of a call that began before, resets
\* failure_count too.
OnSuccess(r) ==
  LET closes == circuit = "half_open" /\ successes + 1 >= SuccessThreshold
  IN  /\ Proceed(r, "primary", "succeeded")
      /\ circuit' = IF closes THEN "closed" ELSE circuit
      /\ failures' = IF circuit = "half_open" /\ ~closes THEN failures ELSE 0
      /\ IF circuit = "half_open"
         THEN successes' = successes + 1 /\ probes' = probes + 1
         ELSE UNCHANGED <<successes, probes>>
      /\ lateSuccess' = (lateSuccess \/ circuit = "open")
      /\ UNCHANGED <<wait, healthVars>>

\* The function raises, or the breaker's own timeout ends it.
OnFailure(r) ==
  LET count == IF failures < FailureThreshold THEN failures + 1 ELSE failures
      opens == count >= FailureThreshold
  IN  /\ Proceed(r, "primary", "failed")
      /\ failures' = count
      /\ circuit' = IF opens THEN "open" ELSE circuit
      /\ wait' = IF opens THEN RecoveryTimeout ELSE wait
      /\ lateSuccess' = (lateSuccess /\ ~(opens /\ circuit # "open"))
      /\ UNCHANGED <<successes, probes, healthVars>>

\* The outer timeout, which is no longer than the breaker's, cancels the call.
OuterTimeout(r) == Proceed(r, "primary", "failed") /\ UNCHANGED <<circuitVars, healthVars>>

Cancel(r) == Proceed(r, "primary", "none") /\ UNCHANGED <<circuitVars, healthVars>>

-----------------------------------------------------------------------------
(* The health of the service *)

RecordSuccess(r) ==
  /\ Proceed(r, "succeeded", "none")
  /\ wins < MostWins /\ wins' = wins + 1
  /\ degraded' = FALSE
  /\ health' = IF errors = 0 THEN "healthy"
               ELSE IF wins' > 2 * errors THEN "degraded" ELSE health
  /\ UNCHANGED <<errors, circuitVars>>

CountError ==
  /\ errors < MostErrors /\ errors' = errors + 1
  /\ health' = IF errors' >= CriticalAt THEN "critical"
               ELSE IF errors' >= DegradedAt THEN "degraded" ELSE health

\* Every service registered at start has its fallback enabled.
RecordFailure(r) ==
  /\ Proceed(r, "failed", "fallback")
  /\ CountError
  /\ UNCHANGED <<wins, degraded, circuitVars>>

Fallback(r) ==
  /\ Proceed(r, "fallback", "none")
  /\ degraded' = TRUE
  /\ UNCHANGED <<health, errors, wins, circuitVars>>

\* handle_component_failure, by the integration service.
ComponentFails == CountError /\ UNCHANGED <<wins, degraded, request, circuitVars>>

ResetServiceHealth ==
  /\ health' = "healthy" /\ errors' = 0 /\ wins' = 0 /\ degraded' = FALSE
  /\ UNCHANGED <<request, circuitVars>>

BreakerTick ==
  /\ wait > 0 /\ wait' = wait - 1
  /\ UNCHANGED <<circuit, failures, successes, probes, lateSuccess, request, healthVars>>

BreakerNext ==
  \/ \E r \in Requests :
       \/ Reject(r) \/ Pass(r) \/ Probe(r)
       \/ OnSuccess(r) \/ OnFailure(r) \/ OuterTimeout(r) \/ Cancel(r)
       \/ RecordSuccess(r) \/ RecordFailure(r) \/ Fallback(r)
  \/ ComponentFails \/ ResetServiceHealth \/ BreakerTick

BreakerSpec == BreakerInit /\ [][BreakerNext]_breakerVars

\* Time passes.  Nothing is assumed of calls: none need come, none need end.
BreakerFairness == WF_breakerVars(BreakerTick)

-----------------------------------------------------------------------------
(* Properties *)

\* The circuit closes after SuccessThreshold successes since it last became half
\* open, however many probes there are and whatever they did the time before.
ClosesByProbes ==
  [][circuit # "closed" /\ circuit' = "closed" => probes' >= SuccessThreshold]_breakerVars

\* One failure of a half-open circuit opens it again, unless a call that began
\* before succeeded while it was open and made it forget its failures.
ReopensOnFailure ==
  [][circuit = "half_open" /\ circuit' = "half_open" /\ failures' > failures
       => lateSuccess]_breakerVars

\* The wait of an open circuit ends.  Late failures start it anew, but no call
\* can begin until it ends, and rejected ones leave it alone.
RecoveryComes == circuit = "open" ~> (wait = 0 \/ circuit # "open")
=============================================================================
