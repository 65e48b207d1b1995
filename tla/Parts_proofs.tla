---------------------------- MODULE Parts_proofs ----------------------------
(***************************************************************************)
(* Theorems about four components that share no state: the circuit breaker *)
(* of a service, the plugins, the chunks of a document and the tiers of    *)
(* the cache.                                                              *)
(***************************************************************************)
EXTENDS CircuitBreaker, PluginLifecycle, ChunkOptimizer, CacheTiers, DataLemmas, SequenceTheorems

-----------------------------------------------------------------------------
(* The circuit breaker *)

\* A half-open circuit has counted its probes and needs more of them; one that is
\* not closed remembers all its failures unless a late success forgave them.
BreakerInv ==
  /\ BreakerTypeOK
  /\ circuit = "half_open" => successes = probes /\ successes < SuccessThreshold
  /\ circuit # "closed" /\ ~lateSuccess => failures = FailureThreshold

LEMMA BreakerInitInv == BreakerInit => BreakerInv
<1> SUFFICES ASSUME BreakerInit PROVE BreakerInv
  OBVIOUS
<1>1. /\ 0 \in 0..FailureThreshold /\ 0 \in 0..SuccessThreshold /\ 0 \in 0..RecoveryTimeout
      /\ 0 \in 0..MostErrors /\ 0 \in 0..MostWins
  BY CircuitBreakerAssumption
<1>2. BreakerTypeOK
  BY <1>1 DEF BreakerInit, BreakerTypeOK
<1> QED
  BY <1>2 DEF BreakerInit, BreakerInv

\* One call moves on, to a stage that there is.
LEMMA ProceedType ==
  ASSUME BreakerTypeOK, NEW r \in Requests, NEW from,
         NEW to \in {"none", "primary", "succeeded", "failed", "fallback"},
         Proceed(r, from, to)
  PROVE  request' \in [Requests -> {"none", "primary", "succeeded", "failed", "fallback"}]
BY DEF BreakerTypeOK, Proceed

\* Steps that the breaker does not count.
LEMMA CircuitSame ==
  ASSUME BreakerInv, UNCHANGED circuitVars,
         request' \in [Requests -> {"none", "primary", "succeeded", "failed", "fallback"}],
         health' \in {"healthy", "degraded", "critical"},
         errors' \in 0..MostErrors, wins' \in 0..MostWins, degraded' \in BOOLEAN
  PROVE  BreakerInv'
BY DEF BreakerInv, BreakerTypeOK, circuitVars

LEMMA BreakerStepInv == BreakerInv /\ [BreakerNext]_breakerVars => BreakerInv'
<1> SUFFICES ASSUME BreakerInv, [BreakerNext]_breakerVars PROVE BreakerInv'
  OBVIOUS
<1>0. BreakerTypeOK
  BY DEF BreakerInv
<1>a. /\ FailureThreshold \in Nat \ {0} /\ SuccessThreshold \in Nat \ {0}
      /\ RecoveryTimeout \in Nat /\ MostErrors \in Nat /\ MostWins \in Nat
  BY CircuitBreakerAssumption
<1>b. /\ circuit \in {"closed", "open", "half_open"} /\ failures \in 0..FailureThreshold
      /\ successes \in 0..SuccessThreshold /\ probes \in 0..SuccessThreshold
      /\ wait \in 0..RecoveryTimeout /\ lateSuccess \in BOOLEAN
      /\ health \in {"healthy", "degraded", "critical"} /\ errors \in 0..MostErrors
      /\ wins \in 0..MostWins /\ degraded \in BOOLEAN
  BY <1>0 DEF BreakerTypeOK
<1>c. CountError => errors' \in 0..MostErrors /\ health' \in {"healthy", "degraded", "critical"}
  BY <1>a, <1>b DEF CountError
<1>1. ASSUME NEW r \in Requests, Reject(r) \/ Pass(r) \/ OuterTimeout(r) \/ Cancel(r)
      PROVE  BreakerInv'
  <2>1. UNCHANGED circuitVars /\ UNCHANGED healthVars
    BY <1>1 DEF Reject, Pass, OuterTimeout, Cancel
  <2>2. request' \in [Requests -> {"none", "primary", "succeeded", "failed", "fallback"}]
    BY <1>0, <1>1, ProceedType DEF Reject, Pass, OuterTimeout, Cancel
  <2> QED BY <1>b, <2>1, <2>2, CircuitSame DEF healthVars
<1>2. ASSUME NEW r \in Requests, Probe(r)
      PROVE  BreakerInv'
  <2>1. request' \in [Requests -> {"none", "primary", "succeeded", "failed", "fallback"}]
    BY <1>0, <1>2, ProceedType DEF Probe
  <2>2. /\ circuit = "open" /\ circuit' = "half_open" /\ successes' = 0 /\ probes' = 0
        /\ UNCHANGED <<failures, wait, lateSuccess>> /\ UNCHANGED healthVars
    BY <1>2 DEF Probe
  <2> QED BY <1>a, <1>b, <2>1, <2>2 DEF BreakerInv, BreakerTypeOK, healthVars
<1>3. ASSUME NEW r \in Requests, OnSuccess(r)
      PROVE  BreakerInv'
  <2> DEFINE closes == circuit = "half_open" /\ successes + 1 >= SuccessThreshold
  <2>1. request' \in [Requests -> {"none", "primary", "succeeded", "failed", "fallback"}]
    BY <1>0, <1>3, ProceedType DEF OnSuccess
  <2>2. /\ circuit' = IF closes THEN "closed" ELSE circuit
        /\ failures' = IF circuit = "half_open" /\ ~closes THEN failures ELSE 0
        /\ IF circuit = "half_open"
           THEN successes' = successes + 1 /\ probes' = probes + 1
           ELSE successes' = successes /\ probes' = probes
        /\ lateSuccess' = (lateSuccess \/ circuit = "open")
        /\ wait' = wait /\ UNCHANGED healthVars
    BY <1>3 DEF OnSuccess
  <2>3. circuit = "half_open" => successes = probes /\ successes < SuccessThreshold
    BY DEF BreakerInv
  <2>4. lateSuccess' \in BOOLEAN
    BY <2>2
  <2>5. BreakerTypeOK'
    BY <1>a, <1>b, <2>1, <2>2, <2>3, <2>4 DEF BreakerTypeOK, healthVars
  <2>6. (circuit = "half_open" => successes = probes /\ successes < SuccessThreshold)'
    BY <1>a, <1>b, <2>2, <2>3
  <2>7. (circuit # "closed" /\ ~lateSuccess => failures = FailureThreshold)'
    <3>1. CASE circuit = "half_open"
      <4>1. CASE closes
        BY <2>2, <4>1
      <4>2. CASE ~closes
        <5>1. failures' = failures /\ circuit' = circuit
          BY <2>2, <3>1, <4>2
        <5>2. ~lateSuccess' => ~lateSuccess
          BY <2>2
        <5> QED BY <3>1, <5>1, <5>2 DEF BreakerInv
      <4> QED BY <4>1, <4>2
    <3>2. CASE circuit # "half_open"
      BY <1>b, <2>2, <3>2
    <3> QED BY <3>1, <3>2
  <2> QED BY <2>5, <2>6, <2>7 DEF BreakerInv
<1>4. ASSUME NEW r \in Requests, OnFailure(r)
      PROVE  BreakerInv'
  <2> DEFINE count == IF failures < FailureThreshold THEN failures + 1 ELSE failures
             opens == count >= FailureThreshold
  <2>1. request' \in [Requests -> {"none", "primary", "succeeded", "failed", "fallback"}]
    BY <1>0, <1>4, ProceedType DEF OnFailure
  <2>2. /\ failures' = count
        /\ circuit' = IF opens THEN "open" ELSE circuit
        /\ wait' = IF opens THEN RecoveryTimeout ELSE wait
        /\ lateSuccess' = (lateSuccess /\ ~(opens /\ circuit # "open"))
        /\ successes' = successes /\ probes' = probes /\ UNCHANGED healthVars
    BY <1>4 DEF OnFailure
  <2>3. count \in 0..FailureThreshold /\ (opens => count = FailureThreshold)
    BY <1>a, <1>b
  <2>4. failures = FailureThreshold => opens
    BY <1>a, <1>b
  <2> HIDE DEF count, opens
  <2>5. BreakerTypeOK'
    BY <1>a, <1>b, <2>1, <2>2, <2>3 DEF BreakerTypeOK, healthVars
  <2>6. (circuit = "half_open" => successes = probes /\ successes < SuccessThreshold)'
    BY <2>2 DEF BreakerInv
  <2>7. (circuit # "closed" /\ ~lateSuccess => failures = FailureThreshold)'
    <3>1. CASE opens
      BY <2>2, <2>3, <3>1
    <3>2. CASE ~opens
      BY <2>2, <2>4, <3>2 DEF BreakerInv
    <3> QED BY <3>1, <3>2
  <2> QED BY <2>5, <2>6, <2>7 DEF BreakerInv
<1>5. ASSUME NEW r \in Requests, RecordSuccess(r) \/ RecordFailure(r) \/ Fallback(r)
      PROVE  BreakerInv'
  <2>1. request' \in [Requests -> {"none", "primary", "succeeded", "failed", "fallback"}]
    BY <1>0, <1>5, ProceedType DEF RecordSuccess, RecordFailure, Fallback
  <2>2. UNCHANGED circuitVars
    BY <1>5 DEF RecordSuccess, RecordFailure, Fallback
  <2>3. /\ health' \in {"healthy", "degraded", "critical"}
        /\ errors' \in 0..MostErrors /\ wins' \in 0..MostWins /\ degraded' \in BOOLEAN
    <3>1. CASE RecordSuccess(r)
      <4>1. wins < MostWins /\ wins' = wins + 1 /\ degraded' = FALSE /\ errors' = errors
        BY <3>1 DEF RecordSuccess
      <4>2. health' \in {"healthy", "degraded", health}
        BY <3>1 DEF RecordSuccess
      <4>3. wins' \in 0..MostWins
        BY <1>a, <1>b, <4>1
      <4>4. degraded' \in BOOLEAN
        BY <4>1
      <4>5. health' \in {"healthy", "degraded", "critical"}
        BY <1>b, <4>2
      <4> QED BY <1>b, <4>1, <4>3, <4>4, <4>5
    <3>2. CASE RecordFailure(r)
      BY <1>b, <1>c, <3>2 DEF RecordFailure
    <3>3. CASE Fallback(r)
      BY <1>b, <3>3 DEF Fallback
    <3> QED BY <1>5, <3>1, <3>2, <3>3
  <2> QED BY <2>1, <2>2, <2>3, CircuitSame
<1>6. CASE ComponentFails \/ ResetServiceHealth
  <2>1. UNCHANGED circuitVars /\ request' = request
    BY <1>6 DEF ComponentFails, ResetServiceHealth
  <2>2. /\ health' \in {"healthy", "degraded", "critical"}
        /\ errors' \in 0..MostErrors /\ wins' \in 0..MostWins /\ degraded' \in BOOLEAN
    <3>1. CASE ComponentFails
      BY <1>b, <1>c, <3>1 DEF ComponentFails
    <3>2. CASE ResetServiceHealth
      <4>1. health' = "healthy" /\ errors' = 0 /\ wins' = 0 /\ degraded' = FALSE
        BY <3>2 DEF ResetServiceHealth
      <4>2. errors' \in 0..MostErrors /\ wins' \in 0..MostWins
        BY <1>a, <4>1
      <4>3. degraded' \in BOOLEAN
        BY <4>1
      <4> QED BY <4>1, <4>2, <4>3
    <3> QED BY <1>6, <3>1, <3>2
  <2> QED BY <1>0, <2>1, <2>2, CircuitSame DEF BreakerTypeOK
<1>7. CASE BreakerTick
  BY <1>a, <1>7 DEF BreakerTick, BreakerInv, BreakerTypeOK, healthVars
<1>8. CASE UNCHANGED breakerVars
  BY <1>8 DEF breakerVars, BreakerInv, BreakerTypeOK
<1> QED
  BY <1>1, <1>2, <1>3, <1>4, <1>5, <1>6, <1>7, <1>8 DEF BreakerNext

LEMMA BreakerAlways == BreakerSpec => []BreakerInv
BY BreakerInitInv, BreakerStepInv, PTL DEF BreakerSpec

\* The variables of the breaker and of the service's health have their types:
\* its counts stay within its thresholds.
THEOREM BreakerTypeCorrect == BreakerSpec => []BreakerTypeOK
<1>1. BreakerInv => BreakerTypeOK
  BY DEF BreakerInv
<1> QED
  BY <1>1, BreakerAlways, PTL

\* A circuit closes only after enough successes since it last became half open.
THEOREM BreakerClosesByProbes == BreakerSpec => ClosesByProbes
<1>1. BreakerInv /\ [BreakerNext]_breakerVars
        => [circuit # "closed" /\ circuit' = "closed" => probes' >= SuccessThreshold]_breakerVars
  <2> SUFFICES ASSUME BreakerInv, BreakerNext, circuit # "closed", circuit' = "closed"
               PROVE  probes' >= SuccessThreshold
    OBVIOUS
  <2>1. PICK r \in Requests : OnSuccess(r)
    BY DEF BreakerNext, Reject, Pass, Probe, OnFailure, OuterTimeout, Cancel, RecordSuccess,
           RecordFailure, Fallback, ComponentFails, ResetServiceHealth, BreakerTick, circuitVars
  <2>2. circuit = "half_open" /\ successes + 1 >= SuccessThreshold /\ probes' = probes + 1
    BY <2>1 DEF OnSuccess
  <2> QED BY <2>2 DEF BreakerInv
<1> QED
  BY <1>1, BreakerAlways, PTL DEF BreakerSpec, ClosesByProbes

\* A failure of a half-open circuit opens it, if it was not made to forget.
THEOREM BreakerReopensOnFailure == BreakerSpec => ReopensOnFailure
<1>1. BreakerInv /\ [BreakerNext]_breakerVars
        => [circuit = "half_open" /\ circuit' = "half_open" /\ failures' > failures
              => lateSuccess]_breakerVars
  <2> SUFFICES ASSUME BreakerInv, BreakerNext, circuit = "half_open", circuit' = "half_open",
                      failures' > failures, ~lateSuccess
               PROVE  FALSE
    OBVIOUS
  <2>1. failures = FailureThreshold /\ FailureThreshold \in Nat
    BY CircuitBreakerAssumption DEF BreakerInv
  <2>2. failures' \in 0..FailureThreshold
    BY BreakerStepInv DEF BreakerInv, BreakerTypeOK
  <2> QED BY <2>1, <2>2
<1> QED
  BY <1>1, BreakerAlways, PTL DEF BreakerSpec, ReopensOnFailure

-----------------------------------------------------------------------------
(* Plugins *)

PluginStates ==
  [registered : [Plugins -> Copies \cup {NoCopy}], active : [Plugins -> Copies \cup {NoCopy}],
   hooked : [Plugins -> SUBSET Copies], uncleaned : SUBSET Plugins, replaced : SUBSET Plugins]

\* What holds of each plugin in a state: the two properties of plugins.
PluginOK(s, p) ==
  /\ s.active[p] \in {NoCopy, s.registered[p]} \/ p \in s.replaced \cup s.uncleaned
  /\ \/ s.hooked[p] = {s.active[p]} \ {NoCopy}
     \/ p \in s.uncleaned /\ s.hooked[p] = {}

StateOK(s) == s \in PluginStates /\ \A p \in Plugins : PluginOK(s, p)

\* A plugin that is stopped, or could not be.
AtRest(s, p) == s.active[p] = NoCopy \/ p \in s.uncleaned

\* An object's name is never that of none.
LEMMA CopyFacts == NoCopy \notin Copies /\ Copies \subseteq Nat
BY PluginLifecycleAssumption DEF NoCopy

LEMMA StartedOK ==
  ASSUME NEW s, StateOK(s), NEW p \in Plugins, NEW t \in Started(s, p)
  PROVE  StateOK(t)
<1>1. CASE t = s
  BY <1>1
<1>2. CASE t # s
  <2> DEFINE c == s.registered[p]
  <2>1. /\ c # NoCopy /\ s.active[p] = NoCopy
        /\ t = [s EXCEPT !.active[p] = c, !.hooked[p] = @ \cup {c}]
    BY <1>2 DEF Started
  <2>2. s \in PluginStates /\ c \in Copies /\ s.hooked[p] \subseteq Copies
    BY <2>1 DEF StateOK, PluginStates
  <2>3. s.hooked[p] = {}
    BY <2>1 DEF StateOK, PluginOK
  <2>4. /\ t \in PluginStates /\ t.registered = s.registered
        /\ t.active = [s.active EXCEPT ![p] = c] /\ t.hooked = [s.hooked EXCEPT ![p] = {c}]
        /\ t.uncleaned = s.uncleaned /\ t.replaced = s.replaced
    BY <2>1, <2>2, <2>3 DEF PluginStates
  <2> HIDE DEF c
  <2>5. ASSUME NEW q \in Plugins PROVE PluginOK(t, q)
    <3>1. CASE q = p
      <4>1. t.active[q] = c /\ t.hooked[q] = {c} /\ t.registered[q] = c
        BY <2>2, <2>4, <3>1 DEF PluginStates, c
      <4> QED BY <2>2, <4>1, CopyFacts DEF PluginOK
    <3>2. CASE q # p
      <4>1. t.active[q] = s.active[q] /\ t.hooked[q] = s.hooked[q]
        BY <2>2, <2>4, <3>2 DEF PluginStates
      <4> QED BY <2>4, <4>1 DEF StateOK, PluginOK
    <3> QED BY <3>1, <3>2
  <2> QED BY <2>4, <2>5 DEF StateOK
<1> QED
  BY <1>1, <1>2

LEMMA StoppedOK ==
  ASSUME NEW s, StateOK(s), NEW p \in Plugins, NEW t \in Stopped(s, p)
  PROVE  StateOK(t) /\ AtRest(t, p)
<1>0. s \in PluginStates
  BY DEF StateOK
<1>1. CASE s.active[p] = NoCopy
  BY <1>1 DEF Stopped, AtRest
<1>2. CASE t = [s EXCEPT !.uncleaned = @ \cup {p}]
  <2>1. /\ t \in PluginStates /\ t.registered = s.registered /\ t.active = s.active
        /\ t.hooked = s.hooked /\ t.replaced = s.replaced
        /\ t.uncleaned = s.uncleaned \cup {p}
    BY <1>0, <1>2 DEF PluginStates
  <2> QED BY <2>1 DEF StateOK, PluginOK, AtRest
<1>3. CASE t = [s EXCEPT !.active[p] = NoCopy, !.hooked[p] = {},
                         !.uncleaned = @ \ {p}, !.replaced = @ \ {p}]
  <2>1. /\ t \in PluginStates /\ t.registered = s.registered
        /\ t.active = [s.active EXCEPT ![p] = NoCopy] /\ t.hooked = [s.hooked EXCEPT ![p] = {}]
        /\ t.uncleaned = s.uncleaned \ {p} /\ t.replaced = s.replaced \ {p}
    BY <1>0, <1>3 DEF PluginStates
  <2>2. t.active[p] = NoCopy /\ t.hooked[p] = {}
    BY <1>0, <2>1 DEF PluginStates
  <2>3. ASSUME NEW q \in Plugins, q # p PROVE PluginOK(t, q)
    <3>1. t.active[q] = s.active[q] /\ t.hooked[q] = s.hooked[q]
      BY <1>0, <2>1, <2>3 DEF PluginStates
    <3> QED BY <2>1, <2>3, <3>1 DEF StateOK, PluginOK
  <2> QED BY <2>1, <2>2, <2>3 DEF StateOK, PluginOK, AtRest
<1> QED
  BY <1>1, <1>2, <1>3 DEF Stopped

LEMMA RegisteredOK ==
  ASSUME NEW s, StateOK(s), NEW p \in Plugins, NEW t \in Registered(s, p)
  PROVE  StateOK(t) /\ (s.active[p] = NoCopy => t.active[p] = NoCopy)
<1>0. s \in PluginStates
  BY DEF StateOK
<1> DEFINE others == Copies \ ({s.registered[p], s.active[p]} \cup s.hooked[p])
           c == Min(others)
           over == IF s.active[p] = NoCopy THEN {} ELSE {p}
<1>1. c \in Copies
  <2>1. s.hooked[p] \subseteq {s.active[p]}
    BY DEF StateOK, PluginOK
  <2>2. others # {}
    <3>1. s.registered[p] \in Copies \cup {NoCopy} /\ s.active[p] \in Copies \cup {NoCopy}
      BY <1>0 DEF PluginStates
    <3>2. others = Copies \ {s.registered[p], s.active[p]}
      BY <2>1
    <3>3. \A x, y \in Copies \cup {NoCopy} : Copies \ {x, y} # {}
      <4> SUFFICES ASSUME NEW x \in Copies \cup {NoCopy}, NEW y \in Copies \cup {NoCopy}
                   PROVE  Copies \ {x, y} # {}
        OBVIOUS
      <4>1. /\ NoCopy \notin Copies /\ Copies # {}
            /\ \A a, b \in Copies : Copies \ {a, b} # {}
        BY CopyFacts, PluginLifecycleAssumption
      <4>2. CASE x \in Copies /\ y \in Copies
        BY <4>1, <4>2
      <4>3. CASE x = NoCopy /\ y \in Copies
        <5>1. Copies \ {y, y} # {}
          BY <4>1, <4>3
        <5> QED BY <4>1, <4>3, <5>1
      <4>4. CASE x \in Copies /\ y = NoCopy
        <5>1. Copies \ {x, x} # {}
          BY <4>1, <4>4
        <5> QED BY <4>1, <4>4, <5>1
      <4>5. CASE x = NoCopy /\ y = NoCopy
        BY <4>1, <4>5
      <4> QED BY <4>2, <4>3, <4>4, <4>5
    <3> QED BY <3>1, <3>2, <3>3
  <2>3. others \subseteq Nat
    BY CopyFacts
  <2> HIDE DEF others
  <2>4. \E m \in others : \A n \in others : m <= n
    BY <2>2, <2>3, Least
  <2>5. c \in others
    BY <2>4 DEF Min
  <2> QED BY <2>5 DEF others
<1> HIDE DEF c
<1>2. CASE t = s
  BY <1>2
<1>3. CASE t = [s EXCEPT !.registered[p] = c, !.replaced = @ \cup over]
  <2>1. /\ t \in PluginStates /\ t.registered = [s.registered EXCEPT ![p] = c]
        /\ t.active = s.active /\ t.hooked = s.hooked
        /\ t.uncleaned = s.uncleaned /\ t.replaced = s.replaced \cup over
    BY <1>0, <1>1, <1>3 DEF PluginStates
  <2>2. ASSUME NEW q \in Plugins PROVE PluginOK(t, q)
    <3>1. CASE q = p
      <4>1. t.active[q] = NoCopy \/ q \in t.replaced
        BY <2>1, <3>1
      <4> QED BY <2>1, <4>1 DEF StateOK, PluginOK
    <3>2. CASE q # p
      <4>1. t.registered[q] = s.registered[q]
        BY <1>0, <2>1, <3>2 DEF PluginStates
      <4> QED BY <2>1, <4>1 DEF StateOK, PluginOK
    <3> QED BY <3>1, <3>2
  <2> QED BY <2>1, <2>2 DEF StateOK
<1> QED
  BY <1>2, <1>3 DEF Registered, c

LEMMA UnregisteredOK ==
  ASSUME NEW s, StateOK(s), NEW p \in Plugins, AtRest(s, p), NEW t \in Unregistered(s, p)
  PROVE  StateOK(t)
<1>0. s \in PluginStates
  BY DEF StateOK
<1>1. CASE t = s
  BY <1>1
<1>2. CASE t = [s EXCEPT !.registered[p] = NoCopy]
  <2>1. /\ t \in PluginStates /\ t.registered = [s.registered EXCEPT ![p] = NoCopy]
        /\ t.active = s.active /\ t.hooked = s.hooked
        /\ t.uncleaned = s.uncleaned /\ t.replaced = s.replaced
    BY <1>0, <1>2 DEF PluginStates
  <2>2. ASSUME NEW q \in Plugins PROVE PluginOK(t, q)
    <3>1. CASE q = p
      BY <2>1, <3>1 DEF StateOK, PluginOK, AtRest
    <3>2. CASE q # p
      <4>1. t.registered[q] = s.registered[q]
        BY <1>0, <2>1, <3>2 DEF PluginStates
      <4> QED BY <2>1, <4>1 DEF StateOK, PluginOK
    <3> QED BY <3>1, <3>2
  <2> QED BY <2>1, <2>2 DEF StateOK
<1> QED
  BY <1>1, <1>2 DEF Unregistered

\* Its hooks are taken out of a plugin that is stopped or could not be.
LEMMA UnloadedOK ==
  ASSUME NEW s, StateOK(s), NEW p \in Plugins, NEW t \in Unloaded(s, p)
  PROVE  StateOK(t)
<1>1. PICK u \in Stopped(s, p) : t \in Unregistered([u EXCEPT !.hooked[p] = {}], p)
  BY DEF Unloaded
<1>2. StateOK(u) /\ AtRest(u, p) /\ u \in PluginStates
  BY StoppedOK DEF StateOK
<1>3. PICK v : v = [u EXCEPT !.hooked[p] = {}]
  OBVIOUS
<1>4. /\ v \in PluginStates /\ v.registered = u.registered
      /\ v.active = u.active /\ v.hooked = [u.hooked EXCEPT ![p] = {}]
      /\ v.uncleaned = u.uncleaned /\ v.replaced = u.replaced
  BY <1>2, <1>3 DEF PluginStates
<1>5. ASSUME NEW q \in Plugins PROVE PluginOK(v, q)
  <2>1. CASE q = p
    <3>1. v.hooked[q] = {}
      BY <1>2, <1>4, <2>1 DEF PluginStates
    <3> QED BY <1>2, <1>4, <2>1, <3>1 DEF StateOK, PluginOK, AtRest
  <2>2. CASE q # p
    <3>1. v.hooked[q] = u.hooked[q]
      BY <1>2, <1>4, <2>2 DEF PluginStates
    <3> QED BY <1>2, <1>4, <3>1 DEF StateOK, PluginOK
  <2> QED BY <2>1, <2>2
<1>6. StateOK(v) /\ AtRest(v, p) /\ t \in Unregistered(v, p)
  BY <1>1, <1>2, <1>3, <1>4, <1>5 DEF StateOK, AtRest
<1> QED
  BY <1>6, UnregisteredOK

\* A reload stops at whichever of its steps fails.
LEMMA ReloadedOK ==
  ASSUME NEW s, StateOK(s), NEW p \in Plugins, NEW t \in Reloaded(s, p)
  PROVE  StateOK(t)
<1> DEFINE stopped == Stopped(s, p)
           removed == UNION {Unregistered(u, p) : u \in {u \in stopped : u.registered[p] # NoCopy}}
           renewed == UNION {Registered(u, p) \ {u} : u \in removed}
<1>1. \A u \in stopped : StateOK(u) /\ AtRest(u, p)
  BY StoppedOK
<1>2. \A u \in removed : StateOK(u)
  <2> SUFFICES ASSUME NEW v \in stopped, NEW u \in Unregistered(v, p) PROVE StateOK(u)
    OBVIOUS
  <2> QED BY <1>1, UnregisteredOK
<1>3. \A u \in renewed : StateOK(u)
  <2> SUFFICES ASSUME NEW v \in removed, NEW u \in Registered(v, p) PROVE StateOK(u)
    OBVIOUS
  <2> QED BY <1>2, RegisteredOK
<1>4. t \in stopped \cup removed \cup UNION {Started(u, p) : u \in renewed}
  BY DEF Reloaded
<1> HIDE DEF stopped, removed, renewed
<1> QED
  BY <1>1, <1>2, <1>3, <1>4, StartedOK

PluginsInv == StateOK(plugins)

LEMMA PluginsInitInv == PluginsInit => PluginsInv
<1> SUFFICES ASSUME PluginsInit PROVE PluginsInv
  OBVIOUS
<1>1. /\ plugins \in PluginStates
      /\ \A p \in Plugins : plugins.active[p] = NoCopy /\ plugins.hooked[p] = {}
  BY DEF PluginsInit, PluginStates
<1> QED
  BY <1>1 DEF PluginsInv, StateOK, PluginOK

LEMMA PluginsStepInv == PluginsInv /\ [PluginsNext]_pluginVars => PluginsInv'
<1> SUFFICES ASSUME PluginsInv, [PluginsNext]_pluginVars PROVE StateOK(plugins')
  BY DEF PluginsInv, StateOK, PluginOK, PluginStates
<1>0. StateOK(plugins)
  BY DEF PluginsInv
<1>1. CASE UNCHANGED pluginVars
  BY <1>0, <1>1 DEF pluginVars
<1>2. ASSUME NEW p \in Plugins, LoadPlugin(p) PROVE StateOK(plugins')
  <2>1. PICK s \in Loaded(plugins, p) : plugins' \in Started(s, p)
    BY <1>2 DEF LoadPlugin
  <2>2. StateOK(s)
    BY <1>0, <2>1, RegisteredOK DEF Loaded
  <2> QED BY <2>1, <2>2, StartedOK
<1>3. ASSUME NEW p \in Plugins, LoadOnly(p) PROVE StateOK(plugins')
  BY <1>0, <1>3, RegisteredOK DEF LoadOnly, Loaded
<1>4. ASSUME NEW p \in Plugins, StartPlugin(p) PROVE StateOK(plugins')
  BY <1>0, <1>4, StartedOK DEF StartPlugin
<1>5. ASSUME NEW p \in Plugins, StopPlugin(p) PROVE StateOK(plugins')
  BY <1>0, <1>5, StoppedOK DEF StopPlugin
<1>6. ASSUME NEW p \in Plugins, UnloadPlugin(p) PROVE StateOK(plugins')
  BY <1>0, <1>6, UnloadedOK DEF UnloadPlugin
<1>7. ASSUME NEW p \in Plugins, ReloadPlugin(p) PROVE StateOK(plugins')
  BY <1>0, <1>7, ReloadedOK DEF ReloadPlugin
<1> QED
  BY <1>1, <1>2, <1>3, <1>4, <1>5, <1>6, <1>7 DEF PluginsNext

LEMMA PluginsAlways == PluginsSpec => []PluginsInv
BY PluginsInitInv, PluginsStepInv, PTL DEF PluginsSpec

\* The manager's and the registry's maps hold objects of their own plugins.
THEOREM PluginsTypeCorrect == PluginsSpec => []PluginsTypeOK
<1>1. PluginsInv => PluginsTypeOK
  BY DEF PluginsInv, StateOK, PluginStates, PluginsTypeOK
<1> QED
  BY <1>1, PluginsAlways, PTL

\* The object that is active is the registered one, unless the plugin was
\* registered anew while active or a cleanup failed.
THEOREM PluginsActiveIsRegistered == PluginsSpec => []ActiveIsRegistered
<1>1. PluginsInv => ActiveIsRegistered
  BY DEF PluginsInv, StateOK, PluginOK, ActiveIsRegistered
<1> QED
  BY <1>1, PluginsAlways, PTL

\* Requests run the hooks of the active objects and of no others.
THEOREM PluginsHooksFollowActive == PluginsSpec => []HooksFollowActive
<1>1. PluginsInv => HooksFollowActive
  BY DEF PluginsInv, StateOK, PluginOK, HooksFollowActive
<1> QED
  BY <1>1, PluginsAlways, PTL

-----------------------------------------------------------------------------
(* The chunks of a document *)

\* The smallest and the largest of two numbers, and of a set within bounds.
LEMMA MinOfTwo ==
  ASSUME NEW a \in Nat, NEW b \in Nat
  PROVE  Min({a, b}) = IF a <= b THEN a ELSE b
<1> DEFINE m == IF a <= b THEN a ELSE b
<1>1. m \in {a, b} /\ \A n \in {a, b} : m <= n
  OBVIOUS
<1>2. \A x \in {a, b} : (\A n \in {a, b} : x <= n) => x = m
  OBVIOUS
<1> QED
  BY <1>1, <1>2 DEF Min

LEMMA MaxBetween ==
  ASSUME NEW T, NEW n \in Nat, T \subseteq 0..n, T # {}
  PROVE  Max(T) \in T
<1>1. IsFiniteSet(0..n)
  BY FS_Interval
<1>2. IsFiniteSet(T)
  BY <1>1, FS_Subset
<1>3. T \subseteq Nat
  OBVIOUS
<1>4. \E m \in T : \A k \in T : m >= k
  BY <1>2, <1>3, Largest
<1> QED
  BY <1>4 DEF Max

LEMMA MinBetween ==
  ASSUME NEW T, NEW n \in Nat, T \subseteq 0..n, T # {}
  PROVE  Min(T) \in T /\ \A k \in T : Min(T) <= k
<1>1. T \subseteq Nat
  OBVIOUS
<1>2. \E m \in T : \A k \in T : m <= k
  BY <1>1, Least
<1> QED
  BY <1>2 DEF Min

LEMMA TextFacts ==
  ASSUME text \in Texts
  PROVE  /\ text.length \in Nat \ {0} /\ text.length <= LongestText
         /\ text.ends \subseteq 1..text.length /\ text.breaks \subseteq 1..text.length
         /\ text.spans \subseteq (0..text.length) \X (0..text.length)
         /\ text.headed \in BOOLEAN /\ LongestText \in Nat
         /\ \A n \in 0..LongestText : text.at[n] \in Nat
         /\ \A n, m \in 0..LongestText : n < m => text.at[n] < text.at[m]
<1>1. PICK n \in 1..LongestText :
        text \in [length : {n}, at : Layouts, ends : Marks(1..n), breaks : Marks(1..n),
                  spans : {{}} \cup {{s} : s \in Spans(n)}, headed : BOOLEAN]
  BY DEF Texts
<1>2. /\ text.length = n /\ text.ends \in Marks(1..n) /\ text.breaks \in Marks(1..n)
      /\ text.spans \in {{}} \cup {{s} : s \in Spans(n)} /\ text.headed \in BOOLEAN
      /\ text.at \in Layouts
  BY <1>1
<1>3. LongestText \in Nat
  BY TokenChunkingAssumption
<1>4. /\ \A i \in 0..LongestText : text.at[i] \in Nat
      /\ \A i, m \in 0..LongestText : i < m => text.at[i] < text.at[m]
  BY <1>2, TokenChunkingAssumption
<1>5. /\ text.length \in Nat \ {0} /\ text.length <= LongestText
      /\ text.ends \subseteq 1..text.length /\ text.breaks \subseteq 1..text.length
      /\ text.spans \subseteq (0..text.length) \X (0..text.length)
      /\ text.headed \in BOOLEAN
  BY <1>2, <1>3 DEF Marks, Spans
<1> QED
  BY <1>3, <1>4, <1>5

\* Between offsets in order lies a number of characters, more with each token.
LEMMA CharactersGrow ==
  ASSUME text \in Texts, NEW from \in 0..LongestText, NEW a \in 0..LongestText,
         NEW b \in 0..LongestText
  PROVE  /\ Characters(from, a) \in Int
         /\ a < b => Characters(from, a) < Characters(from, b)
         /\ Characters(from, from) = 0
         /\ Characters(a, b) = Characters(from, b) - Characters(from, a)
<1>1. text.at[from] \in Nat /\ text.at[a] \in Nat /\ text.at[b] \in Nat
  BY TextFacts
<1>2. a < b => text.at[a] < text.at[b]
  BY TextFacts
<1> QED
  BY <1>1, <1>2 DEF Characters

\* Whatever a window is cut at, something is left of it; without tables, code
\* blocks and headings it is more than seven tenths of its characters, or all.
LEMMA SentenceCutWithin ==
  ASSUME text \in Texts, NEW from \in Nat, NEW end \in Nat, from < end, end <= text.length
  PROVE  LET to == SentenceCut(from, end)
         IN  /\ to \in Nat /\ from < to /\ to <= end
             /\ \/ to = end
                \/ end < text.length /\ 10 * Characters(from, to) > 7 * Characters(from, end)
<1> DEFINE ends == {e \in text.ends : from < e /\ e <= end}
<1>1. text.length \in Nat /\ text.ends \subseteq 1..text.length
  BY TextFacts
<1>2. CASE end < text.length /\ ends # {}
             /\ 10 * Characters(from, Max(ends)) > 7 * Characters(from, end)
  <2>1. SentenceCut(from, end) = Max(ends)
    BY <1>2 DEF SentenceCut
  <2>2. ends \subseteq 0..end
    BY <1>1
  <2>3. Max(ends) \in ends
    <3> HIDE DEF ends
    <3> QED BY <1>2, <2>2, MaxBetween
  <2>4. Max(ends) \in Nat /\ from < Max(ends) /\ Max(ends) <= end
    BY <1>1, <2>3
  <2> HIDE DEF ends
  <2> QED BY <1>2, <2>1, <2>4
<1>3. CASE ~(end < text.length /\ ends # {}
             /\ 10 * Characters(from, Max(ends)) > 7 * Characters(from, end))
  <2>1. SentenceCut(from, end) = end
    BY <1>3 DEF SentenceCut
  <2> HIDE DEF ends
  <2> QED BY <2>1
<1> QED
  BY <1>2, <1>3

LEMMA SpanCutWithin ==
  ASSUME text \in Texts, NEW from \in Nat, NEW to \in Nat, from < to
  PROVE  /\ SpanCut(from, to) \in Nat /\ from < SpanCut(from, to) /\ SpanCut(from, to) <= to
         /\ text.spans = {} => SpanCut(from, to) = to
<1> DEFINE reached == Reached(from, to)
           cut == reached # {} /\ Min(reached) > from /\ Characters(from, Min(reached)) > MinCut
<1>1. text.length \in Nat /\ text.spans \subseteq (0..text.length) \X (0..text.length)
  BY TextFacts
<1>2. \A r \in reached : r \in 0..text.length /\ r < to
  BY <1>1 DEF Reached
<1>3. text.spans = {} => reached = {}
  BY DEF Reached
<1>4. SpanCut(from, to) = IF cut THEN Min(reached) ELSE to
  BY DEF SpanCut
<1>5. cut => reached # {} /\ Min(reached) > from
  OBVIOUS
<1> HIDE DEF reached, cut
<1>6. reached # {} => Min(reached) \in reached
  BY <1>1, <1>2, MinBetween
<1>7. CASE cut
  <2>1. Min(reached) \in Nat /\ Min(reached) < to /\ SpanCut(from, to) = Min(reached)
    BY <1>1, <1>2, <1>4, <1>5, <1>6, <1>7
  <2> QED BY <1>3, <1>5, <1>7, <2>1
<1>8. CASE ~cut
  BY <1>4, <1>8
<1> QED
  BY <1>7, <1>8

LEMMA HeadingCutWithin ==
  ASSUME text \in Texts, NEW from \in Nat, NEW to \in Nat, from < to, to <= text.length
  PROVE  /\ HeadingCut(from, to) \in Nat /\ from < HeadingCut(from, to) /\ HeadingCut(from, to) <= to
         /\ ~text.headed => HeadingCut(from, to) = to
<1> DEFINE cuts == {b \in text.breaks : from <= b /\ b < to}
                     \cup {s[1] : s \in {s \in text.spans : from < s[1] /\ s[1] < to}}
           cut == text.headed /\ Characters(from, to) > MinHeaded /\ cuts # {}
                    /\ 10 * Characters(from, Max(cuts)) > 6 * Characters(from, to)
<1>1. /\ text.length \in Nat /\ text.breaks \subseteq 1..text.length
      /\ text.spans \subseteq (0..text.length) \X (0..text.length)
  BY TextFacts
<1>2. \A c \in cuts : c \in Nat /\ from <= c /\ c < to
  BY <1>1
<1>3. HeadingCut(from, to) = IF cut THEN Max(cuts) ELSE to
  BY DEF HeadingCut
<1> HIDE DEF cuts
<1>4. CASE cut
  <2>1. cuts # {} /\ cuts \subseteq 0..to
    BY <1>2, <1>4
  <2>2. Max(cuts) \in cuts
    BY <2>1, MaxBetween
  <2>3. /\ Max(cuts) \in Nat /\ from <= Max(cuts) /\ Max(cuts) < to
        /\ 10 * Characters(from, Max(cuts)) > 6 * Characters(from, to)
    BY <1>2, <1>4, <2>2
  <2>4. from < Max(cuts)
    <3>1. from \in 0..LongestText /\ to \in 0..LongestText
      BY TextFacts
    <3>2. Characters(from, from) = 0 /\ Characters(from, to) \in Int /\ Characters(from, to) > 0
      BY <3>1, CharactersGrow
    <3>3. Max(cuts) # from
      BY <2>3, <3>2
    <3> QED BY <2>3, <3>3
  <2> QED BY <1>3, <1>4, <2>3, <2>4
<1>5. CASE ~cut
  <2> HIDE DEF cut
  <2> QED BY <1>3, <1>5
<1> QED
  BY <1>4, <1>5

\* Chunks follow one another and all begin before the next one will, and nothing
\* before that is lost of prose with enough overlap.
ChunksInv == ChunksTypeOK /\ ChunksAdvance /\ ProseKept

LEMMA ChunksInitInv == ChunksInit => ChunksInv
<1> SUFFICES ASSUME ChunksInit PROVE ChunksInv
  OBVIOUS
<1>1. LongestText \in Nat /\ MostChunks \in Nat
  BY TokenChunkingAssumption
<1>2. chunks = <<>> /\ chunks \in Seq(Chunk) /\ Len(chunks) = 0 /\ DOMAIN chunks = {} /\ start = 0
  BY DEF ChunksInit
<1>3. ChunksTypeOK
  BY <1>1, <1>2 DEF ChunksInit, ChunksTypeOK
<1>4. ChunksAdvance
  BY <1>2 DEF ChunksAdvance
<1>5. ProseKept
  BY <1>2 DEF ProseKept
<1> QED
  BY <1>3, <1>4, <1>5 DEF ChunksInv

\* One more chunk, from the start of the window.
LEMMA ChunkAdded ==
  ASSUME ChunksInv, UNCHANGED <<text, overlap>>, Len(chunks) <= MostChunks,
         NEW to \in Nat, NEW end \in Nat,
         chunks' = Append(chunks, [from |-> start, to |-> to, end |-> end]),
         start < to, to <= end, end <= LongestText, to - start <= ChunkSize,
         start' \in Nat, start < start', start' <= LongestText,
         text.spans = {} /\ ~text.headed /\ OverlapsCover' => start' <= to
  PROVE  ChunksInv'
<1> DEFINE chunk == [from |-> start, to |-> to, end |-> end]
<1>0. /\ LongestText \in Nat /\ MostChunks \in Nat /\ start \in 0..LongestText
      /\ chunks \in Seq(Chunk) /\ Len(chunks) \in Nat
  BY TokenChunkingAssumption DEF ChunksInv, ChunksTypeOK
<1>1. chunk \in Chunk /\ chunk.from = start /\ chunk.to = to
  BY <1>0 DEF Chunk
<1> HIDE DEF chunk
<1>2. /\ chunks' \in Seq(Chunk) /\ Len(chunks') = Len(chunks) + 1
      /\ chunks'[Len(chunks) + 1] = chunk /\ \A i \in 1..Len(chunks) : chunks'[i] = chunks[i]
      /\ DOMAIN chunks = 1..Len(chunks) /\ DOMAIN chunks' = 1..Len(chunks')
  BY <1>0, <1>1 DEF chunk
<1>3. ChunksTypeOK'
  <2>1. text' \in Texts /\ overlap' \in Overlaps
    BY DEF ChunksInv, ChunksTypeOK
  <2>2. start' \in 0..LongestText /\ Len(chunks') <= MostChunks + 1
    BY <1>0, <1>2
  <2> QED BY <1>2, <2>1, <2>2 DEF ChunksTypeOK
<1>4. \A i \in 1..Len(chunks) : /\ chunks[i] \in Chunk
                                /\ chunks[i].from \in Nat /\ chunks[i].to \in Nat
                                /\ chunks[i].from < chunks[i].to
                                /\ chunks[i].to - chunks[i].from <= ChunkSize
                                /\ i > 1 => chunks[i].from > chunks[i - 1].from
                                /\ chunks[i].from < start
  <2>1. \A i \in 1..Len(chunks) : chunks[i] \in Chunk
    BY <1>0
  <2>2. \A c \in Chunk : c.from \in Nat /\ c.to \in Nat
    BY DEF Chunk
  <2> QED BY <1>2, <2>1, <2>2 DEF ChunksInv, ChunksAdvance
<1>5. ASSUME NEW i \in DOMAIN chunks'
      PROVE  /\ chunks'[i].from < chunks'[i].to /\ chunks'[i].to - chunks'[i].from <= ChunkSize
             /\ i > 1 => chunks'[i].from > chunks'[i - 1].from
             /\ chunks'[i].from < start'
  <2>1. CASE i = Len(chunks) + 1
    <3>1. i > 1 => i - 1 \in 1..Len(chunks)
      BY <1>0, <2>1
    <3>2. chunks'[i] = chunk /\ (i > 1 => chunks'[i - 1] = chunks[i - 1] /\ chunks[i - 1].from < start)
      BY <1>2, <1>4, <2>1, <3>1
    <3> QED BY <1>0, <1>1, <1>4, <3>1, <3>2
  <2>2. CASE i # Len(chunks) + 1
    <3>1. i \in 1..Len(chunks) /\ (i > 1 => i - 1 \in 1..Len(chunks))
      BY <1>0, <1>2, <2>2
    <3>2. chunks'[i] = chunks[i] /\ (i > 1 => chunks'[i - 1] = chunks[i - 1])
      BY <1>2, <3>1
    <3>3. chunks[i].from < start'
      BY <1>0, <1>4, <3>1
    <3> QED BY <1>4, <3>1, <3>2, <3>3
  <2> QED BY <2>1, <2>2
<1>6. ChunksAdvance'
  BY <1>5 DEF ChunksAdvance
<1>7. ProseKept'
  <2> SUFFICES ASSUME text.spans = {} /\ ~text.headed, OverlapsCover',
                      NEW t \in 0..start' - 1
               PROVE  \E i \in DOMAIN chunks' : chunks'[i].from <= t /\ t < chunks'[i].to
    BY DEF ProseKept, Kept
  <2>0. OverlapsCover
    <3>1. \A i \in DOMAIN chunks : i \in DOMAIN chunks' /\ chunks'[i] = chunks[i]
      BY <1>0, <1>2
    <3> QED BY <3>1 DEF OverlapsCover, Characters
  <2>1. CASE t < start
    <3>1. t \in 0..start - 1
      BY <1>0, <2>1
    <3>2. PICK i \in DOMAIN chunks : chunks[i].from <= t /\ t < chunks[i].to
      BY <2>0, <3>1 DEF ChunksInv, ProseKept, Kept
    <3>3. i \in DOMAIN chunks' /\ chunks'[i] = chunks[i]
      BY <1>0, <1>2, <3>2
    <3> QED BY <3>2, <3>3
  <2>2. CASE ~(t < start)
    <3>1. start <= t /\ t < to
      BY <1>0, <2>2
    <3>2. Len(chunks) + 1 \in DOMAIN chunks'
      BY <1>0, <1>2
    <3> QED BY <1>1, <1>2, <3>1, <3>2
  <2> QED BY <2>1, <2>2
<1> QED
  BY <1>3, <1>6, <1>7 DEF ChunksInv

LEMMA ChunksStepInv == ChunksInv /\ [ChunksNext]_chunkVars => ChunksInv'
<1> SUFFICES ASSUME ChunksInv, [ChunksNext]_chunkVars PROVE ChunksInv'
  OBVIOUS
<1>0. /\ text \in Texts /\ overlap \in Nat /\ overlap < ChunkSize /\ ChunkSize \in Nat \ {0}
      /\ start \in Nat /\ start <= LongestText /\ LongestText \in Nat /\ MostChunks \in Nat
  BY TokenChunkingAssumption DEF ChunksInv, ChunksTypeOK
<1>1. text.length \in Nat \ {0} /\ text.length <= LongestText
  BY <1>0, TextFacts
<1>2. CASE SingleChunk
  <2>1. /\ start = 0 /\ chunks = <<>> /\ text.length <= ChunkSize
        /\ chunks' = <<[from |-> 0, to |-> text.length, end |-> text.length]>>
        /\ start' = text.length /\ UNCHANGED <<text, overlap>>
    BY <1>2 DEF SingleChunk
  <2>2. /\ Len(chunks) <= MostChunks
        /\ chunks' = Append(chunks, [from |-> start, to |-> text.length, end |-> text.length])
    BY <1>0, <2>1
  <2> QED BY <1>0, <1>1, <2>1, <2>2, ChunkAdded
<1>3. CASE NextChunk
  <2> DEFINE end == Min({start + ChunkSize, text.length})
             a == SentenceCut(start, end)
             b == SpanCut(start, a)
             to == HeadingCut(start, b)
  <2>1. /\ text.length > ChunkSize /\ start < text.length /\ Len(chunks) <= MostChunks
        /\ chunks' = Append(chunks, [from |-> start, to |-> to, end |-> end])
        /\ start' = IF end < text.length THEN end - overlap ELSE end
        /\ UNCHANGED <<text, overlap>>
    BY <1>3 DEF NextChunk
  <2>2. end = IF start + ChunkSize <= text.length THEN start + ChunkSize ELSE text.length
    BY <1>0, <1>1, MinOfTwo
  <2> HIDE DEF end, a, b, to
  <2>3. /\ end \in Nat /\ start < end /\ end <= text.length /\ end - start <= ChunkSize
        /\ end < text.length => end = start + ChunkSize
    BY <1>0, <1>1, <2>1, <2>2
  <2>4. /\ a \in Nat /\ start < a /\ a <= end
        /\ \/ a = end
           \/ end < text.length /\ 10 * Characters(start, a) > 7 * Characters(start, end)
    BY <1>0, <2>3, SentenceCutWithin DEF a
  <2>5. b \in Nat /\ start < b /\ b <= a /\ (text.spans = {} => b = a)
    BY <1>0, <2>4, SpanCutWithin DEF b
  <2>6. to \in Nat /\ start < to /\ to <= b /\ (~text.headed => to = b)
    BY <1>0, <1>1, <2>3, <2>4, <2>5, HeadingCutWithin DEF to
  <2>7. start' \in Nat /\ start < start' /\ start' <= LongestText
    BY <1>0, <1>1, <2>1, <2>3
  <2>8. to <= end /\ end <= LongestText /\ to - start <= ChunkSize
    BY <1>0, <1>1, <2>3, <2>4, <2>5, <2>6
  <2>9. ASSUME text.spans = {} /\ ~text.headed, OverlapsCover'
        PROVE  start' <= to
    <3>1. to = a
      BY <2>5, <2>6, <2>9
    <3>2. CASE end < text.length
      <4>1. end = start + ChunkSize /\ start' = end - overlap
        BY <2>1, <2>3, <3>2
      <4> DEFINE next == end - overlap
      <4>2. /\ next \in Nat /\ next <= end /\ next \in 0..LongestText
            /\ start \in 0..LongestText /\ a \in 0..LongestText /\ end \in 0..LongestText
        BY <1>0, <2>4, <2>8, <4>1
      <4>3. 10 * Characters(next, end) >= 3 * Characters(start, end)
        <5>1. chunks \in Seq(Chunk) /\ Len(chunks) \in Nat
          BY DEF ChunksInv, ChunksTypeOK
        <5>2. /\ Len(chunks) + 1 \in DOMAIN chunks'
              /\ chunks'[Len(chunks) + 1] = [from |-> start, to |-> to, end |-> end]
          BY <2>1, <5>1, AppendProperties
        <5> QED BY <2>1, <2>9, <3>2, <5>2 DEF OverlapsCover, Characters
      <4> HIDE DEF next
      <4>4. Characters(next, end) = Characters(start, end) - Characters(start, next)
        BY <1>0, <4>2, CharactersGrow
      <4>5. /\ Characters(start, next) \in Int /\ Characters(start, end) \in Int
            /\ Characters(start, a) \in Int
            /\ a < next => Characters(start, a) < Characters(start, next)
        BY <1>0, <4>2, CharactersGrow
      <4>6. 10 * Characters(start, next) <= 7 * Characters(start, end)
        BY <4>3, <4>4, <4>5
      <4>7. ~(a < next)
        <5>1. CASE a = end
          BY <4>2, <5>1
        <5>2. CASE a # end
          BY <2>4, <4>5, <4>6, <5>2
        <5> QED BY <5>1, <5>2
      <4>8. start' = next
        BY <4>1 DEF next
      <4> QED BY <2>4, <3>1, <4>2, <4>7, <4>8
    <3>3. CASE ~(end < text.length)
      BY <2>1, <2>4, <3>1, <3>3, <2>3
    <3> QED BY <3>2, <3>3
  <2> QED BY <2>1, <2>3, <2>6, <2>7, <2>8, <2>9, ChunkAdded
<1>4. CASE UNCHANGED chunkVars
  BY <1>4 DEF chunkVars, ChunksInv, ChunksTypeOK, ChunksAdvance, ProseKept, Kept,
              OverlapsCover, Characters
<1> QED
  BY <1>2, <1>3, <1>4 DEF ChunksNext

LEMMA ChunksAlways == ChunksSpec => []ChunksInv
BY ChunksInitInv, ChunksStepInv, PTL DEF ChunksSpec

\* Chunks lie within their document, and there is at most one above the limit.
THEOREM ChunksTypeCorrect == ChunksSpec => []ChunksTypeOK
<1>1. ChunksInv => ChunksTypeOK
  BY DEF ChunksInv
<1> QED
  BY <1>1, ChunksAlways, PTL

\* However sentences, paragraphs, tables and headings lie, each chunk holds
\* something, no more than its size, and begins after the one before: chunking ends.
THEOREM ChunkingAdvances == ChunksSpec => []ChunksAdvance
<1>1. ChunksInv => ChunksAdvance
  BY DEF ChunksInv
<1> QED
  BY <1>1, ChunksAlways, PTL

\* Of prose of any length and any layout, every token is in some chunk if the tokens
\* in which windows overlap hold three tenths of the characters (token_chunker.py:532
\* cuts by characters, :454 overlaps by tokens).
THEOREM ProseIsKept == ChunksSpec => []ProseKept
<1>1. ChunksInv => ProseKept
  BY DEF ChunksInv
<1> QED
  BY <1>1, ChunksAlways, PTL

-----------------------------------------------------------------------------
(* The chunks as they are merged and split *)

\* The sequences of a sequence one after the other, as the values of a function.
LEMMA FlattenDef ==
  ASSUME NEW A, NEW s \in Seq(Seq(A))
  PROVE  \E f \in [0..Len(s) -> Seq(A)] :
           /\ f[0] = <<>> /\ \A k \in 1..Len(s) : f[k] = f[k - 1] \o s[k]
           /\ FlattenSeq(s) = f[Len(s)]
<1>0. Len(s) \in Nat /\ \A k \in 1..Len(s) : s[k] \in Seq(A)
  OBVIOUS
<1>1. \A a, b \in Seq(A) : a \o b \in Seq(A) /\ <<>> \o b = b
  BY ConcatProperties, ConcatEmptySeq
<1>2. CASE Len(s) = 0
  <2>1. s = <<>> /\ FlattenSeq(s) = s
    BY <1>2 DEF FlattenSeq
  <2>2. PICK f : f = [k \in 0..0 |-> <<>>]
    OBVIOUS
  <2>3. f \in [0..Len(s) -> Seq(A)] /\ f[0] = <<>> /\ FlattenSeq(s) = f[Len(s)]
    BY <1>2, <2>1, <2>2
  <2> QED BY <1>2, <2>3
<1>3. CASE Len(s) # 0
  <2>1. PICK next : next = [k \in 1..Len(s) |-> [v \in Seq(A) |-> v \o s[k]]]
    OBVIOUS
  <2>2. next \in [1..Len(s) -> [Seq(A) -> Seq(A)]]
    BY <1>0, <1>1, <2>1
  <2>3. <<>> \in Seq(A)
    OBVIOUS
  <2>4. PICK f \in [0..Len(s) -> Seq(A)] :
          f[0] = <<>> /\ \A k \in 1..Len(s) : f[k] = next[k][f[k - 1]]
    <3>1. PICK V, n, e : V = Seq(A) /\ n = Len(s) /\ e = <<>>
      OBVIOUS
    <3>2. \E f \in [0..n -> V] : f[0] = e /\ \A k \in 1..n : f[k] = next[k][f[k - 1]]
      <4>1. n \in Nat /\ next \in [1..n -> [V -> V]] /\ e \in V
        BY <1>0, <2>2, <2>3, <3>1
      <4> QED BY <4>1, Iterated
    <3> QED BY <3>1, <3>2
  <2>5. ASSUME NEW k \in 1..Len(s) PROVE f[k] = f[k - 1] \o s[k]
    <3>1. f[k - 1] \in Seq(A)
      <4>1. k - 1 \in 0..Len(s)
        BY <1>0
      <4> QED BY <2>4, <4>1
    <3> QED BY <2>1, <2>4, <3>1
  <2>6. PICK g : g = [i \in 1..Len(s) |-> f[i]]
    OBVIOUS
  <2>7. \A i \in 1..Len(s) : g[i] = IF i = 1 THEN s[i] ELSE g[i - 1] \o s[i]
    <3> TAKE i \in 1..Len(s)
    <3>1. CASE i = 1
      <4>0. f[i] = f[i - 1] \o s[i]
        BY <2>5, Zenon
      <4>1. i - 1 = 0
        BY <3>1
      <4>2. f[i] = <<>> \o s[i]
        BY <2>4, <4>0, <4>1
      <4> QED BY <1>0, <1>1, <2>6, <3>1, <4>1, <4>2
    <3>2. CASE i # 1
      <4>1. i - 1 \in 1..Len(s)
        BY <1>0, <3>2
      <4>2. g[i] = f[i] /\ g[i - 1] = f[i - 1]
        BY <2>6, <4>1
      <4> QED BY <2>5, <3>2, <4>2
    <3> QED BY <3>1, <3>2
  <2>8. g = [i \in 1..Len(s) |-> IF i = 1 THEN s[i] ELSE g[i - 1] \o s[i]]
    BY <2>6, <2>7
  <2>9. PICK h : /\ h = [i \in 1..Len(s) |-> IF i = 1 THEN s[i] ELSE h[i - 1] \o s[i]]
                 /\ FlattenSeq(s) = h[Len(s)]
    BY <1>3, <2>8 DEF FlattenSeq
  <2> DEFINE G == {k \in 0..Len(s) : k = 0 \/ h[k] = f[k]}
  <2>10. 0 \in G
    BY <1>0
  <2>11. ASSUME NEW k \in 1..Len(s), k - 1 \in G PROVE k \in G
    <3>1. h[k] = IF k = 1 THEN s[k] ELSE h[k - 1] \o s[k]
      BY <2>9
    <3>2. CASE k = 1
      <4>1. g[k] = s[k] /\ g[k] = f[k]
        BY <2>6, <2>7, <3>2
      <4> QED BY <3>1, <3>2, <4>1
    <3>3. CASE k # 1
      <4>1. h[k - 1] = f[k - 1]
        BY <1>0, <2>11, <3>3
      <4>2. h[k] = f[k]
        BY <2>5, <3>1, <3>3, <4>1
      <4> QED BY <1>0, <4>2
    <3> QED BY <3>2, <3>3
  <2> HIDE DEF G
  <2>12. 0..Len(s) \subseteq G
    BY <1>0, <2>10, <2>11, Segment
  <2>13. h[Len(s)] = f[Len(s)]
    BY <1>0, <1>3, <2>12 DEF G
  <2> QED BY <2>4, <2>5, <2>9, <2>13
<1> QED
  BY <1>2, <1>3

LEMMA FlattenAppend ==
  ASSUME NEW A, NEW s \in Seq(Seq(A)), NEW x \in Seq(A)
  PROVE  /\ FlattenSeq(s) \in Seq(A) /\ FlattenSeq(<<>>) = <<>>
         /\ FlattenSeq(Append(s, x)) = FlattenSeq(s) \o x
<1>0. Len(s) \in Nat
  OBVIOUS
<1>1. PICK t : t = Append(s, x)
  OBVIOUS
<1>2. /\ t \in Seq(Seq(A)) /\ Len(t) = Len(s) + 1 /\ t[Len(s) + 1] = x
      /\ \A k \in 1..Len(s) : t[k] = s[k]
  BY <1>1, AppendProperties
<1>3. PICK f \in [0..Len(s) -> Seq(A)] :
        /\ f[0] = <<>> /\ \A k \in 1..Len(s) : f[k] = f[k - 1] \o s[k]
        /\ FlattenSeq(s) = f[Len(s)]
  BY FlattenDef
<1>4. PICK g \in [0..Len(t) -> Seq(A)] :
        /\ g[0] = <<>> /\ \A k \in 1..Len(t) : g[k] = g[k - 1] \o t[k]
        /\ FlattenSeq(t) = g[Len(t)]
  BY <1>2, FlattenDef
<1> DEFINE G == {k \in 0..Len(s) : g[k] = f[k]}
<1>5. 0 \in G
  BY <1>0, <1>3, <1>4
<1>6. ASSUME NEW k \in 1..Len(s), k - 1 \in G PROVE k \in G
  <2>1. k \in 1..Len(t) /\ k \in 0..Len(s)
    BY <1>0, <1>2
  <2>2. g[k] = g[k - 1] \o t[k]
    BY <1>4, <2>1, Zenon
  <2>3. f[k] = f[k - 1] \o s[k]
    BY <1>3, Zenon
  <2>4. g[k - 1] = f[k - 1] /\ t[k] = s[k]
    BY <1>2, <1>6, Zenon
  <2>5. g[k] = f[k]
    BY <2>2, <2>3, <2>4, Zenon
  <2> QED BY <2>1, <2>5, Zenon
<1> HIDE DEF G
<1>7. 0..Len(s) \subseteq G
  BY <1>0, <1>5, <1>6, Segment
<1>8. g[Len(s)] = f[Len(s)]
  <2>1. Len(s) \in 0..Len(s)
    BY <1>0
  <2>2. Len(s) \in G
    BY <1>7, <2>1, Zenon
  <2> QED BY <2>2, Zenon DEF G
<1>9. FlattenSeq(t) = FlattenSeq(s) \o x
  <2>1. Len(t) \in 1..Len(t) /\ Len(t) - 1 = Len(s)
    BY <1>0, <1>2
  <2>2. g[Len(t)] = g[Len(t) - 1] \o t[Len(t)]
    BY <1>4, <2>1, Zenon
  <2> QED BY <1>2, <1>3, <1>4, <1>8, <2>1, <2>2
<1>10. FlattenSeq(s) \in Seq(A)
  BY <1>0, <1>3
<1>11. FlattenSeq(<<>>) = <<>>
  BY DEF FlattenSeq
<1> QED
  BY <1>1, <1>9, <1>10, <1>11

LEMMA FlattenConcat ==
  ASSUME NEW A, NEW s \in Seq(Seq(A)), NEW t \in Seq(Seq(A))
  PROVE  FlattenSeq(s \o t) = FlattenSeq(s) \o FlattenSeq(t)
<1>1. PICK B : B = Seq(A)
  OBVIOUS
<1>2. s \in Seq(B) /\ t \in Seq(B)
  BY <1>1
<1>3. \A u \in Seq(B) : FlattenSeq(u) \in B
  BY <1>1, FlattenAppend, EmptySeq
<1> DEFINE G == {u \in Seq(B) : FlattenSeq(s \o u) = FlattenSeq(s) \o FlattenSeq(u)}
<1>4. <<>> \in G
  <2>1. s \o <<>> = s /\ <<>> \in Seq(B)
    BY <1>2, ConcatEmptySeq, EmptySeq
  <2>2. FlattenSeq(<<>>) = <<>>
    BY DEF FlattenSeq
  <2>3. FlattenSeq(s) \o <<>> = FlattenSeq(s)
    BY <1>1, <1>2, <1>3, ConcatEmptySeq
  <2> QED BY <2>1, <2>2, <2>3
<1>5. ASSUME NEW u \in Seq(B), NEW x \in B, u \in G PROVE Append(u, x) \in G
  <2>1. s \o Append(u, x) = Append(s \o u, x) /\ s \o u \in Seq(B)
    <3>1. <<x>> \in Seq(B)
      OBVIOUS
    <3>2. s \o (u \o <<x>>) = (s \o u) \o <<x>> /\ s \o u \in Seq(B)
      BY <1>2, <3>1, ConcatAssociative, ConcatProperties
    <3> QED BY <3>2, AppendIsConcat
  <2>2. FlattenSeq(Append(s \o u, x)) = FlattenSeq(s \o u) \o x
    BY <1>1, <2>1, FlattenAppend
  <2>3. FlattenSeq(Append(u, x)) = FlattenSeq(u) \o x
    BY <1>1, FlattenAppend
  <2>4. FlattenSeq(s \o u) = FlattenSeq(s) \o FlattenSeq(u)
    BY <1>5
  <2>5. (FlattenSeq(s) \o FlattenSeq(u)) \o x = FlattenSeq(s) \o (FlattenSeq(u) \o x)
    <3>1. FlattenSeq(s) \in Seq(A) /\ FlattenSeq(u) \in Seq(A) /\ x \in Seq(A)
      BY <1>1, <1>2, <1>3
    <3> QED BY <3>1, ConcatAssociative
  <2>6. Append(u, x) \in Seq(B)
    BY AppendProperties
  <2> QED BY <2>1, <2>2, <2>3, <2>4, <2>5, <2>6
<1> HIDE DEF G
<1>6. Seq(B) \subseteq G
  BY <1>4, <1>5, SequencesIn
<1> QED
  BY <1>2, <1>6 DEF G

\* Sequences that are split further and joined in two steps.
LEMMA FlattenTwice ==
  ASSUME NEW A, NEW parts \in Seq(Seq(Seq(A))), NEW whole \in Seq(Seq(A)),
         Len(parts) = Len(whole), \A i \in 1..Len(whole) : FlattenSeq(parts[i]) = whole[i]
  PROVE  FlattenSeq(parts) \in Seq(Seq(A)) /\ FlattenSeq(FlattenSeq(parts)) = FlattenSeq(whole)
<1>1. PICK B, D : B = Seq(A) /\ D = Seq(B)
  OBVIOUS
<1>2. /\ \A s \in Seq(D), x \in D : FlattenSeq(s) \in D /\ FlattenSeq(Append(s, x)) = FlattenSeq(s) \o x
      /\ \A s \in Seq(B), x \in B : FlattenSeq(s) \in B /\ FlattenSeq(Append(s, x)) = FlattenSeq(s) \o x
  <2>1. \A s \in Seq(D), x \in D : FlattenSeq(s) \in D /\ FlattenSeq(Append(s, x)) = FlattenSeq(s) \o x
    BY <1>1, FlattenAppend
  <2>2. \A s \in Seq(B), x \in B : FlattenSeq(s) \in B /\ FlattenSeq(Append(s, x)) = FlattenSeq(s) \o x
    BY <1>1, FlattenAppend
  <2> QED BY <2>1, <2>2
<1>3. FlattenSeq(<<>>) = <<>>
  BY DEF FlattenSeq
<1> DEFINE G == {u \in Seq(D) : \A w \in Seq(B) :
                   Len(u) = Len(w) /\ (\A i \in 1..Len(w) : FlattenSeq(u[i]) = w[i])
                     => FlattenSeq(FlattenSeq(u)) = FlattenSeq(w)}
<1>4. <<>> \in G
  <2>1. \A w \in Seq(B) : Len(<<>>) = Len(w) => w = <<>>
    BY EmptySeq
  <2>2. <<>> \in Seq(D)
    OBVIOUS
  <2> QED BY <1>3, <2>1, <2>2
<1>5. ASSUME NEW u \in Seq(D), NEW x \in D, u \in G PROVE Append(u, x) \in G
  <2>0. /\ Append(u, x) \in Seq(D) /\ Len(Append(u, x)) = Len(u) + 1 /\ Append(u, x)[Len(u) + 1] = x
        /\ \A i \in 1..Len(u) : Append(u, x)[i] = u[i]
        /\ Len(u) \in Nat
    BY AppendProperties, LenProperties
  <2> SUFFICES ASSUME NEW w \in Seq(B), Len(Append(u, x)) = Len(w),
                      \A i \in 1..Len(w) : FlattenSeq(Append(u, x)[i]) = w[i]
               PROVE  FlattenSeq(FlattenSeq(Append(u, x))) = FlattenSeq(w)
    BY <2>0
  <2>1. w # <<>>
    <3>1. Len(w) = Len(u) + 1
      BY <2>0, Zenon
    <3>2. Len(w) # 0
      BY <2>0, <3>1
    <3> QED BY <3>2, EmptySeq
  <2>2. PICK v \in Seq(B), e \in B : w = Append(v, e)
    BY <2>1, SequenceEmptyOrAppend
  <2>3. /\ Len(v) \in Nat /\ Len(w) = Len(v) + 1 /\ w[Len(v) + 1] = e
        /\ \A i \in 1..Len(v) : w[i] = v[i]
    BY <2>2, AppendProperties, LenProperties
  <2>4. Len(u) = Len(v) /\ Len(v) + 1 \in 1..Len(w) /\ \A i \in 1..Len(v) : i \in 1..Len(w)
    <3>1. Len(w) = Len(u) + 1
      BY <2>0, Zenon
    <3>2. Len(u) \in Nat /\ Len(v) \in Nat /\ Len(w) = Len(v) + 1
      BY <2>0, <2>3
    <3> QED BY <3>1, <3>2
  <2>5. FlattenSeq(x) = e /\ \A i \in 1..Len(v) : FlattenSeq(u[i]) = v[i]
    BY <2>0, <2>3, <2>4, Zenon
  <2>6. FlattenSeq(FlattenSeq(u)) = FlattenSeq(v)
    BY <1>5, <2>4, <2>5, Zenon
  <2>7. FlattenSeq(FlattenSeq(Append(u, x))) = FlattenSeq(FlattenSeq(u)) \o FlattenSeq(x)
    <3>1. FlattenSeq(Append(u, x)) = FlattenSeq(u) \o x /\ FlattenSeq(u) \in D
      BY <1>2
    <3>2. FlattenSeq(FlattenSeq(u) \o x) = FlattenSeq(FlattenSeq(u)) \o FlattenSeq(x)
      BY <1>1, <3>1, FlattenConcat
    <3> QED BY <3>1, <3>2, Zenon
  <2>8. FlattenSeq(w) = FlattenSeq(v) \o e
    BY <1>2, <2>2
  <2> QED BY <2>5, <2>6, <2>7, <2>8, Zenon
<1> HIDE DEF G
<1>6. Seq(D) \subseteq G
  BY <1>4, <1>5, SequencesIn
<1>7. parts \in G /\ parts \in Seq(D) /\ whole \in Seq(B)
  BY <1>1, <1>6
<1>8. FlattenSeq(FlattenSeq(parts)) = FlattenSeq(whole)
  BY <1>7, Zenon DEF G
<1>9. FlattenSeq(parts) \in D
  <2>1. <<>> \in D
    BY <1>1
  <2> QED BY <1>2, <1>7, <2>1, Zenon
<1> QED
  BY <1>1, <1>8, <1>9

LEMMA FlattenNonEmpty ==
  ASSUME NEW A, NEW s \in Seq(Seq(A)), s # <<>>, \A i \in 1..Len(s) : s[i] # <<>>
  PROVE  FlattenSeq(s) # <<>>
<1>1. PICK B : B = Seq(A)
  OBVIOUS
<1>2. PICK p \in Seq(B), e \in B : s = Append(p, e)
  BY <1>1, SequenceEmptyOrAppend
<1>3. e # <<>>
  <2>1. Len(p) \in Nat /\ Len(s) = Len(p) + 1 /\ s[Len(p) + 1] = e
    BY <1>2, AppendProperties, LenProperties
  <2>2. Len(p) + 1 \in 1..Len(s)
    BY <2>1
  <2> QED BY <2>1, <2>2, Zenon
<1>4. FlattenSeq(s) = FlattenSeq(p) \o e /\ FlattenSeq(p) \in Seq(A) /\ e \in Seq(A)
  BY <1>1, <1>2, FlattenAppend
<1> QED
  BY <1>3, <1>4, ConcatEqualIffEmpty

LEMMA FrontAndLast ==
  ASSUME NEW S, NEW p \in Seq(S), NEW e \in S
  PROVE  Front(Append(p, e)) = p /\ Last(Append(p, e)) = e
<1>1. PICK s : s = Append(p, e)
  OBVIOUS
<1>2. /\ s \in Seq(S) /\ Len(p) \in Nat /\ Len(s) = Len(p) + 1 /\ s[Len(p) + 1] = e
      /\ \A i \in 1..Len(p) : s[i] = p[i]
  BY <1>1, AppendProperties, LenProperties
<1>3. Last(s) = e
  BY <1>2 DEF Last
<1>4. PICK n, f : n = Len(p) /\ f = SubSeq(s, 1, n)
  OBVIOUS
<1>5. f \in Seq(S) /\ Len(f) = n /\ \A i \in 1..n : f[i] = s[i]
  BY <1>2, <1>4, SubSeqProperties
<1>6. f = p
  BY <1>2, <1>4, <1>5, SeqEqual
<1>7. Front(s) = f
  BY <1>2, <1>4 DEF Front
<1> QED
  BY <1>1, <1>3, <1>6, <1>7

LEMMA PairAppended == ASSUME NEW a, NEW b PROVE Append(<<a>>, b) = <<a, b>>
<1>1. PICK S, s, t : S = {a, b} /\ s = <<a>> /\ t = <<a, b>>
  OBVIOUS
<1>2. s \in Seq(S) /\ Len(s) = 1 /\ s[1] = a /\ t \in Seq(S) /\ Len(t) = 2 /\ t[1] = a /\ t[2] = b
  BY <1>1
<1>3. /\ Append(s, b) \in Seq(S) /\ Len(Append(s, b)) = 2
      /\ Append(s, b)[1] = a /\ Append(s, b)[2] = b
  BY <1>1, <1>2, AppendProperties
<1>4. \A i \in 1..2 : i = 1 \/ i = 2
  OBVIOUS
<1>5. Append(s, b) = t
  BY <1>2, <1>3, <1>4, SeqEqual
<1> QED
  BY <1>1, <1>5

LEMMA FunctionIsSequence ==
  ASSUME NEW S, NEW n \in Nat, NEW f \in [1..n -> S]
  PROVE  f \in Seq(S) /\ Len(f) = n
OBVIOUS

\* A content in parts that hold something each.
Filled(A) == Seq(A) \ {<<>>}
Cut(A, parts, content) == parts \in Seq(Filled(A)) /\ FlattenSeq(parts) = content

LEMMA CutTypes ==
  ASSUME NEW A, NEW parts, NEW content, Cut(A, parts, content)
  PROVE  /\ parts \in Seq(Seq(A)) /\ content \in Seq(A) /\ Len(parts) \in Nat
         /\ \A i \in 1..Len(parts) : parts[i] \in Seq(A) /\ parts[i] # <<>>
<1>1. parts \in Seq(Filled(A)) /\ FlattenSeq(parts) = content
  BY DEF Cut
<1>2. Filled(A) \subseteq Seq(A)
  BY DEF Filled
<1>3. parts \in Seq(Seq(A))
  BY <1>1, <1>2, SeqMonotonic
<1>4. content \in Seq(A)
  <2>1. <<>> \in Seq(A)
    OBVIOUS
  <2> QED BY <1>1, <1>3, <2>1, FlattenAppend
<1>5. \A i \in 1..Len(parts) : parts[i] \in Filled(A)
  BY <1>1, ElementOfSeq
<1>6. Len(parts) \in Nat
  BY <1>3, LenProperties
<1> QED
  BY <1>3, <1>4, <1>5, <1>6 DEF Filled

LEMMA CutNothing == ASSUME NEW A PROVE Cut(A, <<>>, <<>>)
<1>1. FlattenSeq(<<>>) = <<>>
  BY DEF FlattenSeq
<1>2. <<>> \in Seq(Filled(A))
  OBVIOUS
<1> QED
  BY <1>1, <1>2 DEF Cut

LEMMA CutAppend ==
  ASSUME NEW A, NEW parts, NEW content, Cut(A, parts, content), NEW x \in Seq(A), x # <<>>
  PROVE  Cut(A, Append(parts, x), content \o x)
<1>1. parts \in Seq(Seq(A)) /\ FlattenSeq(parts) = content /\ parts \in Seq(Filled(A))
  BY CutTypes DEF Cut
<1>2. FlattenSeq(Append(parts, x)) = content \o x
  BY <1>1, FlattenAppend
<1>3. x \in Filled(A)
  BY DEF Filled
<1>4. Append(parts, x) \in Seq(Filled(A))
  BY <1>1, <1>3, AppendProperties
<1> QED
  BY <1>2, <1>4 DEF Cut

LEMMA CutOne ==
  ASSUME NEW A, NEW x \in Seq(A), x # <<>>
  PROVE  Cut(A, <<x>>, x)
<1>1. Cut(A, Append(<<>>, x), <<>> \o x)
  BY CutNothing, CutAppend
<1>2. <<>> \o x = x
  BY ConcatEmptySeq
<1>3. Append(<<>>, x) = <<x>>
  OBVIOUS
<1> QED
  BY <1>1, <1>2, <1>3

LEMMA CutConcat ==
  ASSUME NEW A, NEW p, NEW c, NEW q, NEW d, Cut(A, p, c), Cut(A, q, d)
  PROVE  Cut(A, p \o q, c \o d)
<1>1. p \in Seq(Seq(A)) /\ q \in Seq(Seq(A))
  BY CutTypes
<1>2. FlattenSeq(p \o q) = c \o d
  BY <1>1, FlattenConcat DEF Cut
<1>3. p \in Seq(Filled(A)) /\ q \in Seq(Filled(A))
  BY DEF Cut
<1>4. p \o q \in Seq(Filled(A))
  BY <1>3, ConcatProperties
<1> QED
  BY <1>2, <1>4 DEF Cut

\* What is cut is a last part and the parts before it.
LEMMA CutLast ==
  ASSUME NEW A, NEW parts, NEW content, Cut(A, parts, content), parts # <<>>
  PROVE  \E rest : /\ Cut(A, Front(parts), rest) /\ Last(parts) \in Seq(A) /\ Last(parts) # <<>>
                   /\ rest \o Last(parts) = content
                   /\ parts = Append(Front(parts), Last(parts))
<1>1. parts \in Seq(Filled(A)) /\ FlattenSeq(parts) = content
  BY DEF Cut
<1>2. PICK B : B = Filled(A)
  OBVIOUS
<1>3. PICK p \in Seq(B), e \in B : parts = Append(p, e)
  BY <1>1, <1>2, SequenceEmptyOrAppend
<1>4. Front(parts) = p /\ Last(parts) = e
  BY <1>3, FrontAndLast
<1>5. e \in Seq(A) /\ e # <<>>
  BY <1>2 DEF Filled
<1>6. Cut(A, p, FlattenSeq(p))
  BY <1>2 DEF Cut
<1>7. FlattenSeq(Append(p, e)) = FlattenSeq(p) \o e
  <2>1. p \in Seq(Seq(A))
    BY <1>6, CutTypes
  <2> QED BY <1>5, <2>1, FlattenAppend
<1> QED
  BY <1>1, <1>3, <1>4, <1>5, <1>6, <1>7

\* What the recursive definition of Pieces says of its k-th value.
PiecesStep(pieces, content, offsets, k) ==
  IF k = 0 THEN <<>>
  ELSE LET before == pieces[k - 1]
       IN  IF k = 1 \/ content[k - 1] + 1 \in offsets
           THEN Append(before, <<content[k]>>)
           ELSE Append(Front(before), Append(Last(before), content[k]))

LEMMA PiecesExist ==
  ASSUME NEW content, NEW offsets, NEW n \in Nat
  PROVE  \E f : f = [k \in 0..n |-> PiecesStep(f, content, offsets, k)]
<1> DEFINE E == {m \in Nat : \E f : f = [k \in 0..m |-> PiecesStep(f, content, offsets, k)]}
<1>1. 0 \in E
  <2>1. PICK f : f = [k \in 0..0 |-> <<>>]
    OBVIOUS
  <2>2. f = [k \in 0..0 |-> PiecesStep(f, content, offsets, k)]
    BY <2>1 DEF PiecesStep
  <2> QED BY <2>2
<1>2. ASSUME NEW i \in 1..n, i - 1 \in E PROVE i \in E
  <2>1. PICK f : f = [k \in 0..i - 1 |-> PiecesStep(f, content, offsets, k)]
    BY <1>2
  <2>2. PICK g : g = [k \in 0..i |-> IF k = i THEN PiecesStep(f, content, offsets, i) ELSE f[k]]
    OBVIOUS
  <2>3. ASSUME NEW k \in 0..i PROVE g[k] = PiecesStep(g, content, offsets, k)
    <3>1. CASE k = 0
      BY <2>1, <2>2, <3>1 DEF PiecesStep
    <3>2. CASE k # 0
      <4>1. g[k - 1] = f[k - 1]
        BY <2>2, <3>2
      <4>2. PiecesStep(g, content, offsets, k) = PiecesStep(f, content, offsets, k)
        BY <4>1 DEF PiecesStep
      <4>3. CASE k = i
        BY <2>2, <4>2, <4>3
      <4>4. CASE k # i
        <5>1. g[k] = f[k] /\ f[k] = PiecesStep(f, content, offsets, k)
          BY <2>1, <2>2, <4>4
        <5> QED BY <4>2, <5>1
      <4> QED BY <4>3, <4>4
    <3> QED BY <3>1, <3>2
  <2>4. g = [k \in 0..i |-> PiecesStep(g, content, offsets, k)]
    BY <2>2, <2>3
  <2> QED BY <2>4
<1> HIDE DEF E
<1>3. 0..n \subseteq E
  BY <1>1, <1>2, Segment
<1> USE DEF E
<1> QED
  BY <1>3

LEMMA PiecesDef ==
  ASSUME NEW content, Len(content) \in Nat, NEW offsets
  PROVE  \E f : /\ \A k \in 0..Len(content) : f[k] = PiecesStep(f, content, offsets, k)
                /\ Pieces(content, offsets) = f[Len(content)]
<1>1. \E f : f = [k \in 0..Len(content) |-> PiecesStep(f, content, offsets, k)]
  BY PiecesExist
<1>2. \E f : /\ f = [k \in 0..Len(content) |-> PiecesStep(f, content, offsets, k)]
             /\ Pieces(content, offsets) = f[Len(content)]
  BY <1>1 DEF Pieces, PiecesStep
<1>3. PICK f : /\ f = [k \in 0..Len(content) |-> PiecesStep(f, content, offsets, k)]
               /\ Pieces(content, offsets) = f[Len(content)]
  BY <1>2
<1>4. \A k \in 0..Len(content) : f[k] = PiecesStep(f, content, offsets, k)
  BY <1>3
<1> QED
  BY <1>3, <1>4

\* One token more in the last part.
LEMMA CutGrows ==
  ASSUME NEW A, NEW parts, NEW content, Cut(A, parts, content), parts # <<>>, NEW x \in A
  PROVE  LET longer == Append(Front(parts), Append(Last(parts), x))
         IN  Cut(A, longer, content \o <<x>>) /\ longer # <<>>
<1>1. PICK rest, front, last :
        /\ front = Front(parts) /\ last = Last(parts)
        /\ Cut(A, front, rest) /\ last \in Seq(A) /\ rest \o last = content
  BY CutLast
<1>2. PICK more : more = Append(last, x)
  OBVIOUS
<1>3. more \in Seq(A) /\ more # <<>> /\ more = last \o <<x>>
  BY <1>1, <1>2, AppendProperties, AppendIsConcat
<1>4. Cut(A, Append(front, more), rest \o more)
  BY <1>1, <1>3, CutAppend
<1>5. rest \o more = content \o <<x>>
  <2>1. rest \in Seq(A) /\ <<x>> \in Seq(A)
    BY <1>1, CutTypes
  <2>2. (rest \o last) \o <<x>> = rest \o (last \o <<x>>)
    BY <1>1, <2>1, ConcatAssociative
  <2> QED BY <1>1, <1>3, <2>2
<1>6. Append(front, more) # <<>>
  <2>1. PICK B : B = Seq(A)
    OBVIOUS
  <2>2. front \in Seq(B) /\ more \in B
    BY <1>1, <1>3, <2>1, CutTypes
  <2> QED BY <2>2, AppendProperties
<1> QED
  BY <1>1, <1>2, <1>4, <1>5, <1>6

\* However many offsets there are, the pieces hold something each and together
\* they are the content.
LEMMA PiecesCut ==
  ASSUME NEW A, NEW content \in Seq(A), NEW offsets
  PROVE  Cut(A, Pieces(content, offsets), content)
<1>0. Len(content) \in Nat
  OBVIOUS
<1>2. PICK f : /\ \A k \in 0..Len(content) : f[k] = PiecesStep(f, content, offsets, k)
               /\ Pieces(content, offsets) = f[Len(content)]
  BY <1>0, PiecesDef
<1>3. PICK prefix : prefix = [k \in 0..Len(content) |-> SubSeq(content, 1, k)]
  OBVIOUS
<1>4. prefix[0] = <<>>
  BY <1>0, <1>3, SubSeqEmpty
<1>5. ASSUME NEW k \in 1..Len(content) PROVE prefix[k] = prefix[k - 1] \o <<content[k]>>
  <2>1. 1 \in 1..Len(content) /\ k - 1 \in 0..Len(content) /\ k \in 0..Len(content)
    BY <1>0
  <2> QED BY <1>3, <2>1, SubSeqRecursiveSecond
<1>6. prefix[Len(content)] = content
  BY <1>0, <1>3, SubSeqFull
<1> DEFINE G == {k \in 0..Len(content) : Cut(A, f[k], prefix[k]) /\ (k > 0 => f[k] # <<>>)}
<1>7. 0 \in G
  <2>1. 0 \in 0..Len(content)
    BY <1>0
  <2>2. f[0] = <<>>
    BY <1>2, <2>1 DEF PiecesStep
  <2>3. Cut(A, f[0], prefix[0])
    BY <1>4, <2>2, CutNothing
  <2> QED BY <2>1, <2>3
<1>8. ASSUME NEW k \in 1..Len(content), k - 1 \in G PROVE k \in G
  <2>1. k \in 0..Len(content) /\ k # 0 /\ content[k] \in A
    BY <1>0
  <2>2. PICK before : before = f[k - 1]
    OBVIOUS
  <2>3. Cut(A, before, prefix[k - 1]) /\ (k # 1 => before # <<>>)
    BY <1>0, <1>8, <2>2
  <2>4. before \in Seq(Seq(A)) /\ prefix[k - 1] \in Seq(A)
    BY <2>3, CutTypes
  <2>a. \A p \in Seq(Seq(A)), x \in Seq(A) : Append(p, x) # <<>>
    <3>1. PICK B : B = Seq(A)
      OBVIOUS
    <3>2. \A p \in Seq(B), x \in B : Append(p, x) # <<>>
      BY AppendProperties
    <3> QED BY <3>1, <3>2
  <2>5. f[k] = IF k = 1 \/ content[k - 1] + 1 \in offsets
               THEN Append(before, <<content[k]>>)
               ELSE Append(Front(before), Append(Last(before), content[k]))
    BY <1>2, <2>1, <2>2 DEF PiecesStep
  <2>6. CASE k = 1 \/ content[k - 1] + 1 \in offsets
    <3>1. f[k] = Append(before, <<content[k]>>)
      BY <2>5, <2>6
    <3>2. <<content[k]>> \in Seq(A) /\ <<content[k]>> # <<>>
      BY <2>1
    <3>3. Cut(A, f[k], prefix[k])
      BY <1>5, <2>3, <3>1, <3>2, CutAppend
    <3>4. f[k] # <<>>
      BY <2>4, <2>a, <3>1, <3>2
    <3> QED BY <2>1, <3>3, <3>4
  <2>7. CASE ~(k = 1 \/ content[k - 1] + 1 \in offsets)
    <3>1. PICK c, x : c = prefix[k - 1] /\ x = content[k]
      OBVIOUS
    <3>2. Cut(A, before, c) /\ before # <<>> /\ x \in A
      BY <2>1, <2>3, <2>7, <3>1
    <3>3. f[k] = Append(Front(before), Append(Last(before), x))
      BY <2>5, <2>7, <3>1
    <3>4. prefix[k] = c \o <<x>>
      BY <1>5, <3>1
    <3>5. Cut(A, f[k], prefix[k]) /\ f[k] # <<>>
      BY <3>2, <3>3, <3>4, CutGrows
    <3> QED BY <2>1, <3>5
  <2> QED BY <2>6, <2>7
<1> HIDE DEF G
<1>9. 0..Len(content) \subseteq G
  BY <1>0, <1>7, <1>8, Segment
<1>10. Cut(A, f[Len(content)], prefix[Len(content)])
  <2>1. Len(content) \in 0..Len(content)
    BY <1>0
  <2> QED BY <1>9, <2>1, Zenon DEF G
<1> QED
  BY <1>2, <1>6, <1>10

LEMMA HalvedCut ==
  ASSUME NEW A, NEW content \in Seq(A), content # <<>>
  PROVE  Cut(A, Halved(content), content)
<1>1. PICK s : s = Pieces(content, text.ends)
  OBVIOUS
<1>2. Cut(A, s, content)
  BY <1>1, PiecesCut
<1>3. CASE Len(s) > 1
  <2>1. PICK n, m : n = Len(s) /\ m = Max({1, n \div 2})
    OBVIOUS
  <2>2. n \in Nat /\ n > 1 /\ s \in Seq(Filled(A)) /\ FlattenSeq(s) = content
    BY <1>2, <1>3, <2>1, CutTypes DEF Cut
  <2>3. m \in 1..n - 1
    <3>1. n \div 2 \in 0..n - 1
      BY <2>2
    <3>2. {1, n \div 2} \subseteq 0..n - 1 /\ {1, n \div 2} # {} /\ n - 1 \in Nat
      BY <2>2, <3>1
    <3>3. m \in {1, n \div 2}
      BY <2>1, <3>2, MaxBetween
    <3>4. \E k \in {1, n \div 2} : \A l \in {1, n \div 2} : k >= l
      <4>1. CASE n \div 2 >= 1
        BY <2>2, <3>1, <4>1
      <4>2. CASE ~(n \div 2 >= 1)
        BY <2>2, <3>1, <4>2
      <4> QED BY <4>1, <4>2
    <3>5. m >= 1
      BY <2>1, <3>4 DEF Max
    <3> QED BY <2>2, <3>1, <3>3, <3>5
  <2>4. PICK p, q : p = SubSeq(s, 1, m) /\ q = SubSeq(s, m + 1, n)
    OBVIOUS
  <2>5. p \in Seq(Filled(A)) /\ q \in Seq(Filled(A)) /\ Len(p) = m /\ Len(q) = n - m
    <3>1. PICK F : F = Filled(A)
      OBVIOUS
    <3>2. \A i \in 1..n : s[i] \in F
      BY <2>1, <2>2, <3>1
    <3>3. (\A i \in 1..m : s[i] \in F) /\ \A i \in m + 1..n : s[i] \in F
      BY <2>2, <2>3, <3>2
    <3>4. p \in Seq(F) /\ Len(p) = m
      BY <2>2, <2>3, <2>4, <3>3, SubSeqProperties
    <3>5. q \in Seq(F) /\ Len(q) = n - m
      BY <2>2, <2>3, <2>4, <3>3, SubSeqProperties
    <3> QED BY <3>1, <3>4, <3>5
  <2>6. p \o q = s
    <3>1. PICK F : F = Filled(A)
      OBVIOUS
    <3>2. s \in Seq(F) /\ 1 \in 1..Len(s) + 1 /\ m \in 1 - 1..Len(s) /\ n \in m..Len(s)
      BY <2>1, <2>2, <2>3, <3>1
    <3>3. SubSeq(s, 1, m) \o SubSeq(s, m + 1, n) = SubSeq(s, 1, n)
      BY <3>2, ConcatAdjacentSubSeq
    <3>4. SubSeq(s, 1, n) = s
      BY <2>1, <3>2, SubSeqFull
    <3> QED BY <2>4, <3>3, <3>4
  <2>7. Cut(A, p, FlattenSeq(p)) /\ Cut(A, q, FlattenSeq(q))
    BY <2>5 DEF Cut
  <2>8. PICK a, b : a = FlattenSeq(p) /\ b = FlattenSeq(q)
    OBVIOUS
  <2>9. a \in Seq(A) /\ a # <<>> /\ b \in Seq(A) /\ b # <<>>
    <3>1. p # <<>> /\ q # <<>>
      BY <2>2, <2>3, <2>5
    <3>2. a # <<>>
      BY <2>7, <2>8, <3>1, CutTypes, FlattenNonEmpty
    <3>3. b # <<>>
      BY <2>7, <2>8, <3>1, CutTypes, FlattenNonEmpty
    <3> QED BY <2>7, <2>8, <3>2, <3>3, CutTypes
  <2>10. a \o b = content
    <3>1. p \in Seq(Seq(A)) /\ q \in Seq(Seq(A))
      BY <2>7, CutTypes
    <3>2. FlattenSeq(p \o q) = a \o b
      BY <2>8, <3>1, FlattenConcat
    <3> QED BY <2>2, <2>6, <3>2
  <2>11. Cut(A, Append(<<a>>, b), a \o b)
    BY <2>9, CutOne, CutAppend
  <2>12. Append(<<a>>, b) = <<a, b>>
    BY PairAppended
  <2>13. Halved(content) = <<a, b>>
    BY <1>1, <1>3, <2>1, <2>4, <2>8 DEF Halved
  <2> QED BY <2>10, <2>11, <2>12, <2>13
<1>4. CASE ~(Len(s) > 1)
  <2>1. Halved(content) = <<content>>
    BY <1>1, <1>4 DEF Halved
  <2> QED BY <2>1, CutOne
<1> QED
  BY <1>3, <1>4

LEMMA SplitLargeCut ==
  ASSUME NEW A, NEW content \in Seq(A), content # <<>>
  PROVE  Cut(A, SplitLarge(content), content)
<1>1. PICK s : s = Pieces(content, text.breaks)
  OBVIOUS
<1>2. Cut(A, s, content)
  BY <1>1, PiecesCut
<1>3. CASE Len(s) = 1
  <2>1. SplitLarge(content) = Halved(content)
    BY <1>1, <1>3 DEF SplitLarge
  <2> QED BY <2>1, HalvedCut
<1>4. CASE Len(s) # 1
  <2>1. PICK parts : parts = [i \in DOMAIN s |-> IF Len(s[i]) > MaxSize /\ ~IsTable(s[i])
                                                 THEN Halved(s[i]) ELSE <<s[i]>>]
    OBVIOUS
  <2>2. SplitLarge(content) = FlattenSeq(parts)
    BY <1>1, <1>4, <2>1 DEF SplitLarge
  <2>3. /\ s \in Seq(Seq(A)) /\ Len(s) \in Nat /\ DOMAIN s = 1..Len(s)
        /\ \A i \in 1..Len(s) : s[i] \in Seq(A) /\ s[i] # <<>>
    BY <1>2, CutTypes, LenProperties
  <2>4. ASSUME NEW i \in 1..Len(s) PROVE Cut(A, parts[i], s[i])
    <3>1. PICK c \in Seq(A) : c = s[i] /\ c # <<>>
      BY <2>3
    <3>2. Cut(A, Halved(c), c) /\ Cut(A, <<c>>, c)
      BY <3>1, HalvedCut, CutOne
    <3>3. parts[i] = Halved(c) \/ parts[i] = <<c>>
      BY <2>1, <2>3, <3>1
    <3> QED BY <3>1, <3>2, <3>3
  <2>5. PICK F : F = Filled(A)
    OBVIOUS
  <2>6. parts \in Seq(Seq(F)) /\ Len(parts) = Len(s)
    <3>1. \A i \in 1..Len(s) : parts[i] \in Seq(F)
      BY <2>4, <2>5 DEF Cut
    <3>2. parts \in [1..Len(s) -> Seq(F)]
      BY <2>1, <2>3, <3>1
    <3>3. PICK n, B : n = Len(s) /\ B = Seq(F)
      OBVIOUS
    <3>4. parts \in Seq(B) /\ Len(parts) = n
      BY <2>3, <3>2, <3>3, FunctionIsSequence
    <3> QED BY <3>3, <3>4
  <2>7. FlattenSeq(parts) \in Seq(F)
    <3>1. <<>> \in Seq(F)
      OBVIOUS
    <3> QED BY <2>6, <3>1, FlattenAppend
  <2>8. parts \in Seq(Seq(Seq(A)))
    <3>1. F \subseteq Seq(A)
      BY <2>5 DEF Filled
    <3>2. Seq(F) \subseteq Seq(Seq(A))
      BY <3>1, SeqMonotonic
    <3> QED BY <2>6, <3>2, SeqMonotonic
  <2>9. FlattenSeq(FlattenSeq(parts)) = FlattenSeq(s)
    <3>1. \A i \in 1..Len(s) : FlattenSeq(parts[i]) = s[i]
      BY <2>4 DEF Cut
    <3> QED BY <2>3, <2>6, <2>8, <3>1, FlattenTwice
  <2> QED BY <1>2, <2>2, <2>5, <2>7, <2>9 DEF Cut
<1> QED
  BY <1>3, <1>4

LEMMA MergedCut ==
  ASSUME NEW A, NEW list, NEW whole, Cut(A, list, whole), NEW content \in Seq(A), content # <<>>
  PROVE  Cut(A, Merged(list, content), whole \o content)
<1>1. CASE list = <<>>
  <2>1. Merged(list, content) = <<content>>
    BY <1>1 DEF Merged
  <2>2. whole = <<>>
    BY <1>1 DEF Cut, FlattenSeq
  <2>3. whole \o content = content
    BY <2>2, ConcatEmptySeq
  <2> QED BY <2>1, <2>3, CutOne
<1>2. CASE list # <<>>
  <2>1. PICK rest : /\ Cut(A, Front(list), rest) /\ Last(list) \in Seq(A)
                    /\ rest \o Last(list) = whole
    <3>1. \E rest : /\ Cut(A, Front(list), rest) /\ Last(list) \in Seq(A) /\ Last(list) # <<>>
                    /\ rest \o Last(list) = whole
                    /\ list = Append(Front(list), Last(list))
      BY <1>2, CutLast, Zenon
    <3> QED BY <3>1, Zenon
  <2>2. PICK last \in Seq(A) : last = list[Len(list)]
    BY <2>1 DEF Last
  <2>3. PICK both : both = last \o content
    OBVIOUS
  <2>4. both \in Seq(A) /\ both # <<>>
    BY <2>3, ConcatProperties, ConcatEqualIffEmpty
  <2>5. Cut(A, SplitLarge(both), both) /\ Cut(A, <<both>>, both)
    BY <2>4, SplitLargeCut, CutOne
  <2>6. PICK more : /\ more = IF Len(both) > MaxSize THEN SplitLarge(both) ELSE <<both>>
                    /\ Merged(list, content) = Front(list) \o more
    BY <1>2, <2>2, <2>3 DEF Merged
  <2>7. Cut(A, more, both)
    BY <2>5, <2>6
  <2>8. PICK front : front = Front(list)
    OBVIOUS
  <2>9. Cut(A, front \o more, rest \o both)
    BY <2>1, <2>7, <2>8, CutConcat
  <2>10. rest \o both = whole \o content
    <3>1. rest \in Seq(A)
      BY <2>1, CutTypes
    <3>2. rest \o (last \o content) = (rest \o last) \o content
      BY <3>1, ConcatAssociative
    <3> QED BY <2>1, <2>2, <2>3, <3>2 DEF Last
  <2> QED BY <2>6, <2>8, <2>9, <2>10
<1> QED
  BY <1>1, <1>2

\* What was optimized is what the chunks looked at hold, in parts.
Tokens == 0..LongestText - 1
Contents(list, n) == [i \in 1..n |-> Content(list[i])]

OptimizerInv ==
  /\ ChunksInv
  /\ taken \in 0..Len(chunks)
  /\ Cut(Tokens, optimized, FlattenSeq(Contents(chunks, taken)))

LEMMA ContentsOfChunks ==
  ASSUME ChunksInv
  PROVE  /\ chunks \in Seq(Chunk) /\ Len(chunks) \in Nat
         /\ \A i \in 1..Len(chunks) : Content(chunks[i]) \in Seq(Tokens) /\ Content(chunks[i]) # <<>>
<1>1. LongestText \in Nat /\ chunks \in Seq(Chunk) /\ Len(chunks) \in Nat
  BY TokenChunkingAssumption, LenProperties DEF ChunksInv, ChunksTypeOK
<1>2. ASSUME NEW i \in 1..Len(chunks)
      PROVE  Content(chunks[i]) \in Seq(Tokens) /\ Content(chunks[i]) # <<>>
  <2>1. PICK from, to : from = chunks[i].from /\ to = chunks[i].to
    OBVIOUS
  <2>2. from \in Nat /\ to \in Nat /\ to <= LongestText /\ from < to
    <3>1. chunks[i] \in Chunk
      BY <1>1, ElementOfSeq
    <3>2. from \in 0..LongestText /\ to \in 0..LongestText
      BY <2>1, <3>1 DEF Chunk
    <3>3. i \in DOMAIN chunks
      BY <1>1
    <3>4. chunks[i].from < chunks[i].to
      BY <3>3 DEF ChunksInv, ChunksAdvance
    <3> QED BY <1>1, <2>1, <3>2, <3>4
  <2>3. PICK n \in Nat : n = to - from /\ n > 0
    BY <2>2
  <2>4. PICK c : c = [k \in 1..n |-> from + k - 1]
    OBVIOUS
  <2>5. \A k \in 1..n : from + k - 1 \in Tokens
    BY <1>1, <2>2, <2>3 DEF Tokens
  <2>6. c \in [1..n -> Tokens]
    BY <2>4, <2>5
  <2>7. c \in Seq(Tokens) /\ Len(c) = n
    BY <2>6, FunctionIsSequence
  <2>8. Content(chunks[i]) = c
    BY <2>1, <2>3, <2>4 DEF Content
  <2>9. c # <<>>
    BY <2>3, <2>7
  <2> QED BY <2>7, <2>8, <2>9
<1> QED
  BY <1>1, <1>2

LEMMA OptimizerInitInv == OptimizerInit => OptimizerInv
<1> SUFFICES ASSUME OptimizerInit PROVE OptimizerInv
  OBVIOUS
<1>1. ChunksInit /\ optimized = <<>> /\ taken = 0
  BY DEF OptimizerInit
<1>2. chunks = <<>> /\ Len(chunks) = 0
  BY <1>1 DEF ChunksInit
<1>3. Contents(chunks, taken) = <<>>
  BY <1>1 DEF Contents
<1>4. FlattenSeq(<<>>) = <<>>
  BY DEF FlattenSeq
<1>5. Cut(Tokens, <<>>, <<>>)
  BY CutNothing
<1>6. Cut(Tokens, optimized, FlattenSeq(Contents(chunks, taken)))
  BY <1>1, <1>3, <1>4, <1>5
<1> QED
  BY <1>1, <1>2, <1>6, ChunksInitInv DEF OptimizerInv

\* Chunking adds to the chunks, and those that were looked at stay.
LEMMA ChunkingKeeps ==
  ASSUME ChunksInv, ChunksNext
  PROVE  /\ Len(chunks') >= Len(chunks) /\ Len(chunks') \in Nat
         /\ \A i \in 1..Len(chunks) : chunks'[i] = chunks[i]
<1>1. chunks \in Seq(Chunk) /\ Len(chunks) \in Nat
  BY ContentsOfChunks
<1>2. ChunksInv'
  BY ChunksStepInv
<1>3. chunks' \in Seq(Chunk) /\ Len(chunks') \in Nat
  BY <1>2, LenProperties DEF ChunksInv, ChunksTypeOK
<1>4. CASE SingleChunk
  <2>1. chunks = <<>>
    BY <1>4 DEF SingleChunk
  <2> QED BY <1>3, <2>1
<1>5. CASE NextChunk
  <2>1. PICK e : chunks' = Append(chunks, e)
    BY <1>5 DEF NextChunk
  <2>2. Len(chunks') = Len(chunks) + 1 /\ \A i \in 1..Len(chunks) : chunks'[i] = chunks[i]
    BY <1>1, <2>1
  <2> QED BY <1>1, <2>2
<1> QED
  BY <1>4, <1>5 DEF ChunksNext

LEMMA OptimizerStepInv == OptimizerInv /\ [OptimizerNext]_optimizerVars => OptimizerInv'
<1> SUFFICES ASSUME OptimizerInv, [OptimizerNext]_optimizerVars PROVE OptimizerInv'
  OBVIOUS
<1>1. ChunksInv /\ taken \in 0..Len(chunks) /\ Len(chunks) \in Nat
  BY ContentsOfChunks DEF OptimizerInv
<1>2. PICK text0 : text0 = FlattenSeq(Contents(chunks, taken)) /\ Cut(Tokens, optimized, text0)
  BY DEF OptimizerInv
<1>3. CASE ChunksNext /\ UNCHANGED <<optimized, taken>>
  <2>1. ChunksInv'
    BY <1>1, <1>3, ChunksStepInv
  <2>2. /\ Len(chunks') >= Len(chunks) /\ Len(chunks') \in Nat
        /\ \A i \in 1..Len(chunks) : chunks'[i] = chunks[i]
    BY <1>1, <1>3, ChunkingKeeps
  <2>3. taken' \in 0..Len(chunks')
    BY <1>1, <1>3, <2>2
  <2>4. Contents(chunks', taken') = Contents(chunks, taken)
    <3>1. \A i \in 1..taken : i \in 1..Len(chunks)
      BY <1>1
    <3>2. \A i \in 1..taken : Content(chunks'[i]) = Content(chunks[i])
      BY <2>2, <3>1
    <3> QED BY <1>3, <3>2 DEF Contents
  <2>5. Cut(Tokens, optimized', FlattenSeq(Contents(chunks', taken')))
    BY <1>2, <1>3, <2>4
  <2>6. Tokens' = Tokens
    BY DEF Tokens
  <2> QED BY <2>1, <2>3, <2>5, <2>6 DEF OptimizerInv, Contents
<1>4. CASE OptimizeChunk
  <2>1. taken < Len(chunks) /\ taken' = taken + 1 /\ UNCHANGED chunkVars
    BY <1>4 DEF OptimizeChunk
  <2>2. ChunksInv' /\ chunks' = chunks
    BY <1>1, <2>1, ChunksStepInv DEF chunkVars
  <2>3. taken + 1 \in 1..Len(chunks) /\ taken' \in 0..Len(chunks')
    BY <1>1, <2>1, <2>2
  <2>4. PICK content \in Seq(Tokens) : content = Content(chunks[taken + 1]) /\ content # <<>>
    BY <1>1, <2>3, ContentsOfChunks
  <2>5. optimized' = IF Len(content) < MinSize THEN Merged(optimized, content)
                     ELSE optimized \o IF Len(content) > MaxSize THEN SplitLarge(content)
                                       ELSE <<content>>
    BY <1>4, <2>4 DEF OptimizeChunk
  <2>6. Cut(Tokens, optimized', text0 \o content)
    <3>1. CASE Len(content) < MinSize
      <4>1. Cut(Tokens, Merged(optimized, content), text0 \o content)
        BY <1>2, <2>4, MergedCut
      <4> QED BY <2>5, <3>1, <4>1
    <3>2. CASE ~(Len(content) < MinSize)
      <4>1. PICK more : /\ more = IF Len(content) > MaxSize THEN SplitLarge(content) ELSE <<content>>
                        /\ optimized' = optimized \o more
        BY <2>5, <3>2
      <4>2. Cut(Tokens, SplitLarge(content), content) /\ Cut(Tokens, <<content>>, content)
        BY <2>4, SplitLargeCut, CutOne
      <4>3. Cut(Tokens, more, content)
        BY <4>1, <4>2
      <4>4. Cut(Tokens, optimized \o more, text0 \o content)
        BY <1>2, <4>3, CutConcat
      <4> QED BY <4>1, <4>4
    <3> QED BY <3>1, <3>2
  <2>7. FlattenSeq(Contents(chunks, taken + 1)) = text0 \o content
    <3>1. PICK c, S, n : c = Contents(chunks, taken) /\ S = Seq(Tokens) /\ n = taken /\ n \in Nat
      BY <1>1
    <3>2. c \in [1..n -> S]
      <4>1. \A i \in 1..n : Content(chunks[i]) \in S
        BY <1>1, <3>1, ContentsOfChunks
      <4> QED BY <3>1, <4>1 DEF Contents
    <3>3. c \in Seq(S) /\ Len(c) = n /\ content \in S
      BY <2>4, <3>1, <3>2, FunctionIsSequence
    <3>4. PICK d : d = Contents(chunks, n + 1)
      OBVIOUS
    <3>5. d \in [1..n + 1 -> S] /\ d[n + 1] = content /\ \A i \in 1..n : d[i] = c[i]
      <4>1. \A i \in 1..n + 1 : i \in 1..Len(chunks) /\ Content(chunks[i]) \in S
        BY <1>1, <2>3, <3>1, ContentsOfChunks
      <4> QED BY <2>4, <3>1, <3>4, <4>1 DEF Contents
    <3>6. d \in Seq(S) /\ Len(d) = n + 1
      <4>1. PICK m \in Nat : m = n + 1
        BY <3>1
      <4>2. d \in Seq(S) /\ Len(d) = m
        BY <3>5, <4>1, FunctionIsSequence
      <4> QED BY <4>1, <4>2
    <3>7. PICK e : e = Append(c, content)
      OBVIOUS
    <3>8. /\ e \in Seq(S) /\ Len(e) = n + 1 /\ e[n + 1] = content
          /\ \A i \in 1..n : e[i] = c[i]
      BY <3>3, <3>7, AppendProperties
    <3>9. d = e
      <4>1. \A i \in 1..n + 1 : i = n + 1 \/ i \in 1..n
        BY <3>1
      <4>2. \A i \in 1..n + 1 : d[i] = e[i]
        BY <3>5, <3>8, <4>1
      <4> QED BY <3>6, <3>8, <4>2, SeqEqual
    <3>10. FlattenSeq(Append(c, content)) = FlattenSeq(c) \o content
      BY <2>4, <3>1, <3>3, FlattenAppend
    <3> QED BY <1>2, <3>1, <3>4, <3>7, <3>9, <3>10
  <2>8. Cut(Tokens, optimized', FlattenSeq(Contents(chunks', taken')))
    BY <2>1, <2>2, <2>6, <2>7
  <2> QED BY <2>2, <2>3, <2>8 DEF OptimizerInv, Contents, Tokens
<1>5. CASE UNCHANGED optimizerVars
  <2>1. UNCHANGED chunkVars /\ optimized' = optimized /\ taken' = taken /\ chunks' = chunks
    BY <1>5 DEF optimizerVars, chunkVars
  <2>2. ChunksInv'
    BY <1>1, <2>1, ChunksStepInv
  <2>3. Cut(Tokens, optimized', FlattenSeq(Contents(chunks', taken')))
    BY <1>2, <2>1
  <2> QED BY <1>1, <2>1, <2>2, <2>3 DEF OptimizerInv, Contents, Tokens
<1> QED
  BY <1>3, <1>4, <1>5 DEF OptimizerNext

LEMMA OptimizerAlways == OptimizerSpec => []OptimizerInv
BY OptimizerInitInv, OptimizerStepInv, PTL DEF OptimizerSpec

\* No optimized chunk is empty, and each holds tokens of the text.
THEOREM OptimizerTypeCorrect == OptimizerSpec => []OptimizerTypeOK
<1>1. OptimizerInv => OptimizerTypeOK
  <2> SUFFICES ASSUME OptimizerInv PROVE OptimizerTypeOK
    OBVIOUS
  <2>1. PICK content : Cut(Tokens, optimized, content)
    BY DEF OptimizerInv
  <2>2. /\ Len(optimized) \in Nat /\ optimized \in Seq(Seq(Tokens))
        /\ \A i \in 1..Len(optimized) : optimized[i] \in Seq(Tokens) /\ optimized[i] # <<>>
    BY <2>1, CutTypes
  <2>3. DOMAIN optimized = 1..Len(optimized)
    BY <2>2, LenProperties
  <2> QED BY <2>2, <2>3 DEF OptimizerInv, ChunksInv, OptimizerTypeOK, Tokens
<1> QED
  BY <1>1, OptimizerAlways, PTL

\* However chunks are merged, split at paragraphs and sentences and merged again,
\* they hold every token of the chunks, in their order, none twice and none lost.
THEOREM OptimizingKeepsText == OptimizerSpec => []OptimizerKeepsText
<1>1. OptimizerInv => OptimizerKeepsText
  BY DEF OptimizerInv, OptimizerKeepsText, Cut, Contents
<1> QED
  BY <1>1, OptimizerAlways, PTL

-----------------------------------------------------------------------------
(* The tiers of the cache *)

LEMMA MaxOfTwo ==
  ASSUME NEW a \in Nat, NEW b \in Nat
  PROVE  Max({a, b}) = IF a >= b THEN a ELSE b
<1> DEFINE m == IF a >= b THEN a ELSE b
<1>1. m \in {a, b} /\ \A n \in {a, b} : m >= n
  OBVIOUS
<1>2. \A x \in {a, b} : (\A n \in {a, b} : x >= n) => x = m
  OBVIOUS
<1> QED
  BY <1>1, <1>2 DEF Max

LEMMA CacheConstants ==
  /\ Max(Ttls) \in Nat /\ \A ttl \in Ttls : ttl \in Nat /\ ttl <= Max(Ttls)
  /\ Evictions \in Nat /\ Evictions >= 1
  /\ MemorySize \in Nat \ {0} /\ MemoryTtl \in Nat \ {0} /\ CommandTime \in Nat
  /\ LastTime \in Nat /\ LastVersion \in Nat /\ IsFiniteSet(CacheKeys) /\ NoKey \notin CacheKeys
<1>1. Ttls # {} /\ IsFiniteSet(Ttls) /\ Ttls \subseteq Nat
  BY CacheTiersAssumption
<1>2. \E m \in Ttls : \A n \in Ttls : m >= n
  BY <1>1, Largest
<1>3. Max(Ttls) \in Ttls /\ \A n \in Ttls : Max(Ttls) >= n
  BY <1>2 DEF Max
<1>4. MemorySize \div 10 \in Nat
  BY CacheTiersAssumption
<1>5. Evictions \in Nat /\ Evictions >= 1
  BY <1>4, MaxOfTwo DEF Evictions
<1> QED
  BY <1>1, <1>3, <1>5, CacheTiersAssumption

\* An older version than the last deletion's is one that was carried past it.
Accounted(entry, k, del, over) == entry.version <= del[k] => entry.version \in over

InMemoryOK(entry, k, del, over) ==
  /\ entry \in Cached /\ Accounted(entry, k, del, over)
  /\ entry.until < entry.born + Max(Ttls) + CommandTime + CommandTime + MemoryTtl

InRedisOK(entry, k, del, over) ==
  /\ entry \in Cached /\ Accounted(entry, k, del, over)
  /\ entry.until <= entry.born + Max(Ttls) + CommandTime

\* A call under way has not waited longer than a command takes.  What it read was
\* alive when it read it, and what it writes is as old as its wait.
HoldsOK(call, time, del, over) ==
  /\ call \in CallRecord
  /\ call.step # "none" =>
       call.key \in CacheKeys /\ call.since <= time /\ time <= call.since + CommandTime
  /\ call.step = "fill" =>
       /\ InRedisOK(call.entry, call.key, del, over)
       /\ call.since < call.entry.until
  /\ call.step = "write" =>
       /\ call.entry \in Cached /\ Accounted(call.entry, call.key, del, over)
       /\ call.entry.born = call.since /\ call.entry.until <= Max(Ttls)

CountsOK ==
  /\ tier2 \in BOOLEAN /\ initialized \in BOOLEAN
  /\ cacheTime \in 0..LastTime /\ versions \in 0..LastVersion
  /\ deleted \in [CacheKeys -> 0..LastVersion] /\ \A k \in CacheKeys : deleted[k] <= versions
  /\ overlapped \subseteq 1..LastVersion

\* While a deletion is on its way to Redis, memory holds of its key only what was
\* put there past it.
MemoryOK ==
  /\ MemoryWithinSize
  /\ \A k \in DOMAIN memory :
       /\ k \in CacheKeys /\ InMemoryOK(memory[k], k, deleted, overlapped)
       /\ Erasing(k) => memory[k].version \in overlapped

RedisOK ==
  \A k \in DOMAIN redis : k \in CacheKeys /\ InRedisOK(redis[k], k, deleted, overlapped)

CacheCallsOK ==
  /\ cacheCall \in [CacheCalls -> CallRecord]
  /\ \A c \in CacheCalls : HoldsOK(cacheCall[c], cacheTime, deleted, overlapped)

CacheInv == CountsOK /\ MemoryOK /\ RedisOK /\ CacheCallsOK

\* Memory after an entry was put there: what had to leave has left.
LEMMA PutEffects ==
  ASSUME MemoryOK, NEW k \in CacheKeys, NEW version, NEW born, NEW ttl,
         PutInMemory(k, version, born, ttl)
  PROVE  /\ Cardinality(DOMAIN memory') <= MemorySize
         /\ k \in DOMAIN memory'
         /\ memory'[k] = [version |-> version, born |-> born, put |-> cacheTime,
                          until |-> cacheTime + ttl]
         /\ \A j \in DOMAIN memory' \ {k} : j \in DOMAIN memory /\ memory'[j] = memory[j]
<1> DEFINE entry == [version |-> version, born |-> born, put |-> cacheTime,
                     until |-> cacheTime + ttl]
<1>1. PICK gone \in Evicted(memory) : memory' = Putting(Dropping(memory, gone), k, entry)
  BY DEF PutInMemory
<1> HIDE DEF entry
<1> DEFINE kept == DOMAIN memory \ gone
<1>2. /\ DOMAIN memory' = kept \cup {k} /\ memory'[k] = entry
      /\ \A j \in kept \ {k} : memory'[j] = memory[j]
  <2>1. PICK tier : tier = Dropping(memory, gone)
    OBVIOUS
  <2>2. DOMAIN tier = kept /\ \A j \in kept : tier[j] = memory[j]
    BY <2>1 DEF Dropping
  <2>3. memory' = Putting(tier, k, entry)
    BY <1>1, <2>1
  <2> HIDE DEF kept
  <2>4. /\ DOMAIN memory' = DOMAIN tier \cup {k} /\ memory'[k] = entry
        /\ \A j \in DOMAIN tier \ {k} : memory'[j] = tier[j]
    BY <2>3 DEF Putting
  <2> QED BY <2>2, <2>4
<1>3. /\ IsFiniteSet(DOMAIN memory) /\ Cardinality(DOMAIN memory) \in Nat
      /\ Cardinality(DOMAIN memory) <= MemorySize /\ MemorySize \in Nat
  <2>1. DOMAIN memory \subseteq CacheKeys /\ Cardinality(DOMAIN memory) <= MemorySize
    BY DEF MemoryOK, MemoryWithinSize
  <2>2. IsFiniteSet(DOMAIN memory)
    BY <2>1, CacheConstants, FS_Subset
  <2> QED BY <2>1, <2>2, CacheConstants, FS_CardinalityType
<1>4. IsFiniteSet(kept) /\ Cardinality(kept) < MemorySize
  <2>1. CASE Cardinality(DOMAIN memory) < MemorySize
    <3>1. kept = DOMAIN memory
      BY <1>1, <2>1 DEF Evicted
    <3> QED BY <1>3, <2>1, <3>1
  <2>2. CASE ~(Cardinality(DOMAIN memory) < MemorySize)
    <3>1. gone \subseteq DOMAIN memory /\ Cardinality(gone) = Evictions
      BY <1>1, <2>2 DEF Evicted
    <3>2. IsFiniteSet(gone) /\ DOMAIN memory \cap gone = gone
      BY <1>3, <3>1, FS_Subset
    <3>3. /\ IsFiniteSet(kept)
          /\ Cardinality(kept) = Cardinality(DOMAIN memory) - Cardinality(gone)
      BY <1>3, <3>2, FS_Difference
    <3> HIDE DEF kept
    <3> QED BY <1>3, <3>1, <3>3, CacheConstants
  <2> QED BY <2>1, <2>2
<1> HIDE DEF kept
<1>5. Cardinality(kept \cup {k}) <= Cardinality(kept) + 1 /\ Cardinality(kept) \in Nat
  <2>1. Cardinality(kept) \in Nat
    BY <1>4, FS_CardinalityType
  <2>2. Cardinality(kept \cup {k}) \in {Cardinality(kept), Cardinality(kept) + 1}
    <3>1. Cardinality(kept \cup {k}) = IF k \in kept THEN Cardinality(kept) ELSE Cardinality(kept) + 1
      BY <1>4, FS_AddElement
    <3> QED BY <3>1
  <2> QED BY <2>1, <2>2
<1>6. Cardinality(DOMAIN memory') <= MemorySize
  <2>1. \A m, n \in Nat : \A x : x <= n + 1 /\ n < m /\ x \in Nat => x <= m
    OBVIOUS
  <2>2. Cardinality(kept \cup {k}) \in Nat
    BY <1>4, FS_AddElement, FS_CardinalityType
  <2> QED BY <1>2, <1>3, <1>4, <1>5, <2>1, <2>2
<1>7. \A j \in DOMAIN memory' \ {k} : j \in kept /\ j \in DOMAIN memory
  BY <1>2 DEF kept
<1> QED
  BY <1>2, <1>6, <1>7 DEF entry

\* What was accounted for stays so.
LEMMA StillInMemory ==
  ASSUME NEW entry, NEW k, NEW del, NEW over, NEW more, InMemoryOK(entry, k, del, over), over \subseteq more
  PROVE  InMemoryOK(entry, k, del, more)
BY DEF InMemoryOK, Accounted

LEMMA StillInRedis ==
  ASSUME NEW entry, NEW k, NEW del, NEW over, NEW more, InRedisOK(entry, k, del, over), over \subseteq more
  PROVE  InRedisOK(entry, k, del, more)
BY DEF InRedisOK, Accounted

LEMMA StillHolds ==
  ASSUME NEW call, NEW time, NEW del, NEW over, NEW more, HoldsOK(call, time, del, over),
         over \subseteq more
  PROVE  HoldsOK(call, time, del, more)
BY StillInRedis DEF HoldsOK, Accounted

\* An entry is put into memory, marked if it passes a deletion.
LEMMA MemoryPut ==
  ASSUME CountsOK, MemoryOK, NEW k \in CacheKeys, NEW version \in 1..LastVersion,
         NEW born \in 0..LastTime, NEW ttl \in Nat,
         PutInMemory(k, version, born, ttl), Overlap(k, version), deleted' = deleted,
         cacheTime + ttl < born + Max(Ttls) + CommandTime + CommandTime + MemoryTtl,
         version <= deleted[k] => version \in overlapped,
         \A j \in CacheKeys : Erasing(j)' => Erasing(j)
  PROVE  MemoryOK' /\ overlapped \subseteq overlapped' /\ overlapped' \subseteq 1..LastVersion
<1> DEFINE entry == [version |-> version, born |-> born, put |-> cacheTime,
                     until |-> cacheTime + ttl]
<1>1. /\ Cardinality(DOMAIN memory') <= MemorySize
      /\ k \in DOMAIN memory' /\ memory'[k] = entry
      /\ \A j \in DOMAIN memory' \ {k} : j \in DOMAIN memory /\ memory'[j] = memory[j]
  BY PutEffects
<1>2. /\ overlapped \subseteq overlapped' /\ overlapped' \subseteq 1..LastVersion
      /\ Erasing(k) => version \in overlapped'
  BY DEF Overlap, CountsOK
<1>3. entry \in Cached /\ entry.version = version /\ entry.born = born /\ entry.until = cacheTime + ttl
  <2>1. cacheTime \in 0..LastTime /\ cacheTime + ttl \in Nat
    BY DEF CountsOK
  <2> QED BY <2>1 DEF Cached
<1> HIDE DEF entry
<1>4. InMemoryOK(entry, k, deleted, overlapped')
  BY <1>2, <1>3 DEF InMemoryOK, Accounted
<1>5. ASSUME NEW j \in DOMAIN memory'
      PROVE  /\ j \in CacheKeys /\ InMemoryOK(memory'[j], j, deleted, overlapped')
             /\ Erasing(j) => memory'[j].version \in overlapped'
  <2>1. CASE j = k
    BY <1>1, <1>2, <1>3, <1>4, <2>1
  <2>2. CASE j # k
    <3>1. j \in DOMAIN memory /\ memory'[j] = memory[j]
      BY <1>1, <2>2
    <3>2. /\ j \in CacheKeys /\ InMemoryOK(memory[j], j, deleted, overlapped)
          /\ Erasing(j) => memory[j].version \in overlapped
      BY <3>1 DEF MemoryOK
    <3> QED BY <1>2, <3>1, <3>2, StillInMemory
  <2> QED BY <2>1, <2>2
<1>6. MemoryWithinSize'
  BY <1>1 DEF MemoryWithinSize
<1>7. ASSUME NEW j \in DOMAIN memory'
      PROVE  InMemoryOK(memory[j], j, deleted, overlapped)'
  BY <1>5 DEF InMemoryOK, Accounted, Cached
<1>8. MemoryOK'
  BY <1>5, <1>6, <1>7 DEF MemoryOK
<1> QED
  BY <1>2, <1>8

\* Memory only loses entries, among them those of a deletion that begins.
LEMMA MemoryShrinks ==
  ASSUME MemoryOK, \A j \in DOMAIN memory' : j \in DOMAIN memory /\ memory'[j] = memory[j],
         UNCHANGED <<deleted, overlapped>>,
         \A j \in DOMAIN memory' : Erasing(j)' => Erasing(j)
  PROVE  MemoryOK'
<1>1. MemoryWithinSize'
  <2>1. DOMAIN memory' \subseteq DOMAIN memory /\ DOMAIN memory \subseteq CacheKeys
    BY DEF MemoryOK
  <2>2. IsFiniteSet(DOMAIN memory) /\ Cardinality(DOMAIN memory) <= MemorySize
    BY <2>1, CacheConstants, FS_Subset DEF MemoryOK, MemoryWithinSize
  <2>3. /\ Cardinality(DOMAIN memory') <= Cardinality(DOMAIN memory)
        /\ Cardinality(DOMAIN memory') \in Nat /\ Cardinality(DOMAIN memory) \in Nat
    BY <2>1, <2>2, FS_Subset, FS_CardinalityType
  <2> QED BY <2>2, <2>3, CacheConstants DEF MemoryWithinSize
<1>2. ASSUME NEW j \in DOMAIN memory'
      PROVE  /\ j \in CacheKeys /\ InMemoryOK(memory[j], j, deleted, overlapped)'
             /\ Erasing(j)' => memory'[j].version \in overlapped'
  <2>1. /\ j \in CacheKeys /\ InMemoryOK(memory[j], j, deleted, overlapped)
        /\ Erasing(j) => memory[j].version \in overlapped
    BY DEF MemoryOK
  <2>2. memory'[j] = memory[j]
    OBVIOUS
  <2> QED BY <2>1, <2>2 DEF InMemoryOK, Accounted, Cached
<1> QED
  BY <1>1, <1>2 DEF MemoryOK

LEMMA RedisSame ==
  ASSUME RedisOK, UNCHANGED <<redis, deleted>>, overlapped \subseteq overlapped'
  PROVE  RedisOK'
<1> SUFFICES ASSUME NEW k \in DOMAIN redis'
             PROVE  k \in CacheKeys /\ InRedisOK(redis[k], k, deleted, overlapped)'
  BY DEF RedisOK
<1>1. k \in CacheKeys /\ InRedisOK(redis[k], k, deleted, overlapped')
  BY StillInRedis DEF RedisOK
<1> QED
  BY <1>1 DEF InRedisOK, Accounted, Cached

\* One call moves on, and nothing else that its record is judged by.
LEMMA CallMoves ==
  ASSUME CacheCallsOK, NEW c \in CacheCalls, UNCHANGED <<cacheTime, deleted>>,
         overlapped \subseteq overlapped', NEW call,
         HoldsOK(call, cacheTime, deleted, overlapped'),
         cacheCall' = [cacheCall EXCEPT ![c] = call]
  PROVE  /\ CacheCallsOK'
         /\ \A k \in CacheKeys : Erasing(k)' =>
              Erasing(k) \/ (call.step = "erase" /\ call.key = k) \/ call.step = "flush"
<1>1. cacheCall' \in [CacheCalls -> CallRecord]
  BY DEF CacheCallsOK, HoldsOK
<1>2. ASSUME NEW d \in CacheCalls PROVE HoldsOK(cacheCall[d], cacheTime, deleted, overlapped)'
  <2>1. HoldsOK(cacheCall'[d], cacheTime, deleted, overlapped')
    <3>1. CASE d = c
      BY <3>1 DEF CacheCallsOK
    <3>2. CASE d # c
      <4>1. cacheCall'[d] = cacheCall[d]
        BY <3>2 DEF CacheCallsOK
      <4> QED BY <4>1, StillHolds DEF CacheCallsOK
    <3> QED BY <3>1, <3>2
  <2> QED BY <2>1 DEF HoldsOK, InRedisOK, Accounted, Cached, CallRecord
<1>3. ASSUME NEW k \in CacheKeys, Erasing(k)'
      PROVE  Erasing(k) \/ (call.step = "erase" /\ call.key = k) \/ call.step = "flush"
  <2>1. PICK d \in CacheCalls : \/ cacheCall'[d].step = "erase" /\ cacheCall'[d].key = k
                                \/ cacheCall'[d].step = "flush"
    BY <1>3 DEF Erasing
  <2>2. cacheCall'[d] = IF d = c THEN call ELSE cacheCall[d]
    BY DEF CacheCallsOK
  <2> QED BY <2>1, <2>2 DEF Erasing
<1> QED
  BY <1>1, <1>2, <1>3 DEF CacheCallsOK

LEMMA CallFinishes ==
  ASSUME CacheCallsOK, NEW c \in CacheCalls, UNCHANGED <<cacheTime, deleted>>,
         overlapped \subseteq overlapped', Finish(c)
  PROVE  CacheCallsOK' /\ \A k \in CacheKeys : Erasing(k)' => Erasing(k)
<1>1. HoldsOK(NoCall, cacheTime, deleted, overlapped') /\ NoCall.step = "none"
  BY CacheConstants DEF HoldsOK, NoCall, CallRecord, CacheSteps, Ops
<1>2. cacheCall' = [cacheCall EXCEPT ![c] = NoCall]
  BY DEF Finish
<1> HIDE DEF NoCall
<1> QED
  BY <1>1, <1>2, CallMoves

LEMMA CallAwaits ==
  ASSUME CountsOK, CacheCallsOK, NEW c \in CacheCalls, UNCHANGED <<cacheTime, deleted>>,
         overlapped \subseteq overlapped',
         NEW step \in CacheSteps, NEW op \in Ops, NEW k \in CacheKeys,
         NEW entry \in Cached \cup {NoEntry}, Await(c, step, op, k, entry),
         step = "fill" => InRedisOK(entry, k, deleted, overlapped') /\ cacheTime < entry.until,
         step = "write" => /\ entry \in Cached /\ Accounted(entry, k, deleted, overlapped')
                           /\ entry.born = cacheTime /\ entry.until <= Max(Ttls)
  PROVE  /\ CacheCallsOK'
         /\ \A j \in CacheKeys : Erasing(j)' =>
              Erasing(j) \/ (step = "erase" /\ k = j) \/ step = "flush"
<1> DEFINE call == [step |-> step, op |-> op, key |-> k, entry |-> entry, since |-> cacheTime]
<1>1. cacheTime \in Nat /\ cacheTime \in 0..LastTime /\ cacheTime <= cacheTime + CommandTime
  BY CacheConstants DEF CountsOK
<1>2. /\ call \in CallRecord /\ call.step = step /\ call.key = k
      /\ call.entry = entry /\ call.since = cacheTime
  BY <1>1 DEF CallRecord
<1>3. cacheCall' = [cacheCall EXCEPT ![c] = call]
  BY DEF Await
<1> HIDE DEF call
<1>4. HoldsOK(call, cacheTime, deleted, overlapped')
  BY <1>1, <1>2 DEF HoldsOK
<1> QED
  BY <1>2, <1>3, <1>4, CallMoves

\* The part of a call up to its first command to Redis.
LEMMA EnterEffects ==
  ASSUME CacheInv, NEW c \in CacheCalls, NEW op \in Ops, NEW k \in CacheKeys, NEW use,
         Enter(c, op, k, use), UNCHANGED <<redis, cacheTime, deleted>>,
         tier2' \in BOOLEAN, initialized' \in BOOLEAN
  PROVE  CacheInv'
<1>0. CountsOK /\ MemoryOK /\ RedisOK /\ CacheCallsOK
  BY DEF CacheInv
<1>a. /\ cacheTime \in Nat /\ cacheTime \in 0..LastTime /\ versions \in Nat
      /\ versions <= LastVersion /\ overlapped \subseteq 1..LastVersion
      /\ deleted[k] \in Nat /\ deleted[k] <= versions
      /\ LastTime \in Nat /\ LastVersion \in Nat
  BY <1>0, CacheConstants DEF CountsOK
<1>b. ASSUME versions' \in versions..LastVersion, overlapped' \subseteq 1..LastVersion
      PROVE  CountsOK'
  <2>1. \A j \in CacheKeys : deleted'[j] \in Nat /\ deleted'[j] <= versions
    BY <1>0, CacheConstants DEF CountsOK
  <2>2. versions' \in 0..LastVersion /\ \A j \in CacheKeys : deleted'[j] <= versions'
    BY <1>a, <1>b, <2>1
  <2> QED BY <1>0, <1>b, <2>2 DEF CountsOK
<1>c. {"get", "set", "delete", "clear"} = Ops
      /\ {"none", "ping", "read", "fill", "write", "erase", "flush"} = CacheSteps
  BY DEF Ops, CacheSteps
<1>1. CASE op = "get"
  <2>1. /\ memory' = IF Live(memory, k) THEN memory ELSE Dropping(memory, {k})
        /\ Await(c, "read", "get", k, NoEntry) \/ Finish(c)
        /\ UNCHANGED <<versions, overlapped>>
    BY <1>1 DEF Enter, EnterGet
  <2>2. CacheCallsOK' /\ \A j \in CacheKeys : Erasing(j)' => Erasing(j)
    BY <1>0, <1>c, <2>1, CallAwaits, CallFinishes
  <2>3. \A j \in DOMAIN memory' : j \in DOMAIN memory /\ memory'[j] = memory[j]
    BY <2>1 DEF Dropping
  <2>4. MemoryOK'
    BY <1>0, <2>1, <2>2, <2>3, MemoryShrinks DEF MemoryOK
  <2> QED BY <1>0, <1>a, <1>b, <2>1, <2>2, <2>4, RedisSame DEF CacheInv
<1>2. CASE op = "set"
  <2>1. PICK ttl \in Ttls :
          /\ versions + 1 <= LastVersion
          /\ PutInMemory(k, versions + 1, cacheTime, Min({ttl, MemoryTtl}))
          /\ versions' = versions + 1
          /\ Overlap(k, versions + 1)
          /\ \/ Await(c, "write", "set", k,
                      [version |-> versions + 1, born |-> cacheTime, put |-> 0, until |-> ttl])
             \/ Finish(c)
    BY <1>2 DEF Enter, EnterSet
  <2> DEFINE entry == [version |-> versions + 1, born |-> cacheTime, put |-> 0, until |-> ttl]
  <2>2. /\ ttl \in Nat /\ ttl <= Max(Ttls) /\ Max(Ttls) \in Nat
        /\ MemoryTtl \in Nat \ {0} /\ CommandTime \in Nat
    BY CacheConstants
  <2>3. Min({ttl, MemoryTtl}) \in Nat /\ Min({ttl, MemoryTtl}) <= ttl
    BY <2>2, MinOfTwo
  <2>4. versions + 1 \in 1..LastVersion /\ ~(versions + 1 <= deleted[k])
    BY <1>a, <2>1
  <2>5. overlapped \subseteq overlapped'
    BY <2>1 DEF Overlap
  <2>6. /\ entry \in Cached /\ entry.version = versions + 1
        /\ entry.born = cacheTime /\ entry.until = ttl
    BY <1>a, <2>2, <2>4 DEF Cached
  <2>7. Await(c, "write", "set", k, entry) \/ Finish(c)
    BY <2>1
  <2> HIDE DEF entry
  <2>8. Accounted(entry, k, deleted, overlapped')
    BY <2>4, <2>6 DEF Accounted
  <2>9. CacheCallsOK' /\ \A j \in CacheKeys : Erasing(j)' => Erasing(j)
    BY <1>0, <1>c, <2>2, <2>5, <2>6, <2>7, <2>8, CallAwaits, CallFinishes
  <2>10. cacheTime + Min({ttl, MemoryTtl})
           < cacheTime + Max(Ttls) + CommandTime + CommandTime + MemoryTtl
    BY <1>a, <2>2, <2>3
  <2>11. MemoryOK' /\ overlapped' \subseteq 1..LastVersion
    BY <1>0, <1>a, <2>1, <2>3, <2>4, <2>9, <2>10, MemoryPut
  <2>12. versions' \in versions..LastVersion
    BY <1>a, <2>1
  <2> QED BY <1>0, <1>b, <2>5, <2>9, <2>11, <2>12, RedisSame DEF CacheInv
<1>3. CASE op = "delete"
  <2>1. /\ memory' = Dropping(memory, {k})
        /\ Await(c, "erase", "delete", k, NoEntry) \/ Finish(c)
        /\ UNCHANGED <<versions, overlapped>>
    BY <1>3 DEF Enter, EnterDelete
  <2>2. CacheCallsOK' /\ \A j \in CacheKeys : Erasing(j)' => Erasing(j) \/ j = k
    BY <1>0, <1>c, <2>1, CallAwaits, CallFinishes
  <2>3. \A j \in DOMAIN memory' : j # k /\ j \in DOMAIN memory /\ memory'[j] = memory[j]
    BY <2>1 DEF Dropping
  <2>4. MemoryOK'
    BY <1>0, <2>1, <2>2, <2>3, MemoryShrinks DEF MemoryOK
  <2> QED BY <1>0, <1>a, <1>b, <2>1, <2>2, <2>4, RedisSame DEF CacheInv
<1>4. CASE op = "clear"
  <2>1. /\ memory' = NoEntries /\ DOMAIN memory' = {}
        /\ Await(c, "flush", "clear", k, NoEntry) \/ Finish(c)
        /\ UNCHANGED <<versions, overlapped>>
    BY <1>4 DEF Enter, EnterClear, NoEntries
  <2>2. CacheCallsOK'
    BY <1>0, <1>c, <2>1, CallAwaits, CallFinishes
  <2>4. MemoryOK'
    BY <1>0, <2>1, MemoryShrinks
  <2> QED BY <1>0, <1>a, <1>b, <2>1, <2>2, <2>4, RedisSame DEF CacheInv
<1> QED
  BY <1>1, <1>2, <1>3, <1>4 DEF Ops

\* What a call that waits for Redis holds.
LEMMA CallFacts ==
  ASSUME CacheInv, NEW c \in CacheCalls, cacheCall[c].step # "none"
  PROVE  /\ cacheCall[c].key \in CacheKeys /\ cacheCall[c].op \in Ops
         /\ HoldsOK(cacheCall[c], cacheTime, deleted, overlapped)
         /\ cacheCall[c].since \in Nat /\ cacheTime <= cacheCall[c].since + CommandTime
BY DEF CacheInv, CacheCallsOK, HoldsOK, CallRecord

LEMMA FillEffects ==
  ASSUME CacheInv, NEW c \in CacheCalls, Fill(c)
  PROVE  CacheInv'
<1> DEFINE call == cacheCall[c]
           k == call.key
           version == call.entry.version
           born == call.entry.born
<1>0. CountsOK /\ MemoryOK /\ RedisOK /\ CacheCallsOK
  BY DEF CacheInv
<1>1. /\ call.step = "fill" /\ PutInMemory(k, version, born, MemoryTtl) /\ Overlap(k, version)
      /\ Finish(c) /\ UNCHANGED <<redis, tier2, initialized, cacheTime, versions, deleted>>
  BY DEF Fill
<1>2. /\ k \in CacheKeys /\ call.since \in Nat /\ cacheTime <= call.since + CommandTime
      /\ InRedisOK(call.entry, k, deleted, overlapped) /\ call.since < call.entry.until
  BY <1>1, CallFacts DEF HoldsOK
<1>3. /\ call.entry \in Cached /\ Accounted(call.entry, k, deleted, overlapped)
      /\ call.entry.until <= call.entry.born + Max(Ttls) + CommandTime
  BY <1>2 DEF InRedisOK
<1>4. version \in 1..LastVersion /\ born \in 0..LastTime /\ born \in Nat /\ call.entry.until \in Nat
  BY <1>3 DEF Cached
<1>5. version <= deleted[k] => version \in overlapped
  BY <1>3 DEF Accounted
<1>6. cacheTime + MemoryTtl < born + Max(Ttls) + CommandTime + CommandTime + MemoryTtl
  <2>1. cacheTime \in Nat /\ Max(Ttls) \in Nat /\ CommandTime \in Nat /\ MemoryTtl \in Nat
    BY <1>0, CacheConstants DEF CountsOK
  <2> HIDE DEF call
  <2> QED BY <1>2, <1>3, <1>4, <2>1
<1> HIDE DEF call, k, version, born
<1>7. overlapped \subseteq overlapped' /\ MemoryTtl \in Nat
  BY <1>1, CacheConstants DEF Overlap
<1>8. CacheCallsOK' /\ \A j \in CacheKeys : Erasing(j)' => Erasing(j)
  BY <1>0, <1>1, <1>7, CallFinishes
<1>9. MemoryOK' /\ overlapped' \subseteq 1..LastVersion
  BY <1>0, <1>1, <1>2, <1>4, <1>5, <1>6, <1>7, <1>8, MemoryPut
<1>10. CountsOK'
  BY <1>0, <1>1, <1>9 DEF CountsOK
<1> QED
  BY <1>0, <1>1, <1>7, <1>8, <1>9, <1>10, RedisSame DEF CacheInv

LEMMA WriteEffects ==
  ASSUME CacheInv, NEW c \in CacheCalls, Write(c)
  PROVE  CacheInv'
<1> DEFINE call == cacheCall[c]
           k == call.key
<1>0. CountsOK /\ MemoryOK /\ RedisOK /\ CacheCallsOK
  BY DEF CacheInv
<1>1. /\ call.step = "write" /\ Finish(c)
      /\ redis' = Putting(redis, k, [call.entry EXCEPT !.put = cacheTime, !.until = cacheTime + @])
      /\ UNCHANGED <<memory, tier2, initialized, cacheTime, versions, deleted, overlapped>>
  BY DEF Write
<1>2. /\ k \in CacheKeys /\ call.since \in Nat /\ cacheTime <= call.since + CommandTime
      /\ call.entry \in Cached /\ Accounted(call.entry, k, deleted, overlapped)
      /\ call.entry.born = call.since /\ call.entry.until <= Max(Ttls)
  BY <1>1, CallFacts DEF HoldsOK
<1>3. PICK entry : entry = [call.entry EXCEPT !.put = cacheTime, !.until = cacheTime + @]
  OBVIOUS
<1>a. /\ cacheTime \in 0..LastTime /\ cacheTime \in Nat
      /\ Max(Ttls) \in Nat /\ CommandTime \in Nat
  BY <1>0, CacheConstants DEF CountsOK
<1>4. /\ entry \in Cached /\ entry.version = call.entry.version /\ entry.born = call.entry.born
      /\ entry.until = cacheTime + call.entry.until /\ call.entry.until \in Nat
  <2>1. /\ call.entry \in [version : 1..LastVersion, born : 0..LastTime, put : 0..LastTime, until : Nat]
        /\ cacheTime + call.entry.until \in Nat /\ call.entry.until \in Nat
    BY <1>2, <1>a DEF Cached
  <2> HIDE DEF call
  <2>2. entry \in Cached
    BY <1>3, <1>a, <2>1 DEF Cached
  <2>3. /\ entry.version = call.entry.version /\ entry.born = call.entry.born
        /\ entry.until = cacheTime + call.entry.until
    BY <1>3, <2>1
  <2> QED BY <2>1, <2>2, <2>3
<1>b. redis' = Putting(redis, k, entry)
  BY <1>1, <1>3
<1> HIDE DEF call, k
<1>5. InRedisOK(entry, k, deleted, overlapped)
  <2>1. entry.until <= entry.born + Max(Ttls) + CommandTime
    BY <1>2, <1>4, <1>a
  <2> QED BY <1>2, <1>4, <2>1 DEF InRedisOK, Accounted
<1>6. ASSUME NEW j \in DOMAIN redis'
      PROVE  j \in CacheKeys /\ InRedisOK(redis'[j], j, deleted, overlapped)
  <2>1. CASE j = k
    BY <1>2, <1>5, <1>b, <2>1 DEF Putting
  <2>2. CASE j # k
    <3>1. j \in DOMAIN redis /\ redis'[j] = redis[j]
      BY <1>b, <2>2 DEF Putting
    <3> QED BY <1>0, <3>1 DEF RedisOK
  <2> QED BY <2>1, <2>2
<1>7. RedisOK'
  BY <1>1, <1>6 DEF RedisOK, InRedisOK, Accounted, Cached
<1>8. CacheCallsOK' /\ \A j \in CacheKeys : Erasing(j)' => Erasing(j)
  BY <1>0, <1>1, CallFinishes
<1>9. MemoryOK'
  BY <1>0, <1>1, <1>8, MemoryShrinks DEF MemoryOK
<1>10. CountsOK'
  BY <1>0, <1>1 DEF CountsOK
<1> QED
  BY <1>7, <1>8, <1>9, <1>10 DEF CacheInv

\* A deletion reaches Redis: what others carry past it is marked.
LEMMA RemoveEffects ==
  ASSUME CacheInv, NEW c \in CacheCalls, NEW gone, gone \subseteq CacheKeys, RemoveKeys(c, gone),
         \A k \in gone : Erasing(k)
  PROVE  CacheInv'
<1>0. CountsOK /\ MemoryOK /\ RedisOK /\ CacheCallsOK
  BY DEF CacheInv
<1>1. /\ redis' = Dropping(redis, gone)
      /\ deleted' = [k \in CacheKeys |-> IF k \in gone THEN versions ELSE deleted[k]]
      /\ overlapped' = overlapped \cup Carried(c, gone)
      /\ cacheCall' = [cacheCall EXCEPT ![c] = NoCall]
      /\ UNCHANGED <<memory, tier2, initialized, cacheTime, versions>>
  BY DEF RemoveKeys, Finish
<1>2. ASSUME NEW d \in CacheCalls, d # c, cacheCall[d].step \in {"fill", "write"}
      PROVE  /\ cacheCall[d].entry.version \in 1..LastVersion
             /\ cacheCall[d].key \in gone => cacheCall[d].entry.version \in Carried(c, gone)
  <2>1. HoldsOK(cacheCall[d], cacheTime, deleted, overlapped)
    BY <1>0 DEF CacheCallsOK
  <2>2. cacheCall[d].entry \in Cached
    BY <1>2, <2>1 DEF HoldsOK, InRedisOK
  <2> QED BY <1>2, <2>2 DEF Cached, Carried
<1>3. Carried(c, gone) \subseteq 1..LastVersion
  BY <1>2 DEF Carried
<1>4. \A k \in CacheKeys : deleted'[k] = IF k \in gone THEN versions ELSE deleted[k]
  BY <1>1
<1>5. overlapped \subseteq overlapped' /\ overlapped' \subseteq 1..LastVersion
  BY <1>0, <1>1, <1>3 DEF CountsOK
<1>6. CountsOK'
  <2>1. versions \in 0..LastVersion /\ LastVersion \in Nat
    BY <1>0, CacheConstants DEF CountsOK
  <2>2. deleted' \in [CacheKeys -> 0..LastVersion]
    BY <1>0, <1>1, <2>1 DEF CountsOK
  <2>3. \A k \in CacheKeys : deleted'[k] <= versions
    BY <1>0, <1>4, <2>1 DEF CountsOK
  <2> QED BY <1>0, <1>1, <1>5, <2>2, <2>3 DEF CountsOK
<1>7. \A d \in CacheCalls : cacheCall'[d] = IF d = c THEN NoCall ELSE cacheCall[d]
  BY <1>0, <1>1 DEF CacheCallsOK
<1>8. \A k \in CacheKeys : Erasing(k)' => Erasing(k)
  BY <1>7 DEF Erasing, NoCall
<1>9. ASSUME NEW k \in DOMAIN memory'
      PROVE  /\ k \in CacheKeys /\ InMemoryOK(memory'[k], k, deleted', overlapped')
             /\ Erasing(k)' => memory'[k].version \in overlapped'
  <2>1. /\ k \in CacheKeys /\ InMemoryOK(memory[k], k, deleted, overlapped)
        /\ Erasing(k) => memory[k].version \in overlapped
    BY <1>0, <1>1 DEF MemoryOK
  <2>2. Accounted(memory[k], k, deleted', overlapped')
    <3>1. CASE k \in gone
      BY <1>5, <2>1, <3>1 DEF Accounted
    <3>2. CASE k \notin gone
      BY <1>4, <1>5, <2>1, <3>2 DEF InMemoryOK, Accounted
    <3> QED BY <3>1, <3>2
  <2> QED BY <1>1, <1>5, <1>8, <2>1, <2>2 DEF InMemoryOK
<1>10. MemoryOK'
  <2>1. MemoryWithinSize'
    BY <1>0, <1>1 DEF MemoryOK, MemoryWithinSize
  <2>2. ASSUME NEW k \in DOMAIN memory' PROVE InMemoryOK(memory[k], k, deleted, overlapped)'
    BY <1>9 DEF InMemoryOK, Accounted, Cached
  <2> QED BY <1>9, <2>1, <2>2 DEF MemoryOK
<1>11. ASSUME NEW k \in DOMAIN redis'
       PROVE  k \in CacheKeys /\ InRedisOK(redis'[k], k, deleted', overlapped')
  <2>1. k \in DOMAIN redis /\ k \notin gone /\ redis'[k] = redis[k]
    BY <1>1 DEF Dropping
  <2>2. k \in CacheKeys /\ InRedisOK(redis[k], k, deleted, overlapped)
    BY <1>0, <2>1 DEF RedisOK
  <2>3. InRedisOK(redis[k], k, deleted', overlapped')
    BY <1>4, <1>5, <2>1, <2>2 DEF InRedisOK, Accounted
  <2> QED BY <2>1, <2>2, <2>3
<1>12. RedisOK'
  BY <1>11 DEF RedisOK, InRedisOK, Accounted, Cached
<1>13. ASSUME NEW d \in CacheCalls
       PROVE  HoldsOK(cacheCall'[d], cacheTime, deleted', overlapped')
  <2>1. CASE d = c
    <3>1. HoldsOK(NoCall, cacheTime, deleted', overlapped')
      BY CacheConstants DEF HoldsOK, NoCall, CallRecord, CacheSteps, Ops
    <3> QED BY <1>7, <2>1, <3>1
  <2>2. CASE d # c
    <3>1. HoldsOK(cacheCall[d], cacheTime, deleted, overlapped) /\ cacheCall'[d] = cacheCall[d]
      BY <1>0, <1>7, <2>2 DEF CacheCallsOK
    <3>2. ASSUME cacheCall[d].step \in {"fill", "write"}
          PROVE  Accounted(cacheCall[d].entry, cacheCall[d].key, deleted', overlapped')
      <4>1. /\ cacheCall[d].key \in CacheKeys
            /\ Accounted(cacheCall[d].entry, cacheCall[d].key, deleted, overlapped)
        BY <3>1, <3>2 DEF HoldsOK, InRedisOK
      <4>2. CASE cacheCall[d].key \in gone
        BY <1>1, <1>2, <2>2, <3>2, <4>2 DEF Accounted
      <4>3. CASE cacheCall[d].key \notin gone
        BY <1>4, <1>5, <4>1, <4>3 DEF Accounted
      <4> QED BY <4>2, <4>3
    <3> QED BY <3>1, <3>2 DEF HoldsOK, InRedisOK
  <2> QED BY <2>1, <2>2
<1>14. CacheCallsOK'
  <2>1. cacheCall' \in [CacheCalls -> CallRecord]
    BY <1>0, <1>1, CacheConstants DEF CacheCallsOK, NoCall, CallRecord, CacheSteps, Ops
  <2>2. ASSUME NEW d \in CacheCalls PROVE HoldsOK(cacheCall[d], cacheTime, deleted, overlapped)'
    BY <1>1, <1>13 DEF HoldsOK, InRedisOK, Accounted, Cached, CallRecord
  <2> QED BY <2>1, <2>2 DEF CacheCallsOK
<1> QED
  BY <1>6, <1>10, <1>12, <1>14 DEF CacheInv

LEMMA CacheTickEffects ==
  ASSUME CacheInv, CacheTick
  PROVE  CacheInv'
<1>0. CountsOK /\ MemoryOK /\ RedisOK /\ CacheCallsOK
  BY DEF CacheInv
<1>1. /\ cacheTime < LastTime /\ cacheTime' = cacheTime + 1
      /\ \A c \in CacheCalls :
           cacheCall[c].step # "none" => cacheTime < cacheCall[c].since + CommandTime
      /\ redis' = Dropping(redis, {k \in DOMAIN redis : redis[k].until <= cacheTime + 1})
      /\ UNCHANGED <<memory, tier2, initialized, cacheCall, versions, deleted, overlapped>>
  BY DEF CacheTick
<1>2. cacheTime \in Nat /\ LastTime \in Nat /\ CommandTime \in Nat
  BY <1>0, CacheConstants DEF CountsOK
<1>3. CountsOK'
  BY <1>0, <1>1, <1>2 DEF CountsOK
<1>4. MemoryOK'
  <2>1. \A k \in CacheKeys : Erasing(k)' => Erasing(k)
    BY <1>1 DEF Erasing
  <2> QED BY <1>0, <1>1, <2>1, MemoryShrinks DEF MemoryOK
<1>5. \A k \in DOMAIN redis' : k \in DOMAIN redis /\ redis'[k] = redis[k]
  BY <1>1 DEF Dropping
<1>6. RedisOK'
  <2> SUFFICES ASSUME NEW k \in DOMAIN redis'
               PROVE  k \in CacheKeys /\ InRedisOK(redis[k], k, deleted, overlapped)'
    BY DEF RedisOK
  <2>1. k \in CacheKeys /\ InRedisOK(redis[k], k, deleted, overlapped) /\ redis'[k] = redis[k]
    BY <1>0, <1>5 DEF RedisOK
  <2> QED BY <1>1, <2>1 DEF InRedisOK, Accounted, Cached
<1>7. ASSUME NEW c \in CacheCalls PROVE HoldsOK(cacheCall[c], cacheTime, deleted, overlapped)'
  <2>1. HoldsOK(cacheCall[c], cacheTime, deleted, overlapped)
    BY <1>0 DEF CacheCallsOK
  <2>2. cacheCall[c].step # "none" =>
          cacheCall[c].since <= cacheTime' /\ cacheTime' <= cacheCall[c].since + CommandTime
    <3>1. cacheCall[c].since \in Nat
      BY <1>0, <1>2 DEF CacheCallsOK, CallRecord
    <3> QED BY <1>1, <1>2, <2>1, <3>1 DEF HoldsOK
  <2>3. HoldsOK(cacheCall[c], cacheTime', deleted, overlapped)
    BY <2>1, <2>2 DEF HoldsOK
  <2> QED BY <1>1, <2>3 DEF HoldsOK, InRedisOK, Accounted, Cached, CallRecord
<1>8. CacheCallsOK'
  <2>1. cacheCall' \in [CacheCalls -> CallRecord]
    BY <1>0, <1>1 DEF CacheCallsOK
  <2> QED BY <1>7, <2>1 DEF CacheCallsOK
<1> QED
  BY <1>3, <1>4, <1>6, <1>8 DEF CacheInv

LEMMA CacheInitInv == CacheInit => CacheInv
<1> SUFFICES ASSUME CacheInit PROVE CacheInv
  OBVIOUS
<1>1. CountsOK
  <2>1. 0 \in 0..LastTime /\ 0 \in 0..LastVersion
    BY CacheConstants
  <2>2. tier2 \in BOOLEAN /\ initialized \in BOOLEAN
    BY DEF CacheInit
  <2>3. deleted \in [CacheKeys -> 0..LastVersion] /\ \A k \in CacheKeys : deleted[k] = 0
    BY <2>1 DEF CacheInit
  <2> QED BY <2>1, <2>2, <2>3 DEF CacheInit, CountsOK
<1>2. DOMAIN memory = {} /\ DOMAIN redis = {}
  BY DEF CacheInit, NoEntries
<1>3. MemoryOK
  <2>1. Cardinality(DOMAIN memory) = 0
    BY <1>2, FS_EmptySet
  <2> QED BY <1>2, <2>1, CacheConstants DEF MemoryOK, MemoryWithinSize
<1>4. RedisOK
  BY <1>2 DEF RedisOK
<1>5. CacheCallsOK
  <2>1. HoldsOK(NoCall, cacheTime, deleted, overlapped) /\ NoCall \in CallRecord
    BY CacheConstants DEF HoldsOK, NoCall, CallRecord, CacheSteps, Ops
  <2> QED BY <2>1 DEF CacheInit, CacheCallsOK
<1> QED
  BY <1>1, <1>3, <1>4, <1>5 DEF CacheInv

LEMMA CacheStepInv == CacheInv /\ [CacheNext]_cacheVars => CacheInv'
<1> SUFFICES ASSUME CacheInv, [CacheNext]_cacheVars PROVE CacheInv'
  OBVIOUS
<1>0. CountsOK /\ MemoryOK /\ RedisOK /\ CacheCallsOK
  BY DEF CacheInv
<1>a. tier2 \in BOOLEAN /\ initialized \in BOOLEAN
  BY <1>0 DEF CountsOK
<1>1. ASSUME NEW c \in CacheCalls, NEW op \in Ops, NEW k \in CacheKeys, Call(c, op, k)
      PROVE  CacheInv'
  <2>1. /\ Enter(c, op, k, tier2)
        /\ UNCHANGED <<redis, tier2, initialized, cacheTime, deleted>>
    BY <1>1 DEF Call
  <2>2. tier2' \in BOOLEAN /\ initialized' \in BOOLEAN
    BY <1>a, <2>1
  <2> QED BY <2>1, <2>2, EnterEffects
<1>2. ASSUME NEW c \in CacheCalls, NEW op \in Ops, NEW k \in CacheKeys, Initialize(c, op, k)
      PROVE  CacheInv'
  <2>1. /\ memory' = NoEntries /\ tier2' = TRUE
        /\ Await(c, "ping", op, k, NoEntry)
        /\ UNCHANGED <<redis, initialized, cacheTime, versions, deleted, overlapped>>
    BY <1>2 DEF Initialize
  <2>2. DOMAIN memory' = {}
    BY <2>1 DEF NoEntries
  <2>3. CacheCallsOK'
    <3>1. "ping" \in CacheSteps
      BY DEF CacheSteps
    <3> QED BY <1>0, <2>1, <3>1, CallAwaits
  <2>4. MemoryOK'
    BY <1>0, <2>1, <2>2, MemoryShrinks
  <2>5. tier2' \in BOOLEAN
    BY <2>1
  <2>6. CountsOK'
    BY <1>0, <2>1, <2>5 DEF CountsOK
  <2> QED BY <1>0, <2>1, <2>3, <2>4, <2>6, RedisSame DEF CacheInv
<1>3. ASSUME NEW c \in CacheCalls, Ping(c)
      PROVE  CacheInv'
  <2>1. PICK answered \in BOOLEAN :
          /\ tier2' = (tier2 /\ answered)
          /\ initialized' = TRUE
          /\ Enter(c, cacheCall[c].op, cacheCall[c].key, tier2')
    BY <1>3 DEF Ping
  <2>2. cacheCall[c].step = "ping" /\ UNCHANGED <<redis, cacheTime, deleted>>
    BY <1>3 DEF Ping
  <2>3. cacheCall[c].op \in Ops /\ cacheCall[c].key \in CacheKeys
    BY <2>2, CallFacts
  <2>4. tier2' \in BOOLEAN /\ initialized' \in BOOLEAN
    BY <1>a, <2>1
  <2> QED BY <2>1, <2>2, <2>3, <2>4, EnterEffects
<1>4. ASSUME NEW c \in CacheCalls, Read(c)
      PROVE  CacheInv'
  <2> DEFINE k == cacheCall[c].key
  <2>1. /\ cacheCall[c].step = "read"
        /\ IF Live(redis, k) THEN Await(c, "fill", "get", k, redis[k]) ELSE Finish(c)
        /\ UNCHANGED <<memory, redis, tier2, initialized, cacheTime, versions, deleted,
                       overlapped>>
    BY <1>4 DEF Read
  <2>2. k \in CacheKeys
    BY <2>1, CallFacts
  <2> HIDE DEF k
  <2>3. CacheCallsOK' /\ \A j \in CacheKeys : Erasing(j)' => Erasing(j)
    <3>1. CASE Live(redis, k)
      <4>1. InRedisOK(redis[k], k, deleted, overlapped) /\ cacheTime < redis[k].until
        <5>1. k \in DOMAIN redis /\ redis[k].until > cacheTime
          BY <3>1 DEF Live
        <5>2. InRedisOK(redis[k], k, deleted, overlapped)
          BY <1>0, <5>1 DEF RedisOK
        <5>3. cacheTime \in Nat /\ redis[k].until \in Nat
          BY <1>0, <5>2, CacheConstants DEF CountsOK, InRedisOK, Cached
        <5> QED BY <5>1, <5>2, <5>3
      <4>2. redis[k] \in Cached
        BY <4>1 DEF InRedisOK
      <4>3. "fill" \in CacheSteps /\ "get" \in Ops
        BY DEF CacheSteps, Ops
      <4>4. Await(c, "fill", "get", k, redis[k])
        BY <2>1, <3>1
      <4> QED BY <1>0, <2>1, <2>2, <4>1, <4>2, <4>3, <4>4, CallAwaits
    <3>2. CASE ~Live(redis, k)
      BY <1>0, <2>1, <3>2, CallFinishes
    <3> QED BY <3>1, <3>2
  <2>4. MemoryOK'
    BY <1>0, <2>1, <2>3, MemoryShrinks DEF MemoryOK
  <2>5. CountsOK'
    BY <1>0, <2>1 DEF CountsOK
  <2> QED BY <1>0, <2>1, <2>3, <2>4, <2>5, RedisSame DEF CacheInv
<1>5. ASSUME NEW c \in CacheCalls, Erase(c) \/ Flush(c)
      PROVE  CacheInv'
  <2>1. CASE Erase(c)
    <3>1. /\ cacheCall[c].step = "erase" /\ RemoveKeys(c, {cacheCall[c].key})
          /\ cacheCall[c].key \in CacheKeys
      BY <2>1, CallFacts DEF Erase
    <3>2. \A k \in {cacheCall[c].key} : Erasing(k)
      BY <3>1 DEF Erasing
    <3> QED BY <3>1, <3>2, RemoveEffects
  <2>2. CASE Flush(c)
    <3>1. cacheCall[c].step = "flush" /\ RemoveKeys(c, CacheKeys)
      BY <2>2 DEF Flush
    <3>2. \A k \in CacheKeys : Erasing(k)
      BY <3>1 DEF Erasing
    <3> QED BY <3>1, <3>2, RemoveEffects
  <2> QED BY <1>5, <2>1, <2>2
<1>6. ASSUME NEW c \in CacheCalls, CommandFails(c)
      PROVE  CacheInv'
  <2>1. /\ Finish(c)
        /\ UNCHANGED <<memory, redis, tier2, initialized, cacheTime, versions, deleted, overlapped>>
    BY <1>6 DEF CommandFails
  <2>2. CacheCallsOK' /\ \A j \in CacheKeys : Erasing(j)' => Erasing(j)
    BY <1>0, <2>1, CallFinishes
  <2>3. MemoryOK'
    BY <1>0, <2>1, <2>2, MemoryShrinks DEF MemoryOK
  <2>4. CountsOK'
    BY <1>0, <2>1 DEF CountsOK
  <2> QED BY <1>0, <2>1, <2>2, <2>3, <2>4, RedisSame DEF CacheInv
<1>7. CASE CleanUpMemory
  <2>1. /\ memory' = Dropping(memory, {k \in DOMAIN memory : memory[k].until <= cacheTime})
        /\ UNCHANGED <<redis, tier2, initialized, cacheCall, cacheTime, versions, deleted,
                       overlapped>>
    BY <1>7 DEF CleanUpMemory
  <2>2. \A k \in DOMAIN memory' : k \in DOMAIN memory /\ memory'[k] = memory[k]
    BY <2>1 DEF Dropping
  <2>3. \A k \in CacheKeys : Erasing(k)' => Erasing(k)
    BY <2>1 DEF Erasing
  <2>4. MemoryOK'
    BY <1>0, <2>1, <2>2, <2>3, MemoryShrinks DEF MemoryOK
  <2>5. CountsOK' /\ CacheCallsOK'
    BY <1>0, <2>1 DEF CountsOK, CacheCallsOK, HoldsOK, InRedisOK, Accounted, CallRecord, Cached
  <2> QED BY <1>0, <2>1, <2>4, <2>5, RedisSame DEF CacheInv
<1>8. CASE UNCHANGED cacheVars
  <2>1. UNCHANGED <<memory, redis, tier2, initialized, cacheCall, cacheTime, versions, deleted,
                    overlapped>>
    BY <1>8 DEF cacheVars
  <2>2. MemoryOK'
    BY <1>0, <2>1, MemoryShrinks DEF Erasing
  <2>3. CountsOK' /\ CacheCallsOK'
    BY <1>0, <2>1 DEF CountsOK, CacheCallsOK, HoldsOK, InRedisOK, Accounted, CallRecord, Cached
  <2> QED BY <1>0, <2>1, <2>2, <2>3, RedisSame DEF CacheInv
<1> QED
  BY <1>1, <1>2, <1>3, <1>4, <1>5, <1>6, <1>7, <1>8, FillEffects, WriteEffects, CacheTickEffects
     DEF CacheNext

LEMMA CacheAlways == CacheSpec => []CacheInv
BY CacheInitInv, CacheStepInv, PTL DEF CacheSpec

\* The tiers hold entries that set() wrote, and calls what they read or are to write.
THEOREM CacheTypeCorrect == CacheSpec => []CacheTypeOK
<1>1. CacheInv => CacheTypeOK
  <2> SUFFICES ASSUME CacheInv PROVE CacheTypeOK
    OBVIOUS
  <2>1. DOMAIN memory \subseteq CacheKeys /\ \A k \in DOMAIN memory : memory[k] \in Cached
    BY DEF CacheInv, MemoryOK, InMemoryOK
  <2>2. DOMAIN redis \subseteq CacheKeys /\ \A k \in DOMAIN redis : redis[k] \in Cached
    BY DEF CacheInv, RedisOK, InRedisOK
  <2> QED BY <2>1, <2>2 DEF CacheInv, CountsOK, CacheCallsOK, CacheTypeOK
<1> QED
  BY <1>1, CacheAlways, PTL

\* Whatever calls overlap, the memory tier holds no more entries than its size.
THEOREM CacheStaysWithinSize == CacheSpec => []MemoryWithinSize
<1>1. CacheInv => MemoryWithinSize
  BY DEF CacheInv, MemoryOK
<1> QED
  BY <1>1, CacheAlways, PTL

\* A value is served for less than both times to live and the time of two commands.
THEOREM CacheLifetimesAdd == CacheSpec => []LifetimesAdd
<1>1. CacheInv => LifetimesAdd
  <2> SUFFICES ASSUME CacheInv PROVE LifetimesAdd
    OBVIOUS
  <2>1. Max(Ttls) \in Nat /\ CommandTime \in Nat /\ MemoryTtl \in Nat
    BY CacheConstants
  <2>2. ASSUME NEW k \in DOMAIN redis
        PROVE  redis[k].until <= redis[k].born + (Max(Ttls) + CommandTime)
    <3>1. InRedisOK(redis[k], k, deleted, overlapped)
      BY DEF CacheInv, RedisOK
    <3>2. redis[k].until \in Nat /\ redis[k].born \in Nat
      BY <3>1 DEF InRedisOK, Cached
    <3> QED BY <2>1, <3>1, <3>2 DEF InRedisOK
  <2>3. ASSUME NEW k \in DOMAIN memory
        PROVE  memory[k].until
                 < memory[k].born + (Max(Ttls) + CommandTime) + CommandTime + MemoryTtl
    <3>1. InMemoryOK(memory[k], k, deleted, overlapped)
      BY DEF CacheInv, MemoryOK
    <3>2. memory[k].until \in Nat /\ memory[k].born \in Nat
      BY <3>1 DEF InMemoryOK, Cached
    <3> QED BY <2>1, <3>1, <3>2 DEF InMemoryOK
  <2> QED BY <2>2, <2>3 DEF LifetimesAdd
<1> QED
  BY <1>1, CacheAlways, PTL

\* What was deleted comes back only in the hands of a call that overlapped the
\* deletion, whatever the interleaving of any number of calls.
THEOREM CacheBackOnlyByOverlap == CacheSpec => []BackOnlyByOverlap
<1>1. CacheInv => BackOnlyByOverlap
  BY DEF CacheInv, MemoryOK, RedisOK, InMemoryOK, InRedisOK, Accounted, BackOnlyByOverlap
<1> QED
  BY <1>1, CacheAlways, PTL
=============================================================================
