----------------------------- MODULE RateLimit -----------------------------
(***************************************************************************)
(* The request limiter of the API: every instance counts in one shared     *)
(* Redis log per subject and, while Redis fails or is too slow, in its own  *)
(* memory (FallbackRateLimitStore over RedisRateLimitStore and              *)
(* MemoryRateLimitStore).                                                   *)
(*                                                                         *)
(* hit_now and the code around the await of the shared store run without   *)
(* suspension on the event loop and are one action each; the Lua script is *)
(* one action of Redis.  Between them other requests, the sweep and the    *)
(* clock move.                                                             *)
(***************************************************************************)
EXTENDS Integers, Sequences, FiniteSets

CONSTANTS
  InstanceNames,
  Redis,        \* the shared store
  SubjectNames,
  Calls,        \* requests that may await Redis at once
  Window,       \* SECURITY_RATE_LIMIT_WINDOW
  Cooldown,     \* FALLBACK_COOLDOWN_SECONDS
  MaxTime,      \* bound of the clock
  Deployments   \* the deployments of the model, one of which runs:
                \*   shared     SECURITY_RATE_LIMIT_STORAGE_URL is set
                \*   limit      SECURITY_RATE_LIMIT_REQUESTS
                \*   cap        DEFAULT_MAX_SUBJECTS
                \*   instances  API processes, each with its own memory store
                \*   subjects   principals and client addresses
                \*   last       the last time of the clock

ASSUME RateLimitAssumption ==
  /\ IsFiniteSet(InstanceNames) /\ IsFiniteSet(SubjectNames) /\ IsFiniteSet(Calls)
  /\ Redis \notin InstanceNames
  /\ Window \in Nat \ {0}
  /\ Cooldown \in Nat
  /\ MaxTime \in Nat
  /\ Deployments \subseteq [shared : BOOLEAN, limit : Nat \ {0}, cap : Nat \ {0},
                           instances : SUBSET InstanceNames,
                           subjects : SUBSET SubjectNames, last : 0 .. MaxTime]

Times == 0 .. MaxTime
Healthy == -1                 \* _retry_at is None

VARIABLES
  deployment, \* the one that runs, fixed at the start
  now,
  log,        \* log[st][s]: times of the counted requests, oldest first
  order,      \* order[i]: subjects of instance i's OrderedDict, oldest first
  lastSweep,  \* lastSweep[i]
  retryAt,    \* retryAt[i]
  call,       \* call[c]: a request between its arrival and its decision
  (* history, read by no action *)
  grants      \* grants[st][s]: times, within the last window and since s was
              \* last evicted from st, of the requests that st allowed

Instances == deployment.instances
Subjects == deployment.subjects
Limit == deployment.limit
MaxSubjects == deployment.cap
Stores == Instances \cup {Redis}

limiterVars == <<deployment, now, log, order, lastSweep, retryAt, call, grants>>

NoPending == [step |-> "idle"]
CallSteps == {"sent", "ran", "lost"}
Pending ==
  {NoPending} \cup [step : CallSteps, inst : Instances, subj : Subjects,
               at : Times, allowed : BOOLEAN]

Members(q) == {q[k] : k \in 1 .. Len(q)}

LimiterTypeOK ==
  /\ deployment \in Deployments
  /\ now \in 0 .. deployment.last
  /\ \A st \in Stores, s \in Subjects :
       /\ Members(log[st][s]) \subseteq Times /\ Len(log[st][s]) <= Limit
       /\ Members(grants[st][s]) \subseteq Times
  /\ \A i \in Instances : Members(order[i]) \subseteq Subjects
  /\ lastSweep \in [Instances -> Times]
  /\ retryAt \in [Instances -> {Healthy} \cup (0 .. MaxTime + Cooldown)]
  /\ call \in [Calls -> Pending]

LimiterInit ==
  /\ deployment \in Deployments
  /\ now = 0
  /\ log = [st \in Stores |-> [s \in Subjects |-> <<>>]]
  /\ order = [i \in Instances |-> <<>>]
  /\ lastSweep = [i \in Instances |-> 0]
  /\ retryAt = [i \in Instances |-> Healthy]
  /\ call = [c \in Calls |-> NoPending]
  /\ grants = log

-----------------------------------------------------------------------------
\* The sequence of q's elements that are in S: SelectSeq, with a definition that
\* can be reasoned about.
Kept(q, S) ==
  LET kept[k \in 0 .. Len(q)] ==
        IF k = 0 THEN <<>>
        ELSE IF q[k] \in S THEN Append(kept[k - 1], q[k]) ELSE kept[k - 1]
  IN  kept[Len(q)]

(* The sliding-window log *)

\* popleft while the head is at or before the cutoff.
Prune(q, cutoff) ==
  LET live == {k \in 1 .. Len(q) : q[k] > cutoff}
  IN  IF live = {} THEN <<>>
      ELSE SubSeq(q, CHOOSE k \in live : \A l \in live : k <= l, Len(q))

\* A request under the limit is recorded; a refused one is not.
Counted(q) == IF Len(q) < Limit THEN Append(q, now) ELSE q

Allows(q) == Len(q) < Limit

Cutoff == now - Window

\* Mutant: a subject is swept when its oldest record has expired.
LapsedByOldest(i, x) == log[i][x] = <<>> \/ Head(log[i][x]) <= Cutoff

\* _sweep_locked: the newest record decides.
Lapsed(i, x) == log[i][x] = <<>> \/ log[i][x][Len(log[i][x])] <= Cutoff

Swept(i) == {x \in Members(order[i]) : Lapsed(i, x)}

\* Mutant: a subject is inserted although the store is at its cap.
RememberedAll(q) == q

\* popitem(last=False) while there are too many subjects.
Remembered(q) ==
  IF Len(q) > MaxSubjects THEN SubSeq(q, Len(q) - MaxSubjects + 1, Len(q)) ELSE q

\* MemoryRateLimitStore.hit_now on instance i: a sweep when one is due, the
\* subject moved to or inserted at the end of the dictionary, the least
\* recently used one evicted, then the subject's own window.
MemoryHit(i, s) ==
  LET due   == now - lastSweep[i] >= Window
      gone  == IF due THEN Swept(i) ELSE {}
      full  == Append(Kept(order[i], Subjects \ (gone \cup {s})), s)
      own   == IF s \in gone THEN <<>> ELSE Prune(log[i][s], Cutoff)
      left  == Members(Remembered(full))
  IN  /\ lastSweep' = [lastSweep EXCEPT ![i] = IF due THEN now ELSE @]
      /\ order' = [order EXCEPT ![i] = Remembered(full)]
      /\ log' = [log EXCEPT ![i] =
                   [x \in Subjects |-> IF x = s THEN Counted(own)
                                       ELSE IF x \in left THEN @[x] ELSE <<>>]]
      /\ grants' = [grants EXCEPT ![i] =
                      [x \in Subjects |->
                         IF x \in Members(full) \ left THEN <<>>
                         ELSE IF x = s /\ Allows(own) THEN Append(@[x], now)
                         ELSE @[x]]]

-----------------------------------------------------------------------------
(* FallbackRateLimitStore.hit *)

\* A request arrives and the shared store is to be tried.
TryShared(c, i, s) ==
  /\ deployment.shared
  /\ call[c] = NoPending
  /\ retryAt[i] = Healthy \/ now >= retryAt[i]
  /\ call' = [call EXCEPT ![c] = [step |-> "sent", inst |-> i, subj |-> s,
                                  at |-> now, allowed |-> FALSE]]
  /\ UNCHANGED <<deployment, now, log, order, lastSweep, retryAt, grants>>

\* A request arrives where there is no shared store, or during an outage: it
\* is decided at once.
CountLocally(i, s) ==
  /\ deployment.shared => retryAt[i] # Healthy /\ now < retryAt[i]
  /\ MemoryHit(i, s)
  /\ UNCHANGED <<deployment, now, retryAt, call>>

\* Redis runs the script, for a caller that waits or for one that gave up.
RunScript(c) ==
  /\ call[c].step \in {"sent", "lost"}
  /\ LET s   == call[c].subj
         own == Prune(log[Redis][s], Cutoff)
     IN  /\ log' = [log EXCEPT ![Redis][s] = Counted(own)]
         /\ grants' = IF Allows(own) THEN [grants EXCEPT ![Redis][s] = Append(@, now)]
                                    ELSE grants
         /\ call' = [call EXCEPT ![c] =
                       IF @.step = "lost" THEN NoPending
                       ELSE [@ EXCEPT !.step = "ran", !.allowed = Allows(own)]]
  /\ UNCHANGED <<deployment, now, order, lastSweep, retryAt>>

\* The reply arrives in time: the instance considers Redis healthy.
Reply(c) ==
  /\ call[c].step = "ran"
  /\ retryAt' = [retryAt EXCEPT ![call[c].inst] = Healthy]
  /\ call' = [call EXCEPT ![c] = NoPending]
  /\ UNCHANGED <<deployment, now, log, order, lastSweep, grants>>

\* Mutant: a failure of the shared store lets the request through.
FailOpen(c) ==
  /\ call[c].step \in {"sent", "ran"}
  /\ LET i == call[c].inst
     IN  /\ retryAt' = [retryAt EXCEPT ![i] = call[c].at + Cooldown]
         /\ grants' = [grants EXCEPT ![i][call[c].subj] = Append(@, now)]
  /\ \/ call' = [call EXCEPT ![c] = NoPending]
     \/ call[c].step = "sent" /\ call' = [call EXCEPT ![c].step = "lost"]
  /\ UNCHANGED <<deployment, now, log, order, lastSweep>>

\* An error or the timeout of 250 ms: the outage starts or goes on, and the
\* request is counted locally.  Its script may have run, or may still run.
Fail(c) ==
  /\ call[c].step \in {"sent", "ran"}
  /\ LET i == call[c].inst
     IN  /\ retryAt' = [retryAt EXCEPT ![i] = call[c].at + Cooldown]
         /\ MemoryHit(i, call[c].subj)
  /\ \/ call' = [call EXCEPT ![c] = NoPending]
     \/ call[c].step = "sent" /\ call' = [call EXCEPT ![c].step = "lost"]
  /\ UNCHANGED <<deployment, now>>

\* The command of a caller that gave up never reaches Redis.
Vanish(c) ==
  /\ call[c].step = "lost"
  /\ call' = [call EXCEPT ![c] = NoPending]
  /\ UNCHANGED <<deployment, now, log, order, lastSweep, retryAt, grants>>

-----------------------------------------------------------------------------
\* The background task of RateLimiter.
Sweep(i) ==
  /\ lastSweep' = [lastSweep EXCEPT ![i] = now]
  /\ order' = [order EXCEPT ![i] = Kept(@, Subjects \ Swept(i))]
  /\ log' = [log EXCEPT ![i] =
               [x \in Subjects |-> IF x \in Swept(i) THEN <<>> ELSE @[x]]]
  /\ UNCHANGED <<deployment, now, retryAt, call, grants>>

\* Grants leave the history, and Redis keys expire with the script's next
\* prune, when their window has passed.
Tick ==
  /\ now < deployment.last
  /\ now' = now + 1
  /\ grants' = [st \in Stores |-> [s \in Subjects |->
                  Kept(grants[st][s], now' - Window + 1 .. MaxTime)]]
  /\ UNCHANGED <<deployment, log, order, lastSweep, retryAt, call>>

LimiterNext ==
  \/ \E c \in Calls :
       \/ \E i \in Instances, s \in Subjects : TryShared(c, i, s)
       \/ RunScript(c) \/ Reply(c) \/ Fail(c) \/ Vanish(c)
  \/ \E i \in Instances : Sweep(i) \/ \E s \in Subjects : CountLocally(i, s)
  \/ Tick

LimiterSpec == LimiterInit /\ [][LimiterNext]_limiterVars

-----------------------------------------------------------------------------
(* Properties *)

\* One store allows a subject at most Limit requests in any window, however
\* calls, late scripts, sweeps and the clock interleave (rate_limit_store.py:4),
\* unless the cap on subjects made that instance forget it.
WindowLimit ==
  \A st \in Stores, s \in Subjects :
    Len(grants[st][s]) <= Limit

\* "It is never allowed without being counted": what a store allowed in the
\* last window is still in its log, so it weighs on the next decision.
GrantsAreCounted ==
  \A st \in Stores, s \in Subjects :
    Len(grants[st][s]) = Len(Prune(log[st][s], Cutoff))

\* The memory of an instance holds no more subjects than its cap, each once,
\* and records of none but those.
MemoryBounded ==
  \A i \in Instances :
    /\ Len(order[i]) <= MaxSubjects
    /\ Cardinality(Members(order[i])) = Len(order[i])
    /\ \A s \in Subjects : log[i][s] # <<>> => s \in Members(order[i])
=============================================================================
