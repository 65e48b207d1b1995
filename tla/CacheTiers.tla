----------------------------- MODULE CacheTiers -----------------------------
(***************************************************************************)
(* CacheManager: a memory tier in front of Redis, used by the embedders,   *)
(* the health check and the reset route of the documents API.              *)
(*                                                                         *)
(* One process.  The memory tier never suspends, so a call runs from its   *)
(* start, or from a reply of Redis, to its next command to Redis.  Redis   *)
(* executes a command somewhere between the two.  A command that fails     *)
(* (connection, serialization, timeout) is answered like a miss.           *)
(*                                                                         *)
(* An entry is the version that set() wrote, with its time of birth: what  *)
(* is cached is not looked at.                                             *)
(***************************************************************************)
EXTENDS Naturals, FiniteSets, FiniteSetsExt

CONSTANTS
  CacheKeys, NoKey,
  CacheCalls,       \* calls of the cache under way at the same time
  MemorySize,       \* config.l1_max_size
  MemoryTtl,        \* config.l1_ttl
  Ttls,             \* times to live that callers ask for
  CommandTime,      \* longest time a command to Redis takes, its timeout
  LastTime, LastVersion   \* bounds of the model

ASSUME CacheTiersAssumption ==
  /\ MemorySize \in Nat \ {0} /\ MemoryTtl \in Nat \ {0}
  /\ IsFiniteSet(CacheKeys) /\ NoKey \notin CacheKeys
  /\ Ttls # {} /\ IsFiniteSet(Ttls) /\ Ttls \subseteq Nat \ {0}
  /\ CommandTime \in Nat /\ LastTime \in Nat /\ LastVersion \in Nat

VARIABLES
  memory,       \* _l1_cache
  redis,        \* what the server holds
  tier2,        \* _l2_cache is not None
  initialized,  \* _initialized
  cacheCall,    \* where each call stands
  cacheTime,
  versions,     \* how often set() was called
  (* history, read by no action *)
  deleted,      \* of each key, the newest version when it was last deleted
  overlapped    \* versions that a call carried past a deletion

cacheVars == <<memory, redis, tier2, initialized, cacheCall, cacheTime, versions,
               deleted, overlapped>>

Cached == [version : 1..LastVersion, born : 0..LastTime, put : 0..LastTime, until : Nat]
NoEntry == [version |-> 0, born |-> 0, put |-> 0, until |-> 0]
Ops == {"get", "set", "delete", "clear"}
NoCall == [step |-> "none", op |-> "get", key |-> NoKey, entry |-> NoEntry, since |-> 0]
CacheSteps == {"none", "ping", "read", "fill", "write", "erase", "flush"}
CallRecord == [step : CacheSteps, op : Ops, key : CacheKeys \cup {NoKey},
               entry : Cached \cup {NoEntry}, since : 0..LastTime]

CacheTypeOK ==
  /\ DOMAIN memory \subseteq CacheKeys /\ \A k \in DOMAIN memory : memory[k] \in Cached
  /\ DOMAIN redis \subseteq CacheKeys /\ \A k \in DOMAIN redis : redis[k] \in Cached
  /\ tier2 \in BOOLEAN /\ initialized \in BOOLEAN
  /\ cacheCall \in [CacheCalls -> CallRecord]
  /\ cacheTime \in 0..LastTime /\ versions \in 0..LastVersion
  /\ deleted \in [CacheKeys -> 0..LastVersion]
  /\ overlapped \subseteq 1..LastVersion

NoEntries == [k \in {} |-> NoEntry]

CacheInit ==
  /\ memory = NoEntries /\ redis = NoEntries
  /\ tier2 = FALSE /\ initialized = FALSE
  /\ cacheCall = [c \in CacheCalls |-> NoCall]
  /\ cacheTime = 0 /\ versions = 0
  /\ deleted = [k \in CacheKeys |-> 0] /\ overlapped = {}

-----------------------------------------------------------------------------
(* The tiers *)

Live(tier, k) == k \in DOMAIN tier /\ tier[k].until > cacheTime

Dropping(tier, keys) == [k \in DOMAIN tier \ keys |-> tier[k]]

Putting(tier, k, entry) ==
  [j \in DOMAIN tier \cup {k} |-> IF j = k THEN entry ELSE tier[j]]

Evictions == Max({1, MemorySize \div 10})

\* Mutant: a full cache takes one more entry.
EvictedLate(tier) ==
  IF Cardinality(DOMAIN tier) <= MemorySize THEN {{}}
  ELSE {{k} : k \in DOMAIN tier}

\* _evict_if_needed: the keys it can remove, the oldest of a full cache, whether
\* or not the key to be put is there already.
Evicted(tier) ==
  IF Cardinality(DOMAIN tier) < MemorySize THEN {{}}
  ELSE {keys \in SUBSET DOMAIN tier :
          /\ Cardinality(keys) = Evictions
          /\ \A k \in keys, j \in DOMAIN tier \ keys : tier[k].put <= tier[j].put}

\* MemoryCache.set with the time to live of the first tier.
PutInMemory(k, version, born, ttl) ==
  \E keys \in Evicted(memory) :
    memory' = Putting(Dropping(memory, keys), k,
                      [version |-> version, born |-> born, put |-> cacheTime,
                       until |-> cacheTime + ttl])

\* A deletion of k has left memory and has not reached Redis yet.
Erasing(k) ==
  \E c \in CacheCalls : \/ cacheCall[c].step = "erase" /\ cacheCall[c].key = k
                        \/ cacheCall[c].step = "flush"

Overlap(k, version) ==
  overlapped' = overlapped \cup (IF Erasing(k) THEN {version} ELSE {})

-----------------------------------------------------------------------------
(* Calls up to their first command to Redis; use is whether there is a second tier *)

Await(c, step, op, k, entry) ==
  cacheCall' = [cacheCall EXCEPT ![c] =
                  [step |-> step, op |-> op, key |-> k, entry |-> entry,
                   since |-> cacheTime]]

Finish(c) == cacheCall' = [cacheCall EXCEPT ![c] = NoCall]

\* get: an expired entry is dropped, and is a miss.
EnterGet(c, k, use) ==
  /\ memory' = IF Live(memory, k) THEN memory ELSE Dropping(memory, {k})
  /\ IF use /\ ~Live(memory, k) THEN Await(c, "read", "get", k, NoEntry) ELSE Finish(c)
  /\ UNCHANGED <<versions, overlapped>>

EnterSet(c, k, use) ==
  \E ttl \in Ttls :
    LET version == versions + 1
    IN  /\ version <= LastVersion
        /\ PutInMemory(k, version, cacheTime, Min({ttl, MemoryTtl}))
        /\ versions' = version
        /\ Overlap(k, version)
        /\ IF use
           THEN Await(c, "write", "set", k,
                      [version |-> version, born |-> cacheTime, put |-> 0, until |-> ttl])
           ELSE Finish(c)

\* Mutant: delete leaves the first tier to its time to live.
EnterDeleteRedis(c, k, use) ==
  /\ IF use THEN memory' = memory /\ Await(c, "erase", "delete", k, NoEntry)
            ELSE memory' = Dropping(memory, {k}) /\ Finish(c)
  /\ UNCHANGED <<versions, overlapped>>

EnterDelete(c, k, use) ==
  /\ memory' = Dropping(memory, {k})
  /\ IF use THEN Await(c, "erase", "delete", k, NoEntry) ELSE Finish(c)
  /\ UNCHANGED <<versions, overlapped>>

EnterClear(c, k, use) ==
  /\ memory' = NoEntries
  /\ IF use THEN Await(c, "flush", "clear", k, NoEntry) ELSE Finish(c)
  /\ UNCHANGED <<versions, overlapped>>

Enter(c, op, k, use) ==
  \/ op = "get" /\ EnterGet(c, k, use)
  \/ op = "set" /\ EnterSet(c, k, use)
  \/ op = "delete" /\ EnterDelete(c, k, use)
  \/ op = "clear" /\ EnterClear(c, k, use)

-----------------------------------------------------------------------------
Call(c, op, k) ==
  /\ cacheCall[c].step = "none" /\ initialized
  /\ Enter(c, op, k, tier2)
  /\ UNCHANGED <<redis, tier2, initialized, cacheTime, deleted>>

\* initialize makes both tiers anew and pings Redis.  It is entered again by
\* whoever calls before the first one has set _initialized.
Initialize(c, op, k) ==
  /\ cacheCall[c].step = "none" /\ ~initialized
  /\ memory' = NoEntries /\ tier2' = TRUE
  /\ Await(c, "ping", op, k, NoEntry)
  /\ UNCHANGED <<redis, initialized, cacheTime, versions, deleted, overlapped>>

\* The rest of initialize, and the call that led to it.
Ping(c) ==
  /\ cacheCall[c].step = "ping"
  /\ \E answered \in BOOLEAN :
       /\ tier2' = (tier2 /\ answered)
       /\ initialized' = TRUE
       /\ Enter(c, cacheCall[c].op, cacheCall[c].key, tier2')
  /\ UNCHANGED <<redis, cacheTime, deleted>>

\* Mutant: what Redis does not hold is copied to the first tier like a value.
ReadOfNothing(c) ==
  LET k == cacheCall[c].key
  IN  /\ cacheCall[c].step = "read"
      /\ Await(c, "fill", "get", k, IF Live(redis, k) THEN redis[k] ELSE NoEntry)
      /\ UNCHANGED <<memory, redis, tier2, initialized, cacheTime, versions, deleted,
                     overlapped>>

Read(c) ==
  LET k == cacheCall[c].key
  IN  /\ cacheCall[c].step = "read"
      /\ IF Live(redis, k) THEN Await(c, "fill", "get", k, redis[k]) ELSE Finish(c)
      /\ UNCHANGED <<memory, redis, tier2, initialized, cacheTime, versions, deleted,
                     overlapped>>

\* Mutant: the copy lives in memory as long as it would in Redis, l2_ttl.
FillForLong(c) ==
  LET call == cacheCall[c]
  IN  /\ call.step = "fill"
      /\ PutInMemory(call.key, call.entry.version, call.entry.born, Max(Ttls))
      /\ Overlap(call.key, call.entry.version)
      /\ Finish(c)
      /\ UNCHANGED <<redis, tier2, initialized, cacheTime, versions, deleted>>

\* get copies what it read to the first tier.
Fill(c) ==
  LET call == cacheCall[c]
  IN  /\ call.step = "fill"
      /\ PutInMemory(call.key, call.entry.version, call.entry.born, MemoryTtl)
      /\ Overlap(call.key, call.entry.version)
      /\ Finish(c)
      /\ UNCHANGED <<redis, tier2, initialized, cacheTime, versions, deleted>>

Write(c) ==
  LET call == cacheCall[c]
  IN  /\ call.step = "write"
      /\ redis' = Putting(redis, call.key, [call.entry EXCEPT !.put = cacheTime,
                                                              !.until = cacheTime + @])
      /\ Finish(c)
      /\ UNCHANGED <<memory, tier2, initialized, cacheTime, versions, deleted, overlapped>>

\* What other calls hold of k at this moment.
Carried(c, keys) ==
  {cacheCall[d].entry.version :
     d \in {d \in CacheCalls : d # c /\ cacheCall[d].key \in keys
                                     /\ cacheCall[d].step \in {"fill", "write"}}}

\* Redis executes DEL or FLUSHDB.
RemoveKeys(c, keys) ==
  /\ redis' = Dropping(redis, keys)
  /\ deleted' = [k \in CacheKeys |-> IF k \in keys THEN versions ELSE deleted[k]]
  /\ overlapped' = overlapped \cup Carried(c, keys)
  /\ Finish(c)
  /\ UNCHANGED <<memory, tier2, initialized, cacheTime, versions>>

Erase(c) == cacheCall[c].step = "erase" /\ RemoveKeys(c, {cacheCall[c].key})

Flush(c) == cacheCall[c].step = "flush" /\ RemoveKeys(c, CacheKeys)

\* A command fails without effect, or its reply is lost after it had one.
CommandFails(c) ==
  /\ cacheCall[c].step \in {"read", "write", "erase", "flush", "fill"}
  /\ Finish(c)
  /\ UNCHANGED <<memory, redis, tier2, initialized, cacheTime, versions, deleted, overlapped>>

\* The loop that runs every cleanup_interval.
CleanUpMemory ==
  /\ memory' = Dropping(memory, {k \in DOMAIN memory : memory[k].until <= cacheTime})
  /\ UNCHANGED <<redis, tier2, initialized, cacheCall, cacheTime, versions, deleted,
                 overlapped>>

\* Time passes, but no command outlives its timeout.
CacheTick ==
  /\ cacheTime < LastTime
  /\ \A c \in CacheCalls :
       cacheCall[c].step # "none" => cacheTime < cacheCall[c].since + CommandTime
  /\ cacheTime' = cacheTime + 1
  /\ redis' = Dropping(redis, {k \in DOMAIN redis : redis[k].until <= cacheTime + 1})
  /\ UNCHANGED <<memory, tier2, initialized, cacheCall, versions, deleted, overlapped>>

CacheNext ==
  \/ \E c \in CacheCalls :
       \/ \E op \in Ops, k \in CacheKeys : Call(c, op, k) \/ Initialize(c, op, k)
       \/ Ping(c) \/ Read(c) \/ Fill(c) \/ Write(c) \/ Erase(c) \/ Flush(c)
       \/ CommandFails(c)
  \/ CleanUpMemory
  \/ CacheTick

CacheSpec == CacheInit /\ [][CacheNext]_cacheVars

-----------------------------------------------------------------------------
(* Properties *)

\* Concurrent fills and sets never push the memory tier beyond l1_max_size.
MemoryWithinSize == Cardinality(DOMAIN memory) <= MemorySize

\* A copy in memory gets a time to live of its own.  However often a value is
\* copied there again, it is served for less than both times to live and the time
\* of the two commands that moved it: get copies what Redis still holds, for l1_ttl.
LifetimesAdd ==
  LET longest == Max(Ttls) + CommandTime
  IN  /\ \A k \in DOMAIN redis : redis[k].until <= redis[k].born + longest
      /\ \A k \in DOMAIN memory :
           memory[k].until < memory[k].born + longest + CommandTime + MemoryTtl

\* After a delete or a clear was executed by Redis, an older version is in a
\* tier only if a get or a set that overlapped the deletion carried it there.
BackOnlyByOverlap ==
  /\ \A k \in DOMAIN memory :
       memory[k].version <= deleted[k] => memory[k].version \in overlapped
  /\ \A k \in DOMAIN redis :
       redis[k].version <= deleted[k] => redis[k].version \in overlapped
=============================================================================
