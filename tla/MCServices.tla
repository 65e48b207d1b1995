----------------------------- MODULE MCServices -----------------------------
(***************************************************************************)
(* Components that share no state, side by side: a behaviour is one of a   *)
(* single part, the others stay as they began.  Keys, sessions and the     *)
(* quota of the users are three parts, which bound each other's instances; *)
(* the collection has one point or one process.                            *)
(***************************************************************************)
EXTENDS CacheTiers, TenantUsers, PluginLifecycle, QdrantStore, TLC

CONSTANTS g1, g2

\* One plugin that needs another.
MCDependencies == (g1 :> {}) @@ (g2 :> {g1})

VARIABLE part

servicesVars == <<cacheVars, userVars, pluginVars, qdrantVars, part>>

ServicesInit ==
  /\ CacheInit /\ UsersInit /\ PluginsInit /\ QdrantInit
  /\ part \in {"cache", "keys", "sessions", "quota", "plugins", "collection"}
  /\ part # "quota" => maxUsers = 1

CachePart == part = "cache" /\ CacheNext /\ UNCHANGED <<userVars, pluginVars, qdrantVars, part>>

KeysPart ==
  /\ part = "keys" /\ UsersNext /\ sessionUser' = sessionUser /\ maxUsers' = maxUsers
  /\ UNCHANGED <<cacheVars, pluginVars, qdrantVars, part>>

\* Of keys and processes, one each.
KeysUsed == {k \in ApiKeys : keys[k] # "absent" \/ \E c \in AuthCalls : authCall[c].key = k}
ProcessesUsed ==
  {p \in Processes : verified[p] # {} \/ \E c \in AuthCalls : authCall[c].proc = p}

SessionsPart ==
  /\ part = "sessions" /\ UsersNext /\ maxUsers' = maxUsers
  /\ Cardinality(KeysUsed') <= 1 /\ Cardinality(ProcessesUsed') <= 1
  /\ UNCHANGED <<cacheVars, pluginVars, qdrantVars, part>>

\* Of keys and processes one, no session, and nothing expires or is verified.
QuotaPart ==
  /\ part = "quota" /\ UsersNext /\ UNCHANGED <<sessionUser, expired, verified>>
  /\ Cardinality(KeysUsed') <= 1 /\ Cardinality(ProcessesUsed') <= 1
  /\ UNCHANGED <<cacheVars, pluginVars, qdrantVars, part>>

PluginsPart ==
  part = "plugins" /\ PluginsNext /\ UNCHANGED <<cacheVars, userVars, qdrantVars, part>>

PointsUsed ==
  Held \cup owed \cup overtaken
    \cup UNION {storeCall[c].left \cup storeCall[c].put \cup storeCall[c].counted : c \in StoreCalls}
StoresUsed ==
  {s \in Stores : vectorSize[s] # Gone \/ \E c \in StoreCalls : storeCall[c].store = s}

CollectionPart ==
  /\ part = "collection" /\ QdrantNext
  /\ Cardinality(PointsUsed') <= 1 \/ Cardinality(StoresUsed') <= 1
  /\ UNCHANGED <<cacheVars, userVars, pluginVars, part>>

ServicesNext ==
  CachePart \/ KeysPart \/ SessionsPart \/ QuotaPart \/ PluginsPart \/ CollectionPart

ServicesSpec == ServicesInit /\ [][ServicesNext]_servicesVars

ServicesTypeOK ==
  /\ part = "cache" => CacheTypeOK
  /\ part \in {"keys", "sessions", "quota"} => UsersTypeOK
  /\ part = "plugins" => PluginsTypeOK
  /\ part = "collection" => QdrantTypeOK

\* The calls of both parts, and their keys, have the same names.
Symmetry ==
  Permutations(CacheKeys \cup ApiKeys) \cup Permutations(CacheCalls \cup AuthCalls)
    \cup Permutations(FormUsers) \cup Permutations(Processes)
=============================================================================
