----------------------------- MODULE TenantUsers -----------------------------
(***************************************************************************)
(* TenantAuth over PostgreSQL, for one tenant: its users, their sessions   *)
(* and API keys, and in each process the cache of verified keys.           *)
(*                                                                         *)
(* A call runs from await to await.  A transaction that reads before it    *)
(* writes is a read and a commit (READ COMMITTED); the row lock of the     *)
(* quota is held from one to the other.  A call may fail between any two   *)
(* steps, which rolls back the transaction it is in.  Time is the sets of  *)
(* what has expired; a verified key may lapse at any moment.               *)
(*                                                                         *)
(* Credentials are presented with their right secret: what a wrong one     *)
(* does is left to hashing.  Roles and permissions are left out.           *)
(***************************************************************************)
EXTENDS Naturals, FiniteSets

CONSTANTS
  FormUsers,     \* users that create_user can be asked for
  KeyUsers,      \* users that _pg_create_api_key adds: api_<name of the key>
  ApiKeys, Sessions,
  AuthCalls, Processes,
  NoCaller, Nothing,
  UserLimits,    \* values of max_users
  VerifiedMax    \* VERIFIED_KEY_CACHE_MAX_ENTRIES

TenantUserNames == FormUsers \cup KeyUsers

ASSUME TenantUsersAssumption ==
  /\ FormUsers \cap KeyUsers = {} /\ NoCaller \notin AuthCalls
  /\ Nothing \notin TenantUserNames \cup ApiKeys \cup Sessions \cup Processes
  /\ UserLimits \subseteq Nat /\ UserLimits # {} /\ VerifiedMax \in Nat \ {0}

VARIABLES
  users,         \* rows of tenant_users: absent, active, inactive
  maxUsers, quotaLock,
  keys,          \* rows of tenant_api_keys: absent, active, revoked
  sessionUser, sessionState,  \* rows of tenant_sessions
  expired,       \* keys and sessions past their expires_at
  verified,      \* _verified_key_cache of each process
  authCall,
  (* history, read by no action *)
  peakUsers      \* the highest max_users there was

userVars == <<users, maxUsers, quotaLock, keys, sessionUser, sessionState, expired,
              verified, authCall, peakUsers>>
userRows == <<users, maxUsers, peakUsers>>
sessionRows == <<sessionUser, sessionState>>

AuthSteps == {"none", "lock", "insert", "hash", "store", "remember", "revoke", "forget",
              "verify", "touch", "password", "complete", "login", "owner", "served"}
\* active is is_active as the call read it, and ended whether the credential was
\* revoked, logged out or its user deactivated when the call began (history).
AuthRecord == [step : AuthSteps, proc : Processes \cup {Nothing},
               user : TenantUserNames \cup {Nothing}, key : ApiKeys \cup {Nothing},
               session : Sessions \cup {Nothing}, active : BOOLEAN, ended : BOOLEAN]
NoAuthCall == [step |-> "none", proc |-> Nothing, user |-> Nothing, key |-> Nothing,
               session |-> Nothing, active |-> FALSE, ended |-> FALSE]

UsersTypeOK ==
  /\ users \in [TenantUserNames -> {"absent", "active", "inactive"}]
  /\ maxUsers \in UserLimits /\ peakUsers \in UserLimits
  /\ quotaLock \in AuthCalls \cup {NoCaller}
  /\ keys \in [ApiKeys -> {"absent", "active", "revoked"}]
  /\ sessionUser \in [Sessions -> TenantUserNames \cup {Nothing}]
  /\ sessionState \in [Sessions -> {"absent", "live", "revoked", "deleted"}]
  /\ expired \subseteq ApiKeys \cup Sessions
  /\ verified \in [Processes -> SUBSET ApiKeys]
  /\ authCall \in [AuthCalls -> AuthRecord]

UsersInit ==
  /\ users = [u \in TenantUserNames |-> "absent"]
  /\ maxUsers \in UserLimits /\ peakUsers = maxUsers /\ quotaLock = NoCaller
  /\ keys = [k \in ApiKeys |-> "absent"]
  /\ sessionUser = [s \in Sessions |-> Nothing]
  /\ sessionState = [s \in Sessions |-> "absent"]
  /\ expired = {}
  /\ verified = [p \in Processes |-> {}]
  /\ authCall = [c \in AuthCalls |-> NoAuthCall]

-----------------------------------------------------------------------------
Step(c, from) == authCall[c].step = from
To(c, step) == authCall' = [authCall EXCEPT ![c].step = step]
EndAuth(c) == authCall' = [authCall EXCEPT ![c] = NoAuthCall]
StartCall(c, call) == Step(c, "none") /\ authCall' = [authCall EXCEPT ![c] = call]

Rows == {u \in TenantUserNames : users[u] # "absent"}
FormRows == Rows \cap FormUsers

(* create_user, its password hashed in a thread *)

StartCreateUser(c, u) ==
  /\ StartCall(c, [NoAuthCall EXCEPT !.step = "lock", !.user = u])
  /\ UNCHANGED <<userRows, quotaLock, keys, sessionRows, expired, verified>>

\* Mutant: QuotaRepository.get instead of get_for_update.
ReadQuotaUnlocked(c) ==
  LET u == authCall[c].user
  IN  /\ Step(c, "lock")
      /\ IF Cardinality(Rows) >= maxUsers \/ users[u] # "absent"
         THEN EndAuth(c) ELSE To(c, "insert")
      /\ UNCHANGED <<userRows, quotaLock, keys, sessionRows, expired, verified>>

\* _pg_create_user up to its insert; a refusal ends the transaction.
LockUserQuota(c) ==
  LET u == authCall[c].user
      refused == Cardinality(Rows) >= maxUsers \/ users[u] # "absent"
  IN  /\ Step(c, "lock") /\ quotaLock = NoCaller
      /\ quotaLock' = IF refused THEN NoCaller ELSE c
      /\ IF refused THEN EndAuth(c) ELSE To(c, "insert")
      /\ UNCHANGED <<userRows, keys, sessionRows, expired, verified>>

InsertUser(c) ==
  /\ Step(c, "insert")
  /\ users' = [users EXCEPT ![authCall[c].user] = IF @ = "absent" THEN "active" ELSE @]
  /\ quotaLock' = IF quotaLock = c THEN NoCaller ELSE quotaLock
  /\ EndAuth(c)
  /\ UNCHANGED <<maxUsers, peakUsers, keys, sessionRows, expired, verified>>

\* The tenant's quota is updated, which waits for the same row.
SetMaxUsers ==
  /\ quotaLock = NoCaller
  /\ \E n \in UserLimits : maxUsers' = n /\ peakUsers' = IF n > peakUsers THEN n ELSE peakUsers
  /\ UNCHANGED <<users, quotaLock, keys, sessionRows, expired, verified, authCall>>

-----------------------------------------------------------------------------
(* API keys *)

\* create_api_key, for a given user or for none.
StartCreateKey(c, p, k, u) ==
  /\ keys[k] = "absent" /\ \A d \in AuthCalls : authCall[d].key # k
  /\ StartCall(c, [NoAuthCall EXCEPT !.step = "hash", !.proc = p, !.key = k, !.user = u])
  /\ UNCHANGED <<userRows, quotaLock, keys, sessionRows, expired, verified>>

ActiveUsers == {u \in TenantUserNames : users[u] = "active"}

\* _pg_create_api_key reads its owner: the given user, the first active one, or,
\* if there is none, a user it is going to add without a look at the quota.
ChooseOwner(c) ==
  LET given == authCall[c].user
      owners == IF given # Nothing THEN {given} \cap ActiveUsers
                ELSE IF ActiveUsers # {} THEN ActiveUsers ELSE KeyUsers
  IN  /\ Step(c, "hash")
      /\ IF owners = {} THEN EndAuth(c)
         ELSE \E u \in owners :
                authCall' = [authCall EXCEPT ![c].step = "store", ![c].user = u,
                                             ![c].active = users[u] = "active"]
      /\ UNCHANGED <<userRows, quotaLock, keys, sessionRows, expired, verified>>

\* Its commit: a user that has appeared in the meantime violates a constraint.
StoreKey(c) ==
  LET call == authCall[c]
      fails == ~call.active /\ users[call.user] # "absent"
  IN  /\ Step(c, "store")
      /\ users' = IF call.active \/ fails THEN users
                  ELSE [users EXCEPT ![call.user] = "active"]
      /\ keys' = IF fails THEN keys ELSE [keys EXCEPT ![call.key] = "active"]
      /\ IF fails THEN EndAuth(c) ELSE To(c, "remember")
      /\ UNCHANGED <<maxUsers, peakUsers, quotaLock, sessionRows, expired, verified>>

\* The new key enters the cache of verified keys, whatever its size.
RememberKey(c) ==
  LET call == authCall[c]
  IN  /\ Step(c, "remember")
      /\ verified' = [verified EXCEPT ![call.proc] = @ \cup {call.key}]
      /\ EndAuth(c)
      /\ UNCHANGED <<userRows, quotaLock, keys, sessionRows, expired>>

\* _pg_revoke_api_key: its transaction, and then the cache of its process.
RevokeKey(c, p, k) ==
  /\ keys[k] # "absent"
  /\ StartCall(c, [NoAuthCall EXCEPT !.step = "forget", !.proc = p, !.key = k])
  /\ keys' = [keys EXCEPT ![k] = "revoked"]
  /\ UNCHANGED <<userRows, quotaLock, sessionRows, expired, verified>>

ForgetKey(c) ==
  LET call == authCall[c]
  IN  /\ Step(c, "forget")
      /\ verified' = [verified EXCEPT ![call.proc] = @ \ {call.key}]
      /\ EndAuth(c)
      /\ UNCHANGED <<userRows, quotaLock, keys, sessionRows, expired>>

\* The rest of _resolve_api_key up to its next await, once the secret is
\* verified: is_active was read before, the time is read now.
Judge(c, call, cache) ==
  /\ verified' = [verified EXCEPT ![call.proc] = IF call.active THEN cache
                                                 ELSE cache \ {call.key}]
  /\ authCall' = [authCall EXCEPT ![c] =
                    IF call.active /\ call.key \notin expired
                    THEN [call EXCEPT !.step = "touch"] ELSE NoAuthCall]

\* Mutant: a key verified lately is not read again.
LoadKeyCached(c, p, k) ==
  LET call == [NoAuthCall EXCEPT !.step = "verify", !.proc = p, !.key = k,
                                 !.active = keys[k] = "active", !.ended = keys[k] = "revoked"]
  IN  /\ Step(c, "none") /\ keys[k] # "absent"
      /\ \/ k \in verified[p] /\ Judge(c, [call EXCEPT !.active = TRUE], verified[p])
         \/ StartCall(c, call) /\ UNCHANGED verified
      /\ UNCHANGED <<userRows, quotaLock, keys, sessionRows, expired>>

\* authenticate_api_key reads the key's record.  A key verified lately, in this
\* process, is not hashed again.
LoadKey(c, p, k) ==
  LET call == [NoAuthCall EXCEPT !.step = "verify", !.proc = p, !.key = k,
                                 !.active = keys[k] = "active", !.ended = keys[k] = "revoked"]
  IN  /\ Step(c, "none") /\ keys[k] # "absent"
      /\ \/ k \in verified[p] /\ Judge(c, call, verified[p])
         \/ StartCall(c, call) /\ UNCHANGED verified
      /\ UNCHANGED <<userRows, quotaLock, keys, sessionRows, expired>>

\* Mutant: the cache of verified keys is not emptied when it is full.
RoomForAll(cache) == cache

Room(cache) == IF Cardinality(cache) >= VerifiedMax THEN {} ELSE cache

\* The thread has verified the secret.
VerifySecret(c) ==
  LET call == authCall[c]
  IN  /\ Step(c, "verify")
      /\ Judge(c, call, Room(verified[call.proc]) \cup {call.key})
      /\ UNCHANGED <<userRows, quotaLock, keys, sessionRows, expired>>

\* _pg_key_user_and_touch.  An inactive owner is replaced by a user made up from
\* the key, so the call succeeds either way.
KeyUserAndTouch(c) ==
  /\ Step(c, "touch") /\ To(c, "served")
  /\ UNCHANGED <<userRows, quotaLock, keys, sessionRows, expired, verified>>

\* cleanup_expired_api_keys
CleanupKeys ==
  /\ keys' = [k \in ApiKeys |-> IF k \in expired THEN "revoked" ELSE keys[k]]
  /\ UNCHANGED <<userRows, quotaLock, sessionRows, expired, verified, authCall>>

-----------------------------------------------------------------------------
(* Sessions *)

\* authenticate_user finds the user and verifies the password in a thread.
FindUser(c, u) ==
  /\ users[u] = "active"
  /\ StartCall(c, [NoAuthCall EXCEPT !.step = "password", !.user = u])
  /\ UNCHANGED <<userRows, quotaLock, keys, sessionRows, expired, verified>>

\* _pg_complete_login reads the user again, without a lock ...
CompleteLogin(c) ==
  /\ Step(c, "password")
  /\ IF users[authCall[c].user] = "active" THEN To(c, "login") ELSE EndAuth(c)
  /\ UNCHANGED <<userRows, quotaLock, keys, sessionRows, expired, verified>>

\* ... and commits a session.
StoreSession(c, s) ==
  /\ Step(c, "login") /\ sessionState[s] = "absent"
  /\ sessionUser' = [sessionUser EXCEPT ![s] = authCall[c].user]
  /\ sessionState' = [sessionState EXCEPT ![s] = "live"]
  /\ EndAuth(c)
  /\ UNCHANGED <<userRows, quotaLock, keys, expired, verified>>

\* _pg_validate_session reads the session ...
ValidateSession(c, s) ==
  /\ sessionState[s] = "live" /\ s \notin expired
  /\ StartCall(c, [NoAuthCall EXCEPT !.step = "owner", !.session = s,
                                  !.ended = users[sessionUser[s]] # "active"])
  /\ UNCHANGED <<userRows, quotaLock, keys, sessionRows, expired, verified>>

\* Mutant: deactivation is trusted to have revoked the session.
TouchSessionUnchecked(c) ==
  /\ Step(c, "owner") /\ To(c, "served")
  /\ UNCHANGED <<userRows, quotaLock, keys, sessionRows, expired, verified>>

\* ... and its user.
TouchSession(c) ==
  /\ Step(c, "owner")
  /\ IF users[sessionUser[authCall[c].session]] = "active" THEN To(c, "served")
     ELSE EndAuth(c)
  /\ UNCHANGED <<userRows, quotaLock, keys, sessionRows, expired, verified>>

LogoutUser(s) ==
  /\ sessionState[s] = "live"
  /\ sessionState' = [sessionState EXCEPT ![s] = "revoked"]
  /\ UNCHANGED <<userRows, quotaLock, keys, sessionUser, expired, verified, authCall>>

\* _pg_deactivate_user revokes the sessions that are committed.
DeactivateUser(u) ==
  /\ users[u] # "absent"
  /\ users' = [users EXCEPT ![u] = "inactive"]
  /\ sessionState' = [s \in Sessions |->
       IF sessionUser[s] = u /\ sessionState[s] = "live" THEN "revoked" ELSE sessionState[s]]
  /\ UNCHANGED <<maxUsers, peakUsers, quotaLock, keys, sessionUser, expired,
                 verified, authCall>>

\* cleanup_expired_sessions
CleanupSessions ==
  /\ sessionState' = [s \in Sessions |->
       IF s \in expired /\ sessionState[s] # "absent" THEN "deleted" ELSE sessionState[s]]
  /\ UNCHANGED <<userRows, quotaLock, keys, sessionUser, expired, verified, authCall>>

-----------------------------------------------------------------------------
Expire(x) ==
  /\ x \notin expired /\ \/ x \in ApiKeys /\ keys[x] # "absent"
                         \/ x \in Sessions /\ sessionState[x] # "absent"
  /\ expired' = expired \cup {x}
  /\ UNCHANGED <<userRows, quotaLock, keys, sessionRows, verified, authCall>>

\* The caller is answered, or an exception ends the call.
EndCall(c) ==
  /\ ~Step(c, "none")
  /\ quotaLock' = IF quotaLock = c THEN NoCaller ELSE quotaLock
  /\ EndAuth(c)
  /\ UNCHANGED <<userRows, keys, sessionRows, expired, verified>>

UsersNext ==
  \/ \E c \in AuthCalls :
       \/ \E u \in FormUsers : StartCreateUser(c, u)
       \/ LockUserQuota(c) \/ InsertUser(c)
       \/ \E p \in Processes, k \in ApiKeys, u \in TenantUserNames \cup {Nothing} :
            StartCreateKey(c, p, k, u)
       \/ ChooseOwner(c) \/ StoreKey(c) \/ RememberKey(c)
       \/ \E p \in Processes, k \in ApiKeys : RevokeKey(c, p, k) \/ LoadKey(c, p, k)
       \/ ForgetKey(c) \/ VerifySecret(c) \/ KeyUserAndTouch(c)
       \/ \E u \in TenantUserNames : FindUser(c, u)
       \/ CompleteLogin(c)
       \/ \E s \in Sessions : StoreSession(c, s) \/ ValidateSession(c, s)
       \/ TouchSession(c) \/ EndCall(c)
  \/ SetMaxUsers \/ CleanupKeys \/ CleanupSessions
  \/ \E s \in Sessions : LogoutUser(s)
  \/ \E u \in TenantUserNames : DeactivateUser(u)
  \/ \E x \in ApiKeys \cup Sessions : Expire(x)

UsersSpec == UsersInit /\ [][UsersNext]_userVars

-----------------------------------------------------------------------------
(* Properties *)

\* However create_user, changes of the quota and creations of keys interleave,
\* the users that create_user added never exceed the highest max_users.
UsersWithinLimit == Cardinality(FormRows) <= peakUsers

\* Creations of users are admitted one at a time, each under the max_users of that
\* moment, as the slots of the ledger are: the count, the quota and the insert of
\* _pg_create_user (tenant_auth.py:211) are one step to everybody else.
QuotaOf(b) == b
UserQuota == INSTANCE AtomicQuota
  WITH Buckets <- {"users"}, Kinds <- {"users"}, KindOf <- QuotaOf,
       used <- [b \in {"users"} |-> Cardinality(FormRows)],
       quota <- [k \in {"users"} |-> maxUsers]
CreationIsAtomic == UserQuota!ASpec

\* The docstring of authenticate_api_key: a key revoked, by whatever process,
\* stops working at once, the cache of verified keys notwithstanding.
RevokedKeysRefused ==
  \A c \in AuthCalls : Step(c, "served") /\ authCall[c].key # Nothing => ~authCall[c].ended

\* The session of a user who was deactivated before is refused, also one that a
\* login committed after the deactivation had revoked the others.
DeactivatedUsersRefused ==
  \A c \in AuthCalls : Step(c, "served") /\ authCall[c].session # Nothing => ~authCall[c].ended

\* However verifications interleave, the cache of verified keys grows beyond its
\* limit only by a key that was just created.
VerifiedKeysBounded ==
  [][\A p \in Processes :
       \/ Cardinality(verified'[p]) <= VerifiedMax \/ verified'[p] \subseteq verified[p]
       \/ \E c \in AuthCalls : Step(c, "remember") /\ authCall[c].proc = p
                               /\ verified'[p] = verified[p] \cup {authCall[c].key}]_userVars
=============================================================================
