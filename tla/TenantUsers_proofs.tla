-------------------------- MODULE TenantUsers_proofs --------------------------
(***************************************************************************)
(* Theorems about TenantUsers, for every set of users, keys, sessions,     *)
(* calls and processes, every limit and every size of the cache.           *)
(***************************************************************************)
EXTENDS TenantUsers, FiniteSetTheorems, TLAPS

USE DEF userRows, sessionRows, Step

-----------------------------------------------------------------------------
(* What a step does to the calls *)

\* The steps of one call leave the others as they are.
OtherCallsStay(c) == \A d \in AuthCalls \ {c} : authCall'[d] = authCall[d]

\* Two records that differ at most in the step.
SameData(r, q) ==
  /\ r.proc = q.proc /\ r.user = q.user /\ r.key = q.key
  /\ r.session = q.session /\ r.active = q.active /\ r.ended = q.ended

LEMMA NoCallRecord == NoAuthCall \in AuthRecord
  BY DEF NoAuthCall, AuthRecord, AuthSteps

LEMMA ToStep ==
  ASSUME UsersTypeOK, NEW c \in AuthCalls, NEW step \in AuthSteps, To(c, step)
  PROVE  /\ authCall' \in [AuthCalls -> AuthRecord]
         /\ OtherCallsStay(c)
         /\ authCall'[c].step = step /\ SameData(authCall'[c], authCall[c])
<1>1. authCall[c] \in AuthRecord /\ authCall \in [AuthCalls -> AuthRecord]
  BY DEF UsersTypeOK
<1>2. PICK r : r = [authCall[c] EXCEPT !.step = step]
  OBVIOUS
<1>3. r \in AuthRecord /\ r.step = step /\ SameData(r, authCall[c])
  BY <1>1, <1>2 DEF AuthRecord, SameData
<1>4. authCall' = [authCall EXCEPT ![c] = r]
  BY <1>2 DEF To
<1> QED
  BY <1>1, <1>3, <1>4 DEF OtherCallsStay

LEMMA EndStep ==
  ASSUME UsersTypeOK, NEW c \in AuthCalls, EndAuth(c)
  PROVE  /\ authCall' \in [AuthCalls -> AuthRecord]
         /\ OtherCallsStay(c) /\ authCall'[c] = NoAuthCall
  BY NoCallRecord DEF UsersTypeOK, EndAuth, OtherCallsStay

LEMMA StartStep ==
  ASSUME UsersTypeOK, NEW c \in AuthCalls, NEW call \in AuthRecord, StartCall(c, call)
  PROVE  /\ authCall' \in [AuthCalls -> AuthRecord]
         /\ OtherCallsStay(c) /\ authCall'[c] = call
  BY DEF UsersTypeOK, StartCall, OtherCallsStay

-----------------------------------------------------------------------------
(* The invariant *)

\* What a call knows when it is between two steps.  Users and sessions do not
\* disappear, and a user once deactivated is never active again, so this stays.
CallOK(r) ==
  /\ r.step \in {"lock", "insert"} => r.user \in FormUsers
  /\ r.step \in {"hash", "store", "remember", "forget", "verify"} =>
       r.proc \in Processes /\ r.key \in ApiKeys
  /\ r.step = "store" => r.user \in TenantUserNames /\ (r.active \/ r.user \in KeyUsers)
  /\ r.step = "verify" /\ r.ended => ~r.active
  /\ r.step \in {"touch", "served"} => ~r.ended
  /\ r.step \in {"password", "login"} =>
       r.user \in TenantUserNames /\ users[r.user] # "absent"
  /\ r.step = "owner" =>
       /\ r.session \in Sessions /\ sessionState[r.session] # "absent"
       /\ r.ended => users[sessionUser[r.session]] = "inactive"

\* A session that was committed belongs to a user whose row is there.
SessionOK(s) ==
  sessionState[s] # "absent" =>
    sessionUser[s] \in TenantUserNames /\ users[sessionUser[s]] # "absent"

CallInv ==
  /\ UsersTypeOK
  /\ \A c \in AuthCalls : CallOK(authCall[c])
  /\ \A s \in Sessions : SessionOK(s)

\* What no step undoes.
RowsKept ==
  /\ \A u \in TenantUserNames : /\ users[u] # "absent" => users'[u] # "absent"
                                /\ users[u] = "inactive" => users'[u] = "inactive"
  /\ \A s \in Sessions :
       sessionState[s] # "absent" =>
         sessionState'[s] # "absent" /\ sessionUser'[s] = sessionUser[s]

\* A call that does not step knows what it knew.
LEMMA CallStays ==
  ASSUME NEW r, CallOK(r), RowsKept, \A s \in Sessions : SessionOK(s)
  PROVE  CallOK(r)'
  BY DEF CallOK, RowsKept, SessionOK

\* A step of one call, which need only be examined itself.
LEMMA AuthCallMoves ==
  ASSUME CallInv, UsersTypeOK', NEW c \in AuthCalls, OtherCallsStay(c), RowsKept,
         CallOK(authCall[c])', \A s \in Sessions : SessionOK(s)'
  PROVE  CallInv'
<1>1. ASSUME NEW d \in AuthCalls PROVE CallOK(authCall[d])'
  <2>1. CASE d = c
    BY <2>1
  <2>2. CASE d # c
    <3>1. authCall'[d] = authCall[d]
      BY <2>2 DEF OtherCallsStay
    <3>2. PICK r : r = authCall[d]
      OBVIOUS
    <3>3. CallOK(r)'
      BY <3>2, CallStays DEF CallInv
    <3> QED BY <3>1, <3>2, <3>3 DEF CallOK
  <2> QED BY <2>1, <2>2
<1> QED
  BY <1>1 DEF CallInv

\* The calls, sessions and users a step of nobody's leaves as they are.
LEMMA NobodyMoves ==
  ASSUME CallInv, UsersTypeOK', UNCHANGED authCall, RowsKept, \A s \in Sessions : SessionOK(s)'
  PROVE  CallInv'
<1>1. ASSUME NEW d \in AuthCalls PROVE CallOK(authCall[d])'
  <2>1. PICK r : r = authCall[d]
    OBVIOUS
  <2>2. CallOK(r)'
    BY <2>1, CallStays DEF CallInv
  <2> QED BY <2>1, <2>2 DEF CallOK
<1> QED
  BY <1>1 DEF CallInv

LEMMA CallInit == UsersInit => CallInv
<1> SUFFICES ASSUME UsersInit PROVE CallInv
  OBVIOUS
<1>1. UsersTypeOK
  BY NoCallRecord DEF UsersInit, UsersTypeOK
<1>2. \A c \in AuthCalls : CallOK(authCall[c])
  BY DEF UsersInit, CallOK, NoAuthCall
<1> QED
  BY <1>1, <1>2 DEF CallInv, SessionOK, UsersInit

\* A step of one call that changes neither users nor sessions.
LEMMA CallAlone ==
  ASSUME CallInv, NEW c \in AuthCalls,
         authCall' \in [AuthCalls -> AuthRecord], OtherCallsStay(c), CallOK(authCall[c])',
         UNCHANGED <<userRows, sessionRows, expired>>,
         quotaLock' \in AuthCalls \cup {NoCaller},
         keys' \in [ApiKeys -> {"absent", "active", "revoked"}],
         verified' \in [Processes -> SUBSET ApiKeys]
  PROVE  CallInv'
<1>1. UsersTypeOK'
  BY DEF CallInv, UsersTypeOK
<1>2. RowsKept
  BY DEF RowsKept
<1>3. \A s \in Sessions : SessionOK(s)'
  BY DEF CallInv, SessionOK
<1> QED
  BY <1>1, <1>2, <1>3, AuthCallMoves

\* The end of a key's verification.
LEMMA JudgeStep ==
  ASSUME CallInv, NEW c \in AuthCalls, NEW call \in AuthRecord, NEW cache \in SUBSET ApiKeys,
         call.ended => ~call.active, Judge(c, call, cache)
  PROVE  /\ authCall' \in [AuthCalls -> AuthRecord] /\ OtherCallsStay(c)
         /\ CallOK(authCall[c])'
         /\ verified' \in [Processes -> SUBSET ApiKeys]
<1>1. authCall \in [AuthCalls -> AuthRecord] /\ verified \in [Processes -> SUBSET ApiKeys]
  BY DEF CallInv, UsersTypeOK
<1>2. verified' \in [Processes -> SUBSET ApiKeys]
  BY <1>1 DEF Judge
<1>3. PICK r : r = IF call.active /\ call.key \notin expired
                   THEN [call EXCEPT !.step = "touch"] ELSE NoAuthCall
  OBVIOUS
<1>4. [call EXCEPT !.step = "touch"] \in AuthRecord /\ [call EXCEPT !.step = "touch"].step = "touch"
      /\ [call EXCEPT !.step = "touch"].ended = call.ended
  BY DEF AuthRecord, AuthSteps
<1>5. r \in AuthRecord /\ (r = NoAuthCall \/ (r.step = "touch" /\ ~r.ended))
  BY <1>3, <1>4, NoCallRecord
<1>6. authCall' = [authCall EXCEPT ![c] = r]
  BY <1>3 DEF Judge
<1>7. authCall' \in [AuthCalls -> AuthRecord] /\ OtherCallsStay(c) /\ authCall'[c] = r
  BY <1>1, <1>5, <1>6 DEF OtherCallsStay
<1>8. CallOK(authCall[c])'
  BY <1>5, <1>7 DEF CallOK, NoAuthCall
<1> QED
  BY <1>2, <1>7, <1>8

LEMMA NoCallOK == CallOK(NoAuthCall) /\ CallOK(NoAuthCall)'
  BY DEF CallOK, NoAuthCall

\* The records that calls start with.
LEMMA FirstRecords ==
  /\ \A u \in FormUsers : [NoAuthCall EXCEPT !.step = "lock", !.user = u] \in AuthRecord
  /\ \A p \in Processes, k \in ApiKeys, u \in TenantUserNames \cup {Nothing} :
       [NoAuthCall EXCEPT !.step = "hash", !.proc = p, !.key = k, !.user = u] \in AuthRecord
  /\ \A p \in Processes, k \in ApiKeys :
       [NoAuthCall EXCEPT !.step = "forget", !.proc = p, !.key = k] \in AuthRecord
  /\ \A p \in Processes, k \in ApiKeys, a, e \in BOOLEAN :
       [NoAuthCall EXCEPT !.step = "verify", !.proc = p, !.key = k, !.active = a, !.ended = e]
         \in AuthRecord
  /\ \A u \in TenantUserNames :
       [NoAuthCall EXCEPT !.step = "password", !.user = u] \in AuthRecord
  /\ \A s \in Sessions, e \in BOOLEAN :
       [NoAuthCall EXCEPT !.step = "owner", !.session = s, !.ended = e] \in AuthRecord
  BY DEF NoAuthCall, AuthRecord, AuthSteps, TenantUserNames

LEMMA CallStep == CallInv /\ [UsersNext]_userVars => CallInv'
<1> SUFFICES ASSUME CallInv, [UsersNext]_userVars PROVE CallInv'
  OBVIOUS
<1>0. /\ UsersTypeOK
      /\ quotaLock \in AuthCalls \cup {NoCaller}
      /\ keys \in [ApiKeys -> {"absent", "active", "revoked"}]
      /\ verified \in [Processes -> SUBSET ApiKeys]
      /\ authCall \in [AuthCalls -> AuthRecord]
      /\ \A c \in AuthCalls : CallOK(authCall[c])
      /\ \A s \in Sessions : SessionOK(s)
  BY DEF CallInv, UsersTypeOK
<1>a. ASSUME NEW c \in AuthCalls, EndAuth(c)
      PROVE  /\ authCall' \in [AuthCalls -> AuthRecord]
             /\ OtherCallsStay(c) /\ CallOK(authCall[c])'
  BY <1>0, <1>a, EndStep, NoCallOK DEF CallOK
\* A session keeps its user when neither disappears.
<1>b. ASSUME UNCHANGED sessionRows, RowsKept PROVE \A s \in Sessions : SessionOK(s)'
  BY <1>0, <1>b DEF SessionOK, RowsKept
<1>1. ASSUME NEW c \in AuthCalls, NEW u \in FormUsers, StartCreateUser(c, u) PROVE CallInv'
  <2>1. PICK r : r = [NoAuthCall EXCEPT !.step = "lock", !.user = u]
    OBVIOUS
  <2>2. r \in AuthRecord /\ r.step = "lock" /\ r.user = u
    BY <2>1, FirstRecords DEF NoAuthCall
  <2>3. StartCall(c, r)
    BY <1>1, <2>1 DEF StartCreateUser
  <2>4. /\ authCall' \in [AuthCalls -> AuthRecord] /\ OtherCallsStay(c) /\ authCall'[c] = r
    BY <1>0, <2>2, <2>3, StartStep
  <2>5. CallOK(authCall[c])'
    BY <2>2, <2>4 DEF CallOK
  <2> QED BY <1>0, <1>1, <2>4, <2>5, CallAlone DEF StartCreateUser
<1>2. ASSUME NEW c \in AuthCalls, LockUserQuota(c) PROVE CallInv'
  <2>1. CASE EndAuth(c)
    BY <1>0, <1>2, <1>a, <2>1, CallAlone DEF LockUserQuota
  <2>2. CASE To(c, "insert")
    <3>1. /\ authCall' \in [AuthCalls -> AuthRecord] /\ OtherCallsStay(c)
          /\ authCall'[c].step = "insert" /\ SameData(authCall'[c], authCall[c])
      BY <1>0, <2>2, ToStep DEF AuthSteps
    <3>2. CallOK(authCall[c])'
      BY <1>0, <1>2, <3>1 DEF LockUserQuota, CallOK, SameData
    <3> QED BY <1>0, <1>2, <3>1, <3>2, CallAlone DEF LockUserQuota
  <2> QED BY <1>2, <2>1, <2>2 DEF LockUserQuota
<1>3. ASSUME NEW c \in AuthCalls, InsertUser(c) PROVE CallInv'
  <2>1. users' \in [TenantUserNames -> {"absent", "active", "inactive"}] /\ RowsKept
    BY <1>0, <1>3 DEF InsertUser, UsersTypeOK, RowsKept
  <2>2. UsersTypeOK'
    BY <1>0, <1>3, <1>a, <2>1 DEF InsertUser, UsersTypeOK
  <2> QED BY <1>3, <1>a, <1>b, <2>1, <2>2, AuthCallMoves DEF InsertUser
<1>4. CASE SetMaxUsers
  <2>1. UsersTypeOK' /\ RowsKept
    BY <1>0, <1>4 DEF SetMaxUsers, UsersTypeOK, RowsKept
  <2> QED BY <1>4, <1>b, <2>1, NobodyMoves DEF SetMaxUsers
<1>5. ASSUME NEW c \in AuthCalls, NEW p \in Processes, NEW k \in ApiKeys,
             NEW u \in TenantUserNames \cup {Nothing}, StartCreateKey(c, p, k, u)
      PROVE  CallInv'
  <2>1. PICK r : r = [NoAuthCall EXCEPT !.step = "hash", !.proc = p, !.key = k, !.user = u]
    OBVIOUS
  <2>2. r \in AuthRecord /\ r.step = "hash" /\ r.proc = p /\ r.key = k
    BY <2>1, FirstRecords DEF NoAuthCall
  <2>3. StartCall(c, r)
    BY <1>5, <2>1 DEF StartCreateKey
  <2>4. /\ authCall' \in [AuthCalls -> AuthRecord] /\ OtherCallsStay(c) /\ authCall'[c] = r
    BY <1>0, <2>2, <2>3, StartStep
  <2>5. CallOK(authCall[c])'
    BY <2>2, <2>4 DEF CallOK
  <2> QED BY <1>0, <1>5, <2>4, <2>5, CallAlone DEF StartCreateKey
<1>6. ASSUME NEW c \in AuthCalls, ChooseOwner(c) PROVE CallInv'
  <2>1. CASE EndAuth(c)
    BY <1>0, <1>6, <1>a, <2>1, CallAlone DEF ChooseOwner
  <2>2. CASE ~EndAuth(c)
    <3>1. PICK u \in TenantUserNames :
            /\ users[u] = "active" \/ u \in KeyUsers
            /\ authCall' = [authCall EXCEPT ![c].step = "store", ![c].user = u,
                                            ![c].active = users[u] = "active"]
      BY <1>6, <2>2 DEF ChooseOwner, ActiveUsers, TenantUserNames
    <3>2. PICK r : r = [authCall[c] EXCEPT !.step = "store", !.user = u,
                                           !.active = users[u] = "active"]
      OBVIOUS
    <3>3. authCall[c] \in AuthRecord
      BY <1>0
    <3>4. /\ r \in AuthRecord /\ r.step = "store" /\ r.user = u
          /\ r.proc = authCall[c].proc /\ r.key = authCall[c].key
      BY <3>2, <3>3 DEF AuthRecord, AuthSteps
    <3>5. users[u] = "active" => r.active
      BY <3>2, <3>3 DEF AuthRecord
    <3>6. authCall' = [authCall EXCEPT ![c] = r]
      BY <3>1, <3>2
    <3>7. /\ authCall' \in [AuthCalls -> AuthRecord] /\ OtherCallsStay(c) /\ authCall'[c] = r
      BY <1>0, <3>4, <3>6 DEF OtherCallsStay
    <3>8. authCall[c].proc \in Processes /\ authCall[c].key \in ApiKeys
      BY <1>0, <1>6 DEF ChooseOwner, CallOK
    <3>9. CallOK(r)'
      BY <3>1, <3>4, <3>5, <3>8 DEF CallOK
    <3>10. CallOK(authCall[c])'
      BY <3>7, <3>9 DEF CallOK
    <3> QED BY <1>0, <1>6, <3>7, <3>10, CallAlone DEF ChooseOwner
  <2> QED BY <2>1, <2>2
<1>7. ASSUME NEW c \in AuthCalls, StoreKey(c) PROVE CallInv'
  <2>1. /\ users' \in [TenantUserNames -> {"absent", "active", "inactive"}]
        /\ keys' \in [ApiKeys -> {"absent", "active", "revoked"}]
        /\ RowsKept
    BY <1>0, <1>7 DEF StoreKey, UsersTypeOK, RowsKept
  <2>2. CASE EndAuth(c)
    <3>1. UsersTypeOK'
      BY <1>0, <1>7, <1>a, <2>1, <2>2 DEF StoreKey, UsersTypeOK
    <3> QED BY <1>7, <1>a, <1>b, <2>1, <2>2, <3>1, AuthCallMoves DEF StoreKey
  <2>3. CASE To(c, "remember")
    <3>1. /\ authCall' \in [AuthCalls -> AuthRecord] /\ OtherCallsStay(c)
          /\ authCall'[c].step = "remember" /\ SameData(authCall'[c], authCall[c])
      BY <1>0, <2>3, ToStep DEF AuthSteps
    <3>2. authCall[c].proc \in Processes /\ authCall[c].key \in ApiKeys
      BY <1>0, <1>7 DEF StoreKey, CallOK
    <3>3. CallOK(authCall[c])'
      BY <3>1, <3>2 DEF CallOK, SameData
    <3>4. UsersTypeOK'
      BY <1>0, <1>7, <2>1, <3>1 DEF StoreKey, UsersTypeOK
    <3> QED BY <1>7, <1>b, <2>1, <3>1, <3>3, <3>4, AuthCallMoves DEF StoreKey
  <2> QED BY <1>7, <2>2, <2>3 DEF StoreKey
<1>8. ASSUME NEW c \in AuthCalls, RememberKey(c) \/ ForgetKey(c) PROVE CallInv'
  <2>1. authCall[c].proc \in Processes /\ authCall[c].key \in ApiKeys
    BY <1>0, <1>8 DEF RememberKey, ForgetKey, CallOK
  <2>2. verified' \in [Processes -> SUBSET ApiKeys]
    BY <1>0, <1>8, <2>1 DEF RememberKey, ForgetKey
  <2> QED BY <1>0, <1>8, <1>a, <2>2, CallAlone DEF RememberKey, ForgetKey
<1>9. ASSUME NEW c \in AuthCalls, NEW p \in Processes, NEW k \in ApiKeys, RevokeKey(c, p, k)
      PROVE  CallInv'
  <2>1. PICK r : r = [NoAuthCall EXCEPT !.step = "forget", !.proc = p, !.key = k]
    OBVIOUS
  <2>2. r \in AuthRecord /\ r.step = "forget" /\ r.proc = p /\ r.key = k
    BY <2>1, FirstRecords DEF NoAuthCall
  <2>3. StartCall(c, r)
    BY <1>9, <2>1 DEF RevokeKey
  <2>4. /\ authCall' \in [AuthCalls -> AuthRecord] /\ OtherCallsStay(c) /\ authCall'[c] = r
    BY <1>0, <2>2, <2>3, StartStep
  <2>5. CallOK(authCall[c])'
    BY <2>2, <2>4 DEF CallOK
  <2>6. keys' \in [ApiKeys -> {"absent", "active", "revoked"}]
    BY <1>0, <1>9 DEF RevokeKey
  <2> QED BY <1>0, <1>9, <2>4, <2>5, <2>6, CallAlone DEF RevokeKey
<1>10. ASSUME NEW c \in AuthCalls, NEW p \in Processes, NEW k \in ApiKeys, LoadKey(c, p, k)
       PROVE  CallInv'
  <2>1. PICK r : r = [NoAuthCall EXCEPT !.step = "verify", !.proc = p, !.key = k,
                        !.active = keys[k] = "active", !.ended = keys[k] = "revoked"]
    OBVIOUS
  <2>2. r \in AuthRecord
    BY <2>1, FirstRecords
  <2>3. r.step = "verify" /\ r.proc = p /\ r.key = k
    BY <2>1 DEF NoAuthCall
  <2>4. r.ended => ~r.active
    BY <2>1 DEF NoAuthCall
  <2>5. CASE Judge(c, r, verified[p])
    <3>1. verified[p] \in SUBSET ApiKeys
      BY <1>0
    <3>2. /\ authCall' \in [AuthCalls -> AuthRecord] /\ OtherCallsStay(c)
          /\ CallOK(authCall[c])' /\ verified' \in [Processes -> SUBSET ApiKeys]
      BY <2>2, <2>4, <2>5, <3>1, JudgeStep
    <3> QED BY <1>0, <1>10, <3>2, CallAlone DEF LoadKey
  <2>6. CASE StartCall(c, r) /\ UNCHANGED verified
    <3>1. /\ authCall' \in [AuthCalls -> AuthRecord] /\ OtherCallsStay(c) /\ authCall'[c] = r
      BY <1>0, <2>2, <2>6, StartStep
    <3>2. CallOK(authCall[c])'
      BY <2>3, <2>4, <3>1 DEF CallOK
    <3> QED BY <1>0, <1>10, <2>6, <3>1, <3>2, CallAlone DEF LoadKey
  <2> QED BY <1>10, <2>1, <2>5, <2>6 DEF LoadKey
<1>11. ASSUME NEW c \in AuthCalls, VerifySecret(c) PROVE CallInv'
  <2>1. PICK call : call = authCall[c]
    OBVIOUS
  <2>2. PICK cache : cache = Room(verified[call.proc]) \cup {call.key}
    OBVIOUS
  <2>3. /\ call \in AuthRecord /\ call.proc \in Processes /\ call.key \in ApiKeys
        /\ call.ended => ~call.active
    BY <1>0, <1>11, <2>1 DEF VerifySecret, CallOK
  <2>4. cache \in SUBSET ApiKeys
    BY <1>0, <2>2, <2>3 DEF Room
  <2>5. Judge(c, call, cache)
    BY <1>11, <2>1, <2>2 DEF VerifySecret
  <2>6. /\ authCall' \in [AuthCalls -> AuthRecord] /\ OtherCallsStay(c)
        /\ CallOK(authCall[c])' /\ verified' \in [Processes -> SUBSET ApiKeys]
    BY <2>3, <2>4, <2>5, JudgeStep
  <2> QED BY <1>0, <1>11, <2>6, CallAlone DEF VerifySecret
<1>12. ASSUME NEW c \in AuthCalls, KeyUserAndTouch(c) PROVE CallInv'
  <2>1. /\ authCall' \in [AuthCalls -> AuthRecord] /\ OtherCallsStay(c)
        /\ authCall'[c].step = "served" /\ SameData(authCall'[c], authCall[c])
    BY <1>0, <1>12, ToStep DEF AuthSteps, KeyUserAndTouch
  <2>2. CallOK(authCall[c])'
    BY <1>0, <1>12, <2>1 DEF KeyUserAndTouch, CallOK, SameData
  <2> QED BY <1>0, <1>12, <2>1, <2>2, CallAlone DEF KeyUserAndTouch
<1>13. CASE CleanupKeys
  <2>1. UsersTypeOK' /\ RowsKept
    BY <1>0, <1>13 DEF CleanupKeys, UsersTypeOK, RowsKept
  <2> QED BY <1>13, <1>b, <2>1, NobodyMoves DEF CleanupKeys
<1>14. ASSUME NEW c \in AuthCalls, NEW u \in TenantUserNames, FindUser(c, u) PROVE CallInv'
  <2>1. PICK r : r = [NoAuthCall EXCEPT !.step = "password", !.user = u]
    OBVIOUS
  <2>2. r \in AuthRecord /\ r.step = "password" /\ r.user = u
    BY <2>1, FirstRecords DEF NoAuthCall
  <2>3. StartCall(c, r) /\ users'[u] # "absent"
    BY <1>14, <2>1 DEF FindUser
  <2>4. /\ authCall' \in [AuthCalls -> AuthRecord] /\ OtherCallsStay(c) /\ authCall'[c] = r
    BY <1>0, <2>2, <2>3, StartStep
  <2>5. CallOK(authCall[c])'
    BY <2>2, <2>3, <2>4 DEF CallOK
  <2> QED BY <1>0, <1>14, <2>4, <2>5, CallAlone DEF FindUser
<1>15. ASSUME NEW c \in AuthCalls, CompleteLogin(c) PROVE CallInv'
  <2>1. CASE EndAuth(c)
    BY <1>0, <1>15, <1>a, <2>1, CallAlone DEF CompleteLogin
  <2>2. CASE To(c, "login")
    <3>1. /\ authCall' \in [AuthCalls -> AuthRecord] /\ OtherCallsStay(c)
          /\ authCall'[c].step = "login" /\ SameData(authCall'[c], authCall[c])
      BY <1>0, <2>2, ToStep DEF AuthSteps
    <3>2. CallOK(authCall[c])'
      BY <1>0, <1>15, <3>1 DEF CompleteLogin, CallOK, SameData
    <3> QED BY <1>0, <1>15, <3>1, <3>2, CallAlone DEF CompleteLogin
  <2> QED BY <1>15, <2>1, <2>2 DEF CompleteLogin
<1>16. ASSUME NEW c \in AuthCalls, NEW s \in Sessions, StoreSession(c, s) PROVE CallInv'
  <2>1. authCall[c].user \in TenantUserNames /\ users[authCall[c].user] # "absent"
    BY <1>0, <1>16 DEF StoreSession, CallOK
  <2>2. UsersTypeOK'
    BY <1>0, <1>16, <1>a, <2>1 DEF StoreSession, UsersTypeOK
  <2>3. RowsKept
    BY <1>0, <1>16 DEF StoreSession, RowsKept, UsersTypeOK
  <2>4. \A z \in Sessions : SessionOK(z)'
    BY <1>0, <1>16, <2>1 DEF StoreSession, SessionOK, UsersTypeOK
  <2> QED BY <1>16, <1>a, <2>2, <2>3, <2>4, AuthCallMoves DEF StoreSession
<1>17. ASSUME NEW c \in AuthCalls, NEW s \in Sessions, ValidateSession(c, s) PROVE CallInv'
  <2>1. PICK r : r = [NoAuthCall EXCEPT !.step = "owner", !.session = s,
                                        !.ended = users[sessionUser[s]] # "active"]
    OBVIOUS
  <2>2. r \in AuthRecord
    BY <2>1, FirstRecords
  <2>3. r.step = "owner" /\ r.session = s
    BY <2>1 DEF NoAuthCall
  <2>4. r.ended => users[sessionUser[s]] # "active"
    BY <2>1 DEF NoAuthCall
  <2>5. sessionState[s] # "absent"
    BY <1>17 DEF ValidateSession
  <2>6. users[sessionUser[s]] \in {"active", "inactive"}
    BY <1>0, <2>5 DEF SessionOK, UsersTypeOK
  <2>7. StartCall(c, r)
    BY <1>17, <2>1 DEF ValidateSession
  <2>8. /\ authCall' \in [AuthCalls -> AuthRecord] /\ OtherCallsStay(c) /\ authCall'[c] = r
    BY <1>0, <2>2, <2>7, StartStep
  <2>9. CallOK(authCall[c])'
    BY <1>17, <2>3, <2>4, <2>5, <2>6, <2>8 DEF CallOK, ValidateSession
  <2> QED BY <1>0, <1>17, <2>8, <2>9, CallAlone DEF ValidateSession
<1>18. ASSUME NEW c \in AuthCalls, TouchSession(c) PROVE CallInv'
  <2>1. CASE EndAuth(c)
    BY <1>0, <1>18, <1>a, <2>1, CallAlone DEF TouchSession
  <2>2. CASE users[sessionUser[authCall[c].session]] = "active" /\ To(c, "served")
    <3>1. /\ authCall' \in [AuthCalls -> AuthRecord] /\ OtherCallsStay(c)
          /\ authCall'[c].step = "served" /\ SameData(authCall'[c], authCall[c])
      BY <1>0, <2>2, ToStep DEF AuthSteps
    <3>2. ~authCall[c].ended
      BY <1>0, <1>18, <2>2 DEF TouchSession, CallOK
    <3>3. CallOK(authCall[c])'
      BY <3>1, <3>2 DEF CallOK, SameData
    <3> QED BY <1>0, <1>18, <3>1, <3>3, CallAlone DEF TouchSession
  <2> QED BY <1>18, <2>1, <2>2 DEF TouchSession
<1>19. ASSUME NEW s \in Sessions, LogoutUser(s) PROVE CallInv'
  <2>1. UsersTypeOK' /\ RowsKept
    BY <1>0, <1>19 DEF LogoutUser, UsersTypeOK, RowsKept
  <2>2. \A z \in Sessions : SessionOK(z)'
    BY <1>0, <1>19 DEF LogoutUser, SessionOK, UsersTypeOK
  <2> QED BY <1>19, <2>1, <2>2, NobodyMoves DEF LogoutUser
<1>20. ASSUME NEW u \in TenantUserNames, DeactivateUser(u) PROVE CallInv'
  <2>1. UsersTypeOK' /\ RowsKept
    BY <1>0, <1>20 DEF DeactivateUser, UsersTypeOK, RowsKept
  <2>2. \A z \in Sessions : SessionOK(z)'
    BY <1>0, <1>20 DEF DeactivateUser, SessionOK, UsersTypeOK
  <2> QED BY <1>20, <2>1, <2>2, NobodyMoves DEF DeactivateUser
<1>21. CASE CleanupSessions
  <2>1. UsersTypeOK' /\ RowsKept
    BY <1>0, <1>21 DEF CleanupSessions, UsersTypeOK, RowsKept
  <2>2. \A z \in Sessions : SessionOK(z)'
    BY <1>0, <1>21 DEF CleanupSessions, SessionOK, UsersTypeOK
  <2> QED BY <1>21, <2>1, <2>2, NobodyMoves DEF CleanupSessions
<1>22. ASSUME NEW x \in ApiKeys \cup Sessions, Expire(x) PROVE CallInv'
  <2>1. UsersTypeOK' /\ RowsKept
    BY <1>0, <1>22 DEF Expire, UsersTypeOK, RowsKept
  <2> QED BY <1>22, <1>b, <2>1, NobodyMoves DEF Expire
<1>23. ASSUME NEW c \in AuthCalls, EndCall(c) PROVE CallInv'
  BY <1>0, <1>23, <1>a, CallAlone DEF EndCall
<1>24. CASE UNCHANGED userVars
  <2>1. UsersTypeOK' /\ RowsKept
    BY <1>0, <1>24 DEF userVars, UsersTypeOK, RowsKept
  <2> QED BY <1>24, <1>b, <2>1, NobodyMoves DEF userVars
<1> QED
  BY <1>1, <1>2, <1>3, <1>4, <1>5, <1>6, <1>7, <1>8, <1>9, <1>10, <1>11, <1>12, <1>13, <1>14,
     <1>15, <1>16, <1>17, <1>18, <1>19, <1>20, <1>21, <1>22, <1>23, <1>24 DEF UsersNext

\* Users, keys, sessions, caches and calls keep their types.
THEOREM UsersTypeCorrect == UsersSpec => []UsersTypeOK
<1>1. CallInv => UsersTypeOK
  BY DEF CallInv
<1> QED
  BY <1>1, CallInit, CallStep, PTL DEF UsersSpec

\* A call with a key that was revoked before it began, by whatever process, is not
\* served, whatever that process's cache of verified keys holds.
THEOREM RevokedKeysStop == UsersSpec => []RevokedKeysRefused
<1>1. CallInv => RevokedKeysRefused
  BY DEF CallInv, CallOK, RevokedKeysRefused
<1> QED
  BY <1>1, CallInit, CallStep, PTL DEF UsersSpec

\* A call with the session of a user who was deactivated before it began is not
\* served, also when a login committed that session after the deactivation.
THEOREM DeactivatedUsersStop == UsersSpec => []DeactivatedUsersRefused
<1>1. CallInv => DeactivatedUsersRefused
  BY DEF CallInv, CallOK, DeactivatedUsersRefused
<1> QED
  BY <1>1, CallInit, CallStep, PTL DEF UsersSpec

-----------------------------------------------------------------------------
(* The quota of users *)

\* From its read of the quota to its commit a create_user has the row lock, so the
\* room it found is still there.
QuotaInv ==
  /\ CallInv
  /\ IsFiniteSet(Rows)
  /\ maxUsers <= peakUsers
  /\ Cardinality(FormRows) <= peakUsers
  /\ \A c \in AuthCalls :
       authCall[c].step = "insert" => quotaLock = c /\ Cardinality(FormRows) < maxUsers

LEMMA QuotaInit == UsersInit => QuotaInv
<1> SUFFICES ASSUME UsersInit PROVE QuotaInv
  OBVIOUS
<1>1. CallInv
  BY CallInit
<1>2. Rows = {} /\ FormRows = {}
  BY DEF UsersInit, Rows, FormRows
<1>3. IsFiniteSet(Rows) /\ Cardinality(FormRows) = 0
  BY <1>2, FS_EmptySet
<1>4. maxUsers \in Nat /\ maxUsers = peakUsers
  BY TenantUsersAssumption DEF UsersInit
<1>5. \A c \in AuthCalls : authCall[c].step = "none"
  BY DEF UsersInit, NoAuthCall
<1> QED
  BY <1>1, <1>3, <1>4, <1>5 DEF QuotaInv

LEMMA QuotaStep == QuotaInv /\ [UsersNext]_userVars => QuotaInv'
<1> SUFFICES ASSUME QuotaInv, [UsersNext]_userVars PROVE QuotaInv'
  OBVIOUS
<1>0. /\ CallInv /\ CallInv' /\ UsersTypeOK /\ UsersTypeOK'
      /\ maxUsers \in Nat /\ peakUsers \in Nat /\ maxUsers' \in Nat /\ peakUsers' \in Nat
      /\ authCall \in [AuthCalls -> AuthRecord]
      /\ \A c \in AuthCalls : CallOK(authCall[c])
      /\ NoCaller \notin AuthCalls /\ FormUsers \cap KeyUsers = {}
  BY CallStep, TenantUsersAssumption DEF QuotaInv, CallInv, UsersTypeOK
<1>a. /\ IsFiniteSet(Rows) /\ IsFiniteSet(FormRows)
      /\ Cardinality(Rows) \in Nat /\ Cardinality(FormRows) \in Nat
      /\ Cardinality(FormRows) <= Cardinality(Rows)
  <2>1. FormRows \subseteq Rows /\ IsFiniteSet(Rows)
    BY DEF FormRows, QuotaInv
  <2> QED BY <2>1, FS_Subset, FS_CardinalityType
\* Steps that neither add a user of a form, nor change the quota, nor bring a call
\* to its insert.
<1>b. ASSUME IsFiniteSet(Rows'), FormRows' = FormRows,
             maxUsers' = maxUsers, peakUsers' = peakUsers,
             \A c \in AuthCalls : authCall'[c].step = "insert" =>
               authCall[c].step = "insert" /\ quotaLock' = quotaLock
      PROVE  QuotaInv'
  BY <1>0, <1>b DEF QuotaInv
<1>c. ASSUME UNCHANGED users PROVE Rows' = Rows /\ FormRows' = FormRows
  BY <1>c DEF Rows, FormRows
<1>d. ASSUME NEW c \in AuthCalls, OtherCallsStay(c), authCall'[c].step # "insert",
             quotaLock' = quotaLock
      PROVE  \A d \in AuthCalls : authCall'[d].step = "insert" =>
               authCall[d].step = "insert" /\ quotaLock' = quotaLock
  BY <1>d DEF OtherCallsStay
<1>e. ASSUME NEW c \in AuthCalls, EndAuth(c)
      PROVE  OtherCallsStay(c) /\ authCall'[c].step # "insert"
  BY <1>0, <1>e, EndStep DEF NoAuthCall
<1>f. ASSUME NEW c \in AuthCalls, NEW step \in AuthSteps \ {"insert"}, To(c, step)
      PROVE  OtherCallsStay(c) /\ authCall'[c].step # "insert"
  BY <1>0, <1>f, ToStep
<1>g. ASSUME NEW c \in AuthCalls, NEW call, call.step # "insert",
             authCall' = [authCall EXCEPT ![c] = call]
      PROVE  OtherCallsStay(c) /\ authCall'[c].step # "insert"
  BY <1>0, <1>g DEF OtherCallsStay
<1>h. ASSUME NEW c \in AuthCalls, NEW call \in AuthRecord, NEW cache, Judge(c, call, cache)
      PROVE  OtherCallsStay(c) /\ authCall'[c].step # "insert"
  <2>1. PICK r : r = IF call.active /\ call.key \notin expired
                     THEN [call EXCEPT !.step = "touch"] ELSE NoAuthCall
    OBVIOUS
  <2>2. r.step # "insert"
    BY <2>1 DEF AuthRecord, NoAuthCall
  <2>3. authCall' = [authCall EXCEPT ![c] = r]
    BY <1>h, <2>1 DEF Judge
  <2> QED BY <1>g, <2>2, <2>3
<1>1. ASSUME NEW c \in AuthCalls, LockUserQuota(c) PROVE QuotaInv'
  <2>0. UNCHANGED <<users, maxUsers, peakUsers>> /\ quotaLock = NoCaller
    BY <1>1 DEF LockUserQuota
  <2>a. \A d \in AuthCalls : authCall[d].step # "insert"
    BY <1>0, <2>0 DEF QuotaInv
  <2>1. CASE EndAuth(c)
    <3>1. \A d \in AuthCalls : authCall'[d].step # "insert"
      BY <1>e, <2>1, <2>a DEF OtherCallsStay
    <3> QED BY <1>a, <1>b, <1>c, <2>0, <3>1
  <2>2. CASE ~(Cardinality(Rows) >= maxUsers) /\ quotaLock' = c /\ To(c, "insert")
    <3>1. OtherCallsStay(c)
      BY <1>0, <2>2, ToStep DEF AuthSteps
    <3>2. \A d \in AuthCalls : authCall'[d].step = "insert" => d = c
      BY <2>a, <3>1 DEF OtherCallsStay
    <3>3. Cardinality(FormRows) < maxUsers
      BY <1>0, <1>a, <2>2
    <3>4. Rows' = Rows /\ FormRows' = FormRows
      BY <1>c, <2>0
    <3> QED BY <1>0, <1>a, <2>0, <2>2, <3>2, <3>3, <3>4 DEF QuotaInv
  <2> QED BY <1>1, <2>1, <2>2 DEF LockUserQuota
<1>2. ASSUME NEW c \in AuthCalls, InsertUser(c) PROVE QuotaInv'
  <2> DEFINE u == authCall[c].user
  <2>1. /\ quotaLock = c /\ Cardinality(FormRows) < maxUsers /\ maxUsers <= peakUsers
        /\ u \in FormUsers
        /\ \A d \in AuthCalls \ {c} : authCall[d].step # "insert"
    BY <1>0, <1>2 DEF InsertUser, QuotaInv, CallOK
  <2>2. Rows' = Rows \cup {u} /\ FormRows' = FormRows \cup {u}
    BY <1>0, <1>2, <2>1 DEF InsertUser, Rows, FormRows, UsersTypeOK, TenantUserNames
  <2>3. /\ IsFiniteSet(Rows')
        /\ Cardinality(FormRows') \in Nat
        /\ Cardinality(FormRows') <= Cardinality(FormRows) + 1
    <3> HIDE DEF u
    <3>1. IsFiniteSet(Rows \cup {u})
      BY <1>a, FS_AddElement
    <3>2. Cardinality(FormRows \cup {u}) \in {Cardinality(FormRows), Cardinality(FormRows) + 1}
      BY <1>a, FS_AddElement
    <3> QED BY <1>a, <2>2, <3>1, <3>2
  <2>4. \A d \in AuthCalls : authCall'[d].step # "insert"
    BY <1>2, <1>e, <2>1 DEF InsertUser, OtherCallsStay
  <2>5. maxUsers' = maxUsers /\ peakUsers' = peakUsers
    BY <1>2 DEF InsertUser
  <2>6. Cardinality(FormRows') <= peakUsers'
    BY <1>0, <1>a, <2>1, <2>3, <2>5
  <2> QED BY <1>0, <2>1, <2>3, <2>4, <2>5, <2>6 DEF QuotaInv
<1>3. CASE SetMaxUsers
  <2>1. /\ maxUsers' <= peakUsers' /\ peakUsers <= peakUsers'
        /\ quotaLock = NoCaller /\ UNCHANGED <<users, authCall>>
    BY <1>0, <1>3 DEF SetMaxUsers
  <2>2. \A d \in AuthCalls : authCall'[d].step # "insert"
    BY <1>0, <2>1 DEF QuotaInv
  <2>3. Rows' = Rows /\ FormRows' = FormRows
    BY <1>c, <2>1
  <2>4. Cardinality(FormRows) <= peakUsers
    BY DEF QuotaInv
  <2> QED BY <1>0, <1>a, <2>1, <2>2, <2>3, <2>4 DEF QuotaInv
<1>4. ASSUME NEW c \in AuthCalls, StoreKey(c) PROVE QuotaInv'
  <2> DEFINE u == authCall[c].user
  <2>1. CASE UNCHANGED users
    <3>1. OtherCallsStay(c) /\ authCall'[c].step # "insert"
      BY <1>4, <1>e, <1>f DEF StoreKey, AuthSteps
    <3> QED BY <1>4, <1>a, <1>b, <1>c, <1>d, <2>1, <3>1 DEF StoreKey
  <2>2. CASE users' = [users EXCEPT ![u] = "active"] /\ ~authCall[c].active
    <3>1. u \in KeyUsers /\ u \notin FormUsers
      BY <1>0, <1>4, <2>2 DEF StoreKey, CallOK
    <3>2. Rows' = Rows \cup {u} /\ FormRows' = FormRows
      BY <1>0, <2>2, <3>1 DEF Rows, FormRows, UsersTypeOK, TenantUserNames
    <3> HIDE DEF u
    <3>3. IsFiniteSet(Rows')
      BY <1>a, <3>2, FS_AddElement
    <3>4. OtherCallsStay(c) /\ authCall'[c].step # "insert"
      BY <1>4, <1>e, <1>f DEF StoreKey, AuthSteps
    <3> QED BY <1>4, <1>b, <1>d, <3>2, <3>3, <3>4 DEF StoreKey
  <2> QED BY <1>4, <2>1, <2>2 DEF StoreKey
<1>5. ASSUME NEW u \in TenantUserNames, DeactivateUser(u) PROVE QuotaInv'
  <2>1. Rows' = Rows /\ FormRows' = FormRows
    BY <1>0, <1>5 DEF DeactivateUser, Rows, FormRows, UsersTypeOK
  <2> QED BY <1>a, <1>b, <1>5, <2>1 DEF DeactivateUser
<1>6. ASSUME NEW c \in AuthCalls, EndCall(c) PROVE QuotaInv'
  <2>1. OtherCallsStay(c) /\ authCall'[c].step # "insert"
    BY <1>6, <1>e DEF EndCall
  <2>2. \A d \in AuthCalls : authCall'[d].step = "insert" =>
          authCall[d].step = "insert" /\ quotaLock' = quotaLock
    BY <1>6, <2>1 DEF EndCall, OtherCallsStay, QuotaInv
  <2> QED BY <1>a, <1>b, <1>c, <1>6, <2>2 DEF EndCall
\* The other steps of a call.
<1>7. ASSUME NEW c \in AuthCalls, OtherCallsStay(c), authCall'[c].step # "insert",
             UNCHANGED <<userRows, quotaLock>>
      PROVE  QuotaInv'
  BY <1>a, <1>b, <1>c, <1>d, <1>7
<1>8. ASSUME NEW c \in AuthCalls,
             \/ \E u \in FormUsers : StartCreateUser(c, u)
             \/ \E p \in Processes, k \in ApiKeys, u \in TenantUserNames \cup {Nothing} :
                  StartCreateKey(c, p, k, u)
             \/ \E p \in Processes, k \in ApiKeys : RevokeKey(c, p, k) \/ LoadKey(c, p, k)
             \/ \E u \in TenantUserNames : FindUser(c, u)
             \/ \E s \in Sessions : ValidateSession(c, s)
      PROVE  QuotaInv'
  <2>1. UNCHANGED <<userRows, quotaLock>>
    BY <1>8 DEF StartCreateUser, StartCreateKey, RevokeKey, LoadKey, FindUser, ValidateSession
  <2>2. OtherCallsStay(c) /\ authCall'[c].step # "insert"
    <3>1. ASSUME NEW call, call.step # "insert", StartCall(c, call)
          PROVE  OtherCallsStay(c) /\ authCall'[c].step # "insert"
      BY <1>g, <3>1 DEF StartCall
    <3>2. ASSUME NEW p \in Processes, NEW k \in ApiKeys, NEW a \in BOOLEAN,
                 NEW e \in BOOLEAN, NEW call,
                 call = [NoAuthCall EXCEPT !.step = "verify", !.proc = p, !.key = k,
                                           !.active = a, !.ended = e],
                 Judge(c, call, verified[p])
          PROVE  OtherCallsStay(c) /\ authCall'[c].step # "insert"
      <4>1. call \in AuthRecord
        BY <3>2, FirstRecords
      <4> QED BY <1>h, <3>2, <4>1
    <3>3. CASE \E u \in FormUsers : StartCreateUser(c, u)
      BY <3>1, <3>3 DEF StartCreateUser, NoAuthCall
    <3>4. CASE \E p \in Processes, k \in ApiKeys, u \in TenantUserNames \cup {Nothing} :
                 StartCreateKey(c, p, k, u)
      BY <3>1, <3>4 DEF StartCreateKey, NoAuthCall
    <3>5. CASE \E p \in Processes, k \in ApiKeys : RevokeKey(c, p, k)
      BY <3>1, <3>5 DEF RevokeKey, NoAuthCall
    <3>6. CASE \E p \in Processes, k \in ApiKeys : LoadKey(c, p, k)
      BY <3>1, <3>2, <3>6 DEF LoadKey, NoAuthCall
    <3>7. CASE \E u \in TenantUserNames : FindUser(c, u)
      BY <3>1, <3>7 DEF FindUser, NoAuthCall
    <3>8. CASE \E s \in Sessions : ValidateSession(c, s)
      BY <3>1, <3>8 DEF ValidateSession, NoAuthCall
    <3> QED BY <1>8, <3>3, <3>4, <3>5, <3>6, <3>7, <3>8
  <2> QED BY <1>7, <2>1, <2>2
<1>9. ASSUME NEW c \in AuthCalls, ChooseOwner(c) PROVE QuotaInv'
  <2>1. OtherCallsStay(c) /\ authCall'[c].step # "insert"
    <3>1. CASE EndAuth(c)
      BY <1>e, <3>1
    <3>2. CASE ~EndAuth(c)
      <4>1. PICK u : authCall' = [authCall EXCEPT ![c].step = "store", ![c].user = u,
                                                  ![c].active = users[u] = "active"]
        BY <1>9, <3>2 DEF ChooseOwner
      <4> QED BY <1>0, <4>1 DEF OtherCallsStay, AuthRecord
    <3> QED BY <3>1, <3>2
  <2> QED BY <1>7, <1>9, <2>1 DEF ChooseOwner
<1>10. ASSUME NEW c \in AuthCalls,
              RememberKey(c) \/ ForgetKey(c) \/ \E s \in Sessions : StoreSession(c, s)
       PROVE  QuotaInv'
  BY <1>7, <1>10, <1>e DEF RememberKey, ForgetKey, StoreSession
<1>11. ASSUME NEW c \in AuthCalls, VerifySecret(c) PROVE QuotaInv'
  <2>1. authCall[c] \in AuthRecord
    BY <1>0
  <2>2. OtherCallsStay(c) /\ authCall'[c].step # "insert"
    BY <1>11, <1>h, <2>1 DEF VerifySecret
  <2> QED BY <1>7, <1>11, <2>2 DEF VerifySecret
<1>12. ASSUME NEW c \in AuthCalls, KeyUserAndTouch(c) \/ CompleteLogin(c) \/ TouchSession(c)
       PROVE  QuotaInv'
  <2>1. OtherCallsStay(c) /\ authCall'[c].step # "insert"
    BY <1>12, <1>e, <1>f DEF KeyUserAndTouch, CompleteLogin, TouchSession, AuthSteps
  <2> QED BY <1>7, <1>12, <2>1 DEF KeyUserAndTouch, CompleteLogin, TouchSession
\* Steps of no call.
<1>13. ASSUME UNCHANGED <<userRows, quotaLock, authCall>> PROVE QuotaInv'
  BY <1>a, <1>b, <1>c, <1>13
<1>14. ASSUME \/ CleanupKeys \/ CleanupSessions \/ UNCHANGED userVars
              \/ \E s \in Sessions : LogoutUser(s)
              \/ \E x \in ApiKeys \cup Sessions : Expire(x)
       PROVE  QuotaInv'
  BY <1>13, <1>14 DEF CleanupKeys, CleanupSessions, LogoutUser, Expire, userVars
<1> QED
  BY <1>1, <1>2, <1>3, <1>4, <1>5, <1>6, <1>8, <1>9, <1>10, <1>11, <1>12, <1>14 DEF UsersNext

\* However creations of users and keys and changes of the quota interleave and fail,
\* the users that create_user added never exceed the highest max_users.
THEOREM UsersStayWithinLimit == UsersSpec => []UsersWithinLimit
<1>1. QuotaInv => UsersWithinLimit
  BY DEF QuotaInv, FormRows, UsersWithinLimit
<1> QED
  BY <1>1, QuotaInit, QuotaStep, PTL DEF UsersSpec

LEMMA CreationInit == UsersInit => UserQuota!AInit
<1> SUFFICES ASSUME UsersInit PROVE UserQuota!AInit
  OBVIOUS
<1>1. FormRows = {}
  BY DEF UsersInit, Rows, FormRows
<1>2. Cardinality(FormRows) = 0
  BY <1>1, FS_EmptySet
<1>3. maxUsers \in Nat
  BY TenantUsersAssumption DEF UsersInit
<1> QED
  BY <1>2, <1>3 DEF UserQuota!AInit

\* A creation admits a user by the quota of its commit, since it holds the row;
\* every other step leaves the users of forms alone, and only SetMaxUsers the quota.
LEMMA CreationStep ==
  QuotaInv /\ QuotaInv' /\ [UsersNext]_userVars => [UserQuota!ANext]_(UserQuota!aqVars)
<1> SUFFICES ASSUME QuotaInv, QuotaInv', [UsersNext]_userVars
             PROVE  [UserQuota!ANext]_(UserQuota!aqVars)
  OBVIOUS
<1>0. /\ UsersTypeOK /\ UsersTypeOK' /\ maxUsers \in Nat /\ maxUsers' \in Nat
      /\ \A c \in AuthCalls : CallOK(authCall[c])
      /\ FormUsers \cap KeyUsers = {}
  BY TenantUsersAssumption DEF QuotaInv, CallInv, UsersTypeOK
<1>a. IsFiniteSet(FormRows) /\ Cardinality(FormRows) \in Nat
  BY FS_Subset, FS_CardinalityType DEF FormRows, QuotaInv
<1>b. ASSUME FormRows' = FormRows, maxUsers' = maxUsers
      PROVE  UNCHANGED UserQuota!aqVars
  BY <1>b DEF UserQuota!aqVars
<1>c. ASSUME UNCHANGED users PROVE FormRows' = FormRows
  BY <1>c DEF Rows, FormRows
<1>1. ASSUME NEW c \in AuthCalls, InsertUser(c)
      PROVE  [UserQuota!ANext]_(UserQuota!aqVars)
  <2> DEFINE u == authCall[c].user
  <2>1. Cardinality(FormRows) < maxUsers /\ u \in FormUsers /\ maxUsers' = maxUsers
    BY <1>0, <1>1 DEF InsertUser, QuotaInv, CallOK
  <2>2. FormRows' = FormRows \cup {u}
    BY <1>0, <1>1, <2>1 DEF InsertUser, Rows, FormRows, UsersTypeOK, TenantUserNames
  <2>3. CASE u \in FormRows
    <3>1. FormRows' = FormRows
      BY <2>2, <2>3
    <3> QED BY <1>b, <2>1, <3>1
  <2>4. CASE u \notin FormRows
    <3>1. Cardinality(FormRows') = Cardinality(FormRows) + 1
      <4> HIDE DEF u
      <4> QED BY <1>a, <2>2, <2>4, FS_AddElement
    <3>2. UserQuota!Admit("users")
      BY <2>1, <3>1 DEF UserQuota!Admit, QuotaOf
    <3> QED BY <3>2 DEF UserQuota!ANext
  <2> QED BY <2>3, <2>4
<1>2. CASE SetMaxUsers
  <2>1. UserQuota!Requota
    BY <1>0, <1>2, <1>c DEF SetMaxUsers, UserQuota!Requota
  <2> QED BY <2>1 DEF UserQuota!ANext
<1>3. ASSUME NEW c \in AuthCalls, StoreKey(c) PROVE UNCHANGED UserQuota!aqVars
  <2> DEFINE u == authCall[c].user
  <2>1. CASE UNCHANGED users
    BY <1>3, <1>b, <1>c, <2>1 DEF StoreKey
  <2>2. CASE users' = [users EXCEPT ![u] = "active"] /\ ~authCall[c].active
    <3>1. u \notin FormUsers
      BY <1>0, <1>3, <2>2 DEF StoreKey, CallOK
    <3>2. FormRows' = FormRows
      BY <1>0, <2>2, <3>1 DEF Rows, FormRows, UsersTypeOK, TenantUserNames
    <3> QED BY <1>3, <1>b, <3>2 DEF StoreKey
  <2> QED BY <1>3, <2>1, <2>2 DEF StoreKey
<1>4. ASSUME NEW u \in TenantUserNames, DeactivateUser(u) PROVE UNCHANGED UserQuota!aqVars
  <2>1. FormRows' = FormRows
    BY <1>0, <1>4 DEF DeactivateUser, Rows, FormRows, UsersTypeOK
  <2> QED BY <1>b, <1>4, <2>1 DEF DeactivateUser
<1>5. CASE UNCHANGED <<users, maxUsers>>
  BY <1>5, <1>b, <1>c
<1>6. ASSUME NEW c \in AuthCalls,
             \/ \E u \in FormUsers : StartCreateUser(c, u)
             \/ LockUserQuota(c)
             \/ \E p \in Processes, k \in ApiKeys, u \in TenantUserNames \cup {Nothing} :
                  StartCreateKey(c, p, k, u)
             \/ ChooseOwner(c) \/ RememberKey(c)
             \/ \E p \in Processes, k \in ApiKeys : RevokeKey(c, p, k) \/ LoadKey(c, p, k)
             \/ ForgetKey(c) \/ VerifySecret(c) \/ KeyUserAndTouch(c)
             \/ \E u \in TenantUserNames : FindUser(c, u)
             \/ CompleteLogin(c)
             \/ \E s \in Sessions : StoreSession(c, s) \/ ValidateSession(c, s)
             \/ TouchSession(c) \/ EndCall(c)
      PROVE  UNCHANGED <<users, maxUsers>>
  BY <1>6
  DEF userRows, StartCreateUser, LockUserQuota, StartCreateKey, ChooseOwner, RememberKey,
      RevokeKey, LoadKey, ForgetKey, VerifySecret, KeyUserAndTouch, FindUser, CompleteLogin,
      StoreSession, ValidateSession, TouchSession, EndCall
<1>7. ASSUME \/ CleanupKeys \/ CleanupSessions \/ UNCHANGED userVars
             \/ \E s \in Sessions : LogoutUser(s)
             \/ \E x \in ApiKeys \cup Sessions : Expire(x)
      PROVE  UNCHANGED <<users, maxUsers>>
  BY <1>7 DEF userRows, CleanupKeys, CleanupSessions, LogoutUser, Expire, userVars
<1> QED
  BY <1>1, <1>2, <1>3, <1>4, <1>5, <1>6, <1>7 DEF UsersNext

\* The transaction of create_user, which counts, reads the quota and inserts in
\* statements of their own (tenant_auth.py:211), implements the indivisible
\* admission of AtomicQuota, under the max_users in force when the user is added.
THEOREM CreationImplementsQuota == UsersSpec => CreationIsAtomic
<1>1. CreationIsAtomic <=> UserQuota!AInit /\ [][UserQuota!ANext]_(UserQuota!aqVars)
  BY DEF CreationIsAtomic, UserQuota!ASpec
<1> QED
  BY <1>1, CreationInit, CreationStep, QuotaInit, QuotaStep, PTL DEF UsersSpec

-----------------------------------------------------------------------------
(* The cache of verified keys *)

\* What one step may make of a process's cache.
CacheMove(p) ==
  \/ Cardinality(verified'[p]) <= VerifiedMax \/ verified'[p] \subseteq verified[p]
  \/ \E c \in AuthCalls : Step(c, "remember") /\ authCall[c].proc = p
                          /\ verified'[p] = verified[p] \cup {authCall[c].key}

\* Caches grow by one key at a time, so they are finite whatever the set of keys is.
CachesInv == CallInv /\ \A p \in Processes : IsFiniteSet(verified[p])

LEMMA CachesInit == UsersInit => CachesInv
<1> SUFFICES ASSUME UsersInit PROVE CachesInv
  OBVIOUS
<1>1. \A p \in Processes : verified[p] = {}
  BY DEF UsersInit
<1> QED
  BY <1>1, CallInit, FS_EmptySet DEF CachesInv

LEMMA CachesStep ==
  CachesInv /\ [UsersNext]_userVars =>
    \A p \in Processes : CacheMove(p) /\ IsFiniteSet(verified'[p])
<1> SUFFICES ASSUME CachesInv, [UsersNext]_userVars, NEW p \in Processes
             PROVE  CacheMove(p) /\ IsFiniteSet(verified'[p])
  OBVIOUS
<1>0. /\ verified \in [Processes -> SUBSET ApiKeys] /\ IsFiniteSet(verified[p])
      /\ authCall \in [AuthCalls -> AuthRecord] /\ \A c \in AuthCalls : CallOK(authCall[c])
      /\ VerifiedMax \in Nat \ {0}
  BY TenantUsersAssumption DEF CachesInv, CallInv, UsersTypeOK
\* Nothing but new keys make a cache grow.
<1>1. ASSUME verified'[p] \subseteq verified[p]
      PROVE  CacheMove(p) /\ IsFiniteSet(verified'[p])
  BY <1>0, <1>1, FS_Subset DEF CacheMove
<1>2. ASSUME NEW c \in AuthCalls, RememberKey(c)
      PROVE  CacheMove(p) /\ IsFiniteSet(verified'[p])
  <2>1. CASE authCall[c].proc = p
    <3>1. verified'[p] = verified[p] \cup {authCall[c].key}
      BY <1>0, <1>2, <2>1 DEF RememberKey
    <3>2. IsFiniteSet(verified'[p])
      BY <1>0, <3>1, FS_AddElement
    <3> QED BY <1>2, <2>1, <3>1, <3>2 DEF RememberKey, CacheMove
  <2>2. CASE authCall[c].proc # p
    BY <1>0, <1>1, <1>2, <2>2 DEF RememberKey
  <2> QED BY <2>1, <2>2
<1>3. ASSUME NEW c \in AuthCalls, VerifySecret(c)
      PROVE  CacheMove(p) /\ IsFiniteSet(verified'[p])
  <2> DEFINE call == authCall[c]
             room == Room(verified[call.proc])
  <2>1. /\ call.proc \in Processes
        /\ verified' = [verified EXCEPT ![call.proc] =
                          IF call.active THEN room \cup {call.key}
                          ELSE (room \cup {call.key}) \ {call.key}]
    BY <1>0, <1>3 DEF VerifySecret, Judge, CallOK
  <2>2. CASE call.proc # p
    BY <1>0, <1>1, <2>1, <2>2
  <2>3. CASE call.proc = p
    <3>1. IsFiniteSet(room) /\ Cardinality(room) \in Nat /\ Cardinality(room) < VerifiedMax
      <4>1. CASE room = {}
        <5> HIDE DEF room
        <5> QED BY <1>0, <4>1, FS_EmptySet
      <4>2. CASE room = verified[p] /\ ~(Cardinality(verified[p]) >= VerifiedMax)
        <5>1. Cardinality(verified[p]) \in Nat
          BY <1>0, FS_CardinalityType
        <5> QED BY <1>0, <4>2, <5>1
      <4> QED BY <2>3, <4>1, <4>2 DEF Room
    <3> HIDE DEF room
    <3>2. PICK grown : grown = room \cup {call.key}
      OBVIOUS
    <3>3. IsFiniteSet(grown) /\ Cardinality(grown) \in {Cardinality(room), Cardinality(room) + 1}
      BY <3>1, <3>2, FS_AddElement
    <3>4. verified'[p] = IF call.active THEN grown ELSE grown \ {call.key}
      BY <1>0, <2>1, <2>3, <3>2
    <3>5. verified'[p] \subseteq grown
      BY <3>4
    <3>6. IsFiniteSet(verified'[p]) /\ Cardinality(verified'[p]) <= Cardinality(grown)
      BY <3>3, <3>5, FS_Subset
    <3>7. Cardinality(verified'[p]) \in Nat
      BY <3>6, FS_CardinalityType
    <3>8. Cardinality(verified'[p]) <= VerifiedMax
      BY <1>0, <3>1, <3>3, <3>6, <3>7
    <3> QED BY <3>6, <3>8 DEF CacheMove
  <2> QED BY <2>2, <2>3
<1>4. ASSUME NEW c \in AuthCalls, NEW q \in Processes, NEW k \in ApiKeys, LoadKey(c, q, k)
      PROVE  verified'[p] \subseteq verified[p]
  <2>1. PICK call : call = [NoAuthCall EXCEPT !.step = "verify", !.proc = q, !.key = k,
                       !.active = keys[k] = "active", !.ended = keys[k] = "revoked"]
    OBVIOUS
  <2>2. call.proc = q
    BY <2>1 DEF NoAuthCall
  <2>3. CASE UNCHANGED verified
    BY <2>3
  <2>4. CASE Judge(c, call, verified[q])
    BY <1>0, <2>2, <2>4 DEF Judge
  <2> QED BY <1>4, <2>1, <2>3, <2>4 DEF LoadKey
<1>5. ASSUME NEW c \in AuthCalls, ForgetKey(c) PROVE verified'[p] \subseteq verified[p]
  BY <1>0, <1>5 DEF ForgetKey
<1>6. CASE UNCHANGED verified
  BY <1>1, <1>6
<1> QED
  BY <1>1, <1>2, <1>3, <1>4, <1>5, <1>6
  DEF UsersNext, StartCreateUser, LockUserQuota, InsertUser, StartCreateKey, ChooseOwner,
      StoreKey, RevokeKey, KeyUserAndTouch, FindUser, CompleteLogin, StoreSession,
      ValidateSession, TouchSession, EndCall, SetMaxUsers, CleanupKeys, CleanupSessions,
      LogoutUser, DeactivateUser, Expire, userVars

\* Verifications, however they interleave, leave at most VerifiedMax keys in a
\* process's cache; only the creation of a key goes beyond it, by that key.
THEOREM CacheOfKeysBounded == UsersSpec => VerifiedKeysBounded
<1>1. CachesInv /\ [UsersNext]_userVars => CachesInv'
  BY CallStep, CachesStep DEF CachesInv
<1>2. CachesInv /\ [UsersNext]_userVars => [\A p \in Processes : CacheMove(p)]_userVars
  BY CachesStep
<1> QED
  BY <1>1, <1>2, CachesInit, PTL DEF UsersSpec, VerifiedKeysBounded, CacheMove
=============================================================================
