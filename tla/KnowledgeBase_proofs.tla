------------------------ MODULE KnowledgeBase_proofs ------------------------
(***************************************************************************)
(* Proofs about KnowledgeBase, for any tenants, questions, documents,      *)
(* concurrent queries, similarity relation and sizes.                      *)
(***************************************************************************)
EXTENDS KnowledgeBase, FiniteSetTheorems, TLAPS

USE KnowledgeBaseAssumption

-----------------------------------------------------------------------------
(* Types *)

\* A query that does nothing is a query.
LEMMA IdleType == Idle \in Request
  BY DEF Idle, Request, Steps, Scopes

\* Advancing a query keeps the others, and its scope, question and what it found.
LEMMA GotoType ==
  ASSUME TypeOK, NEW r \in Requests, NEW step \in Steps, Goto(r, step)
  PROVE  /\ request' \in [Requests -> Request]
         /\ request'[r].step = step
         /\ \A q \in Requests :
              /\ request'[q].basis = request[q].basis
              /\ request'[q].filling = request[q].filling
              /\ request'[q].scope = request[q].scope
              /\ q # r => request'[q] = request[q]
  BY DEF TypeOK, Goto, Request

\* A query that takes a context keeps its scope and its question, and what it found to
\* fill an index with.
LEMMA TakeType ==
  ASSUME TypeOK, NEW r \in Requests, NEW step \in Steps, NEW basis \in SUBSET Chunks,
         Take(r, step, basis)
  PROVE  /\ request' \in [Requests -> Request]
         /\ request'[r].step = step /\ request'[r].basis = basis
         /\ request'[r].scope = request[r].scope
         /\ request'[r].filling = request[r].filling
         /\ \A q \in Requests : q # r => request'[q] = request[q]
  BY DEF TypeOK, Request, Take

\* So does one that finds more, by which it loses nothing.
LEMMA FindMoreType ==
  ASSUME TypeOK, NEW r \in Requests, NEW steps \in SUBSET Steps, NEW there \in SUBSET Chunks,
         FindMore(r, steps, there)
  PROVE  /\ request' \in [Requests -> Request]
         /\ request'[r].step \in steps
         /\ request'[r].basis \subseteq request[r].basis \cup there
         /\ request'[r].scope = request[r].scope
         /\ request'[r].filling = request[r].filling
         /\ \A q \in Requests : q # r => request'[q] = request[q]
<1>1. PICK found \in SUBSET there, step \in steps : Take(r, step, request[r].basis \cup found)
  BY DEF FindMore
<1>2. request[r].basis \cup found \in SUBSET Chunks
  BY DEF TypeOK, Request
<1> QED BY <1>1, <1>2, TakeType

\* And one that searches its store to fill its index.
LEMMA FillSearchType ==
  ASSUME TypeOK, NEW r \in Requests, FillSearch(r)
  PROVE  /\ request' \in [Requests -> Request]
         /\ request'[r].step = "index"
         /\ request'[r].basis = request[r].basis
         /\ request'[r].scope = request[r].scope
         /\ request'[r].filling \subseteq store[request[r].scope]
         /\ \A q \in Requests : q # r => request'[q] = request[q]
<1>1. PICK found \in SUBSET store[request[r].scope] :
        request' = [request EXCEPT ![r] = [request[r] EXCEPT !.step = "index", !.filling = found]]
  BY DEF FillSearch, StoreOf
<1>2. request[r] \in Request /\ found \in SUBSET Chunks
  BY DEF TypeOK, Request
<1>3. [request[r] EXCEPT !.step = "index", !.filling = found] \in Request
  BY <1>2 DEF Request, Steps
<1> QED BY <1>1, <1>2, <1>3 DEF TypeOK, Request

\* Its index then gains what it found, which the query holds no more.
LEMMA AddToIndexType ==
  ASSUME TypeOK, NEW r \in Requests, AddToIndex(r)
  PROVE  /\ request' \in [Requests -> Request]
         /\ request'[r].step \in AfterSearch
         /\ request'[r].basis \subseteq request[r].basis \cup keyword'[request[r].scope]
         /\ request'[r].scope = request[r].scope
         /\ request'[r].filling = {}
         /\ \A q \in Requests : q # r => request'[q] = request[q]
         /\ keyword' \in [Scopes -> SUBSET Chunks]
         /\ \A s \in Scopes : keyword'[s] = IF s = request[r].scope
                                            THEN keyword[s] \cup request[r].filling
                                            ELSE keyword[s]
<1> DEFINE index == keyword[request[r].scope] \cup request[r].filling
<1>1. request[r] \in Request /\ request[r].scope \in Scopes /\ index \in SUBSET Chunks
  BY DEF TypeOK, Request
<1>2. keyword' = [keyword EXCEPT ![request[r].scope] = index]
  BY DEF AddToIndex
<1>3. /\ keyword' \in [Scopes -> SUBSET Chunks]
      /\ keyword'[request[r].scope] = index
      /\ \A s \in Scopes : s # request[r].scope => keyword'[s] = keyword[s]
  BY <1>1, <1>2 DEF TypeOK
<1>4. PICK found \in SUBSET index, step \in AfterSearch :
        request' = [request EXCEPT ![r].step = step, ![r].filling = {},
                                   ![r].basis = @ \cup found]
  BY DEF AddToIndex
<1>5. step \in Steps /\ request[r].basis \cup found \in SUBSET Chunks
  BY <1>1, <1>4 DEF AfterSearch, Steps, Request
<1>6. /\ request' \in [Requests -> Request]
      /\ request'[r].step = step /\ request'[r].filling = {}
      /\ request'[r].basis = request[r].basis \cup found
      /\ request'[r].scope = request[r].scope
      /\ \A q \in Requests : q # r => request'[q] = request[q]
  BY <1>1, <1>4, <1>5 DEF TypeOK, Request
<1> QED BY <1>1, <1>3, <1>4, <1>6

\* A reranker keeps what it returned of what the query found, in place of an older result.
LEMMA RerankStoreType ==
  ASSUME TypeOK, NEW r \in Requests, RerankStore(r)
  PROVE  /\ request' \in [Requests -> Request]
         /\ request'[r].step = "generate"
         /\ request'[r].basis \subseteq request[r].basis
         /\ request'[r].scope = request[r].scope
         /\ request'[r].filling = request[r].filling
         /\ \A q \in Requests : q # r => request'[q] = request[q]
         /\ reranked' \in [Scopes -> SUBSET Result]
         /\ \A s \in Scopes : s # request[r].scope => reranked'[s] = reranked[s]
         /\ \A result \in reranked'[request[r].scope] :
              \/ result \in reranked[request[r].scope]
              \/ /\ result.basis \subseteq request[r].basis
                 /\ result.late = (r \in late \cup recalled)
<1> DEFINE s == request[r].scope
           Kept(best) == [question |-> request[r].question,
                          number |-> Cardinality(request[r].basis),
                          basis |-> best, late |-> r \in late \cup recalled]
<1>1. request[r] \in Request /\ s \in Scopes /\ request[r].basis \in SUBSET Chunks
  BY DEF TypeOK, Request
<1>2. PICK best \in SUBSET request[r].basis, room \in RerankRooms(reranked[s]) :
        /\ reranked' = [reranked EXCEPT ![s] = {e \in room : ~IsFor(e, r)} \cup {Kept(best)}]
        /\ \E context \in Contexts(best) : Take(r, "generate", context)
  BY DEF RerankStore
<1>3. Kept(best) \in Result
  <2>1. Cardinality(request[r].basis) \in Numbers
    BY <1>1 DEF Numbers
  <2>2. (r \in late \cup recalled) \in BOOLEAN
    OBVIOUS
  <2> QED BY <1>1, <1>2, <2>1, <2>2 DEF Result, Request
<1>4. Kept(best).basis = best /\ Kept(best).late = (r \in late \cup recalled)
  OBVIOUS
<1> HIDE DEF Kept
<1>5. room \subseteq reranked[s]
  BY <1>2 DEF RerankRooms
<1>6. reranked'[s] = {e \in room : ~IsFor(e, r)} \cup {Kept(best)}
  BY <1>1, <1>2 DEF TypeOK
<1>7. /\ reranked' \in [Scopes -> SUBSET Result]
      /\ \A t \in Scopes : t # s => reranked'[t] = reranked[t]
  BY <1>1, <1>2, <1>3, <1>5 DEF TypeOK
<1>8. PICK context \in SUBSET best : Take(r, "generate", context)
  BY <1>2 DEF Contexts
<1>9. context \in SUBSET Chunks /\ "generate" \in Steps
  BY <1>1, <1>2, <1>8 DEF Steps
<1>10. \A result \in reranked'[s] :
         \/ result \in reranked[s]
         \/ result.basis \subseteq request[r].basis /\ result.late = (r \in late \cup recalled)
  BY <1>2, <1>4, <1>5, <1>6
<1> QED BY <1>2, <1>7, <1>8, <1>9, <1>10, TakeType

\* What a reranker kept, it may give a query of its scope.
LEMMA RerankHitType ==
  ASSUME TypeOK, NEW r \in Requests, RerankHit(r)
  PROVE  /\ request' \in [Requests -> Request]
         /\ request'[r].step = "generate"
         /\ request'[r].scope = request[r].scope
         /\ request'[r].filling = request[r].filling
         /\ \A q \in Requests : q # r => request'[q] = request[q]
         /\ \E result \in reranked[request[r].scope] :
              /\ request'[r].basis \subseteq result.basis
              /\ recalled' = IF result.late THEN recalled \cup {r} ELSE recalled
<1>0. PICK result \in reranked[request[r].scope] :
        /\ \E context \in Contexts(result.basis) : Take(r, "generate", context)
        /\ recalled' = IF result.late THEN recalled \cup {r} ELSE recalled
  BY DEF RerankHit
<1>1. PICK context \in SUBSET result.basis : Take(r, "generate", context)
  BY <1>0 DEF Contexts
<1>2. context \in SUBSET Chunks
  <2>1. request[r].scope \in Scopes
    BY DEF TypeOK, Request
  <2>2. result \in Result
    BY <1>0, <2>1 DEF TypeOK
  <2> QED BY <1>1, <2>2 DEF Result
<1>3. "generate" \in Steps
  BY DEF Steps
<1> QED BY <1>0, <1>1, <1>2, <1>3, TakeType

\* What an entry was, it still is after others were removed.
LEMMA WithoutType ==
  ASSUME NEW keys
  PROVE  /\ DOMAIN Without(keys) = DOMAIN cache \ keys
         /\ \A k \in DOMAIN cache \ keys : Without(keys)[k] = cache[k]
  BY DEF Without

\* The entries of a cache, or of what is left of it.
Entries(entries) ==
  DOMAIN entries \subseteq Keys /\ \A k \in DOMAIN entries : entries[k] \in Entry

\* Removing entries keeps the types of the others.
LEMMA WithoutEntries ==
  ASSUME TypeOK, NEW keys
  PROVE  Entries(Without(keys))
<1>1. DOMAIN cache \subseteq Keys /\ \A k \in DOMAIN cache : cache[k] \in Entry
  BY DEF TypeOK
<1> QED BY <1>1, WithoutType DEF Entries

\* The initial state has the types.
LEMMA TypeInit == Init => TypeOK
  BY IdleType DEF Init, TypeOK

\* A result is one still when a reset has come after it.
LEMMA LateResultsType ==
  ASSUME TypeOK
  PROVE  /\ LateResults \in SUBSET Result
         /\ \A result \in LateResults :
              result.late /\ \E e \in reranked[Default] : result.basis = e.basis
         /\ \A e \in reranked[Default] : \E result \in LateResults : result.basis = e.basis
<1>1. reranked[Default] \in SUBSET Result
  BY DEF TypeOK, Scopes
<1>2. \A e \in Result : /\ [e EXCEPT !.late = TRUE] \in Result
                        /\ [e EXCEPT !.late = TRUE].late = TRUE
                        /\ [e EXCEPT !.late = TRUE].basis = e.basis
  BY DEF Result
<1>3. LateResults = {[e EXCEPT !.late = TRUE] : e \in reranked[Default]}
  BY DEF LateResults
<1> QED BY <1>1, <1>2, <1>3

\* The types of the rest stay when only the queries change.
LEMMA SharedType ==
  ASSUME TypeOK, UNCHANGED sharedVars, request' \in [Requests -> Request]
  PROVE  TypeOK'
  BY DEF TypeOK, sharedVars, keywordVars, historyVars

\* Every step of a query keeps the types.
LEMMA QueryType ==
  ASSUME TypeOK, NEW r \in Requests, Query(r)
  PROVE  TypeOK'
<1> USE DEF keywordVars, historyVars
<1>a. request[r] \in Request /\ request[r].scope \in Scopes
  BY DEF TypeOK, Request
<1>b. AfterSearch \subseteq Steps
  BY DEF AfterSearch, Steps
<1>1. ASSUME NEW s \in Scopes, NEW q \in Questions, Ask(r, s, q) PROVE TypeOK'
  <2>1. [request[r] EXCEPT !.step = "lookup", !.scope = s, !.question = q] \in Request
    BY <1>a DEF Request, Steps
  <2>2. request' \in [Requests -> Request]
    BY <1>1, <2>1 DEF Ask, TypeOK
  <2> QED BY <1>1, <2>2, SharedType DEF Ask
<1>2. CASE LookUp(r)
  <2>1. request' \in [Requests -> Request]
    BY <1>2, GotoType DEF LookUp, Steps
  <2>2. Entries(cache')
    BY <1>2, WithoutEntries DEF LookUp, Unexpired
  <2> QED BY <1>2, <2>1, <2>2 DEF LookUp, TypeOK, Entries
<1>3. CASE Hit(r)
  <2>1. PICK k \in Matches(request[r].scope, request[r].question) :
          Take(r, "reply", cache[k].basis)
    BY <1>3 DEF Hit
  <2>2. k \in DOMAIN cache
    BY <2>1 DEF Matches
  <2>3. cache[k].basis \in SUBSET Chunks
    BY <2>2 DEF TypeOK, Entry
  <2>4. request' \in [Requests -> Request]
    BY <2>1, <2>3, TakeType DEF Steps
  <2> QED BY <1>3, <2>4, SharedType DEF Hit
<1>4. CASE Miss(r) \/ BeginFill(r) \/ RerankMiss(r) \/ Generate(r) \/ CacheFails(r)
  <2>1. PICK step \in Steps : Goto(r, step)
    BY <1>4 DEF Miss, BeginFill, RerankMiss, Generate, CacheFails, Steps
  <2>2. request' \in [Requests -> Request]
    BY <2>1, GotoType
  <2> QED
    BY <1>4, <2>2, SharedType DEF Miss, BeginFill, RerankMiss, Generate, CacheFails
<1>5. CASE Retrieve(r)
  <2>1. request' \in [Requests -> Request]
    <3>1. PICK steps \in SUBSET Steps : FindMore(r, steps, store[request[r].scope])
      BY <1>5, <1>b DEF Retrieve, StoreOf, Steps
    <3> QED BY <1>a, <3>1, FindMoreType DEF TypeOK
  <2> QED BY <1>5, <2>1 DEF Retrieve, Open, TypeOK
<1>6. CASE KeywordSearch(r)
  <2>1. request' \in [Requests -> Request]
    BY <1>6, <1>a, <1>b, FindMoreType DEF KeywordSearch, TypeOK
  <2> QED BY <1>6, <2>1, SharedType DEF KeywordSearch
<1>7. CASE FillSearch(r)
  BY <1>7, FillSearchType, SharedType DEF FillSearch
<1>8. CASE AddToIndex(r)
  BY <1>8, AddToIndexType DEF AddToIndex, TypeOK
<1>9. CASE IndexingFails(r)
  <2>1. request' \in [Requests -> Request]
    BY <1>9, <1>a, <1>b, FindMoreType DEF IndexingFails, TypeOK
  <2>2. unindexed' \in SUBSET Scopes
    BY <1>9, <1>a DEF IndexingFails, TypeOK
  <2> QED BY <1>9, <2>1, <2>2 DEF IndexingFails, TypeOK
<1>10. CASE Rank(r)
  <2>1. PICK context \in SUBSET request[r].basis : Take(r, "generate", context)
    BY <1>10 DEF Rank, Contexts
  <2>2. context \in SUBSET Chunks /\ "generate" \in Steps
    BY <1>a, <2>1 DEF Request, Steps
  <2> QED BY <1>10, <2>1, <2>2, TakeType, SharedType DEF Rank
<1>11. CASE RerankHit(r)
  BY <1>11, RerankHitType DEF RerankHit, TypeOK
<1>12. CASE RerankStore(r)
  BY <1>12, RerankStoreType DEF RerankStore, TypeOK
<1>13. CASE CacheAnswer(r)
  <2>1. request' \in [Requests -> Request]
    BY <1>13, GotoType DEF CacheAnswer, Steps
  <2> DEFINE key == <<request[r].scope, request[r].question>>
             entry == [basis |-> request[r].basis, expired |-> FALSE,
                       late |-> r \in late \cup recalled]
  <2>2. PICK room \in Rooms :
          cache' = [k \in DOMAIN room \cup {key} |-> IF k = key THEN entry ELSE room[k]]
    BY <1>13 DEF CacheAnswer
  <2>3. key \in Keys /\ entry \in Entry
    <3>1. (r \in late \cup recalled) \in BOOLEAN
      OBVIOUS
    <3> QED BY <1>a, <3>1 DEF Request, Entry, Keys
  <2> HIDE DEF key, entry
  <2>4. Entries(room)
    <3>1. CASE room = cache
      BY <3>1 DEF TypeOK, Entries
    <3>2. CASE \E k \in DOMAIN cache : room = Without({k})
      BY <3>2, WithoutEntries
    <3> QED BY <2>2, <3>1, <3>2 DEF Rooms
  <2>5. Entries(cache')
    BY <2>2, <2>3, <2>4 DEF Entries
  <2> QED BY <1>13, <2>1, <2>5 DEF CacheAnswer, TypeOK, Entries
<1>14. CASE Fail(r)
  <2>1. [request[r] EXCEPT !.step = "reply", !.basis = {}, !.filling = {}] \in Request
    BY <1>a DEF Request, Steps
  <2>2. request' \in [Requests -> Request]
    BY <1>14, <2>1 DEF Fail, TypeOK
  <2> QED BY <1>14, <2>2, SharedType DEF Fail
<1>15. CASE Reply(r)
  BY <1>15, IdleType DEF Reply, TypeOK
<1> QED
  BY <1>1, <1>2, <1>3, <1>4, <1>5, <1>6, <1>7, <1>8, <1>9, <1>10, <1>11, <1>12, <1>13, <1>14,
     <1>15
  DEF Query

\* Every step keeps the types.
LEMMA TypeStep == TypeOK /\ [Next]_vars => TypeOK'
<1> SUFFICES ASSUME TypeOK, [Next]_vars PROVE TypeOK'
  OBVIOUS
<1> USE DEF Scopes, Keys, keywordVars, historyVars
<1>1. ASSUME NEW r \in Requests, Query(r) PROVE TypeOK'
  BY <1>1, QueryType
<1>2. ASSUME NEW s \in Scopes, NEW d \in Documents, Ingest(s, d) PROVE TypeOK'
  <2>1. store' \in [Scopes -> SUBSET Chunks]
    <3>1. <<s, d>> \in Chunks
      BY DEF Chunks
    <3>2. store' = [store EXCEPT ![s] = store[s] \cup {<<s, d>>}]
      BY <1>2 DEF Ingest, StoreOf
    <3> QED BY <3>1, <3>2 DEF TypeOK
  <2> QED BY <1>2, <2>1 DEF Ingest, Open, TypeOK
<1>3. ASSUME Reset PROVE TypeOK'
  <2>1. ASSUME NEW s \in Scopes, ResetUnsupported(s) PROVE TypeOK'
    BY <2>1 DEF ResetUnsupported, Open, TypeOK
  <2>2. CASE ResetStore
    BY <2>2, LateResultsType DEF ResetStore, EmptyStore, Retrieved, TypeOK
  <2>3. CASE ResetFails
    BY <2>3, LateResultsType DEF ResetFails, EmptyStore, Retrieved, TypeOK
  <2>4. CASE ResetCaches
    <3>1. Entries(cache')
      BY <2>4, WithoutEntries DEF ResetCaches
    <3> QED BY <2>4, <3>1 DEF ResetCaches, TypeOK, Entries
  <2> QED BY <1>3, <2>1, <2>2, <2>3, <2>4 DEF Reset
<1>4. ASSUME NEW k \in DOMAIN cache, Age(k) PROVE TypeOK'
  <2>1. DOMAIN cache' = DOMAIN cache
    BY <1>4 DEF Age
  <2>2. \A j \in DOMAIN cache : cache'[j] \in Entry
    BY <1>4 DEF Age, TypeOK, Entry
  <2> QED BY <1>4, <2>1, <2>2 DEF Age, TypeOK
<1>5. ASSUME CleanUp PROVE TypeOK'
  <2>1. Entries(cache')
    BY <1>5, WithoutEntries DEF CleanUp, Unexpired
  <2> QED BY <1>5, <2>1 DEF CleanUp, TypeOK, Entries
<1>6. ASSUME UNCHANGED vars PROVE TypeOK'
  BY <1>6, SharedType DEF vars, TypeOK
<1> QED BY <1>1, <1>2, <1>3, <1>4, <1>5, <1>6 DEF Next

\* Stores, cache and queries keep their shape in every reachable state.
THEOREM TypeCorrect == Spec => []TypeOK
  BY TypeInit, TypeStep, PTL DEF Spec

-----------------------------------------------------------------------------
(* The cache keeps its size *)

\* With the bound goes that the cache is finite, which its cardinality needs.
Bounded == IsFiniteSet(DOMAIN cache) /\ CacheBounded

\* Removing entries keeps the bound.
LEMMA WithoutBounded ==
  ASSUME Bounded, NEW keys, cache' = Without(keys)
  PROVE  Bounded'
<1>1. DOMAIN cache' \subseteq DOMAIN cache
  BY WithoutType
<1>2. /\ IsFiniteSet(DOMAIN cache')
      /\ Cardinality(DOMAIN cache') <= Cardinality(DOMAIN cache)
      /\ Cardinality(DOMAIN cache) \in Nat /\ Cardinality(DOMAIN cache') \in Nat
  BY <1>1, FS_Subset, FS_CardinalityType DEF Bounded
<1> QED BY <1>2 DEF Bounded, CacheBounded

\* What an entry is put into has room for it.
LEMMA RoomForOne ==
  ASSUME Bounded, NEW room \in Rooms
  PROVE  /\ IsFiniteSet(DOMAIN room)
         /\ Cardinality(DOMAIN room) \in Nat
         /\ Cardinality(DOMAIN room) < MaxSize
<1>1. IsFiniteSet(DOMAIN cache) /\ Cardinality(DOMAIN cache) \in Nat
  BY FS_CardinalityType DEF Bounded
<1>2. CASE Cardinality(DOMAIN cache) < MaxSize
  BY <1>1, <1>2 DEF Rooms
<1>3. CASE ~(Cardinality(DOMAIN cache) < MaxSize)
  <2>1. PICK k \in DOMAIN cache : room = Without({k})
    BY <1>3 DEF Rooms
  <2>2. DOMAIN room = DOMAIN cache \ {k}
    BY <2>1, WithoutType
  <2>3. IsFiniteSet(DOMAIN room) /\ Cardinality(DOMAIN room) = Cardinality(DOMAIN cache) - 1
    BY <1>1, <2>2, FS_RemoveElement
  <2>4. Cardinality(DOMAIN room) \in Nat
    BY <2>3, FS_CardinalityType
  <2> QED BY <1>1, <2>3, <2>4 DEF Bounded, CacheBounded
<1> QED BY <1>2, <1>3

\* Every step keeps the bound; only the actions named touch the cache.
LEMMA BoundedStep == Bounded /\ [Next]_vars => Bounded'
<1> SUFFICES ASSUME Bounded, [Next]_vars PROVE Bounded'
  OBVIOUS
<1>a. ASSUME UNCHANGED cache PROVE Bounded'
  BY <1>a DEF Bounded, CacheBounded
<1>1. ASSUME NEW r \in Requests, Query(r) PROVE Bounded'
  <2>1. CASE LookUp(r)
    BY <2>1, WithoutBounded DEF LookUp, Unexpired
  <2>2. CASE CacheAnswer(r)
    <3>1. PICK room \in Rooms :
            DOMAIN cache' = DOMAIN room \cup {<<request[r].scope, request[r].question>>}
      BY <2>2 DEF CacheAnswer
    <3>2. /\ IsFiniteSet(DOMAIN cache')
          /\ Cardinality(DOMAIN cache') \in {Cardinality(DOMAIN room),
                                            Cardinality(DOMAIN room) + 1}
      <4> DEFINE key == <<request[r].scope, request[r].question>>
      <4>1. IsFiniteSet(DOMAIN room)
        BY RoomForOne
      <4>2. DOMAIN cache' = DOMAIN room \cup {key}
        BY <3>1
      <4> HIDE DEF key
      <4>3. /\ IsFiniteSet(DOMAIN room \cup {key})
            /\ Cardinality(DOMAIN room \cup {key})
                 = IF key \in DOMAIN room THEN Cardinality(DOMAIN room)
                   ELSE Cardinality(DOMAIN room) + 1
        BY <4>1, FS_AddElement, Zenon
      <4> QED BY <4>2, <4>3
    <3> QED BY <3>2, RoomForOne DEF Bounded, CacheBounded
  <2>3. CASE ~LookUp(r) /\ ~CacheAnswer(r)
    BY <1>1, <1>a, <2>3
    DEF Query, sharedVars, Ask, Hit, Miss, Retrieve, KeywordSearch, BeginFill, FillSearch,
        AddToIndex, IndexingFails, Rank, RerankHit, RerankMiss, RerankStore, Generate,
        CacheFails, Fail, Reply
  <2> QED BY <2>1, <2>2, <2>3
<1>2. ASSUME Reset PROVE Bounded'
  <2>1. CASE ResetCaches
    BY <2>1, WithoutBounded DEF ResetCaches
  <2> QED
    BY <1>2, <1>a, <2>1 DEF Reset, ResetUnsupported, ResetStore, ResetFails
<1>3. ASSUME NEW k \in DOMAIN cache, Age(k) PROVE Bounded'
  <2>1. DOMAIN cache' = DOMAIN cache
    BY <1>3 DEF Age
  <2> QED BY <2>1 DEF Bounded, CacheBounded
<1>4. ASSUME CleanUp PROVE Bounded'
  BY <1>4, WithoutBounded DEF CleanUp, Unexpired
<1> QED
  BY <1>1, <1>2, <1>3, <1>4, <1>a DEF Next, Ingest, vars, sharedVars

\* Queries that cache answers at the same time never fill the semantic cache
\* beyond max_size, since eviction and insertion are not separated by an await.
THEOREM CacheKeepsItsSize == Spec => []CacheBounded
<1>1. Init => Bounded
  <2> SUFFICES ASSUME Init PROVE Bounded
    OBVIOUS
  <2>1. DOMAIN cache = {}
    BY DEF Init
  <2> QED BY <2>1, FS_EmptySet DEF Bounded, CacheBounded
<1>2. Bounded => CacheBounded
  BY DEF Bounded
<1> QED BY <1>1, <1>2, BoundedStep, PTL DEF Spec

-----------------------------------------------------------------------------
(* Nothing crosses scopes, and what is stale was made so by the named race *)

\* A query that has not searched has no context, and what it finds to fill an index
\* with it holds until it puts it there.
NothingHeldYet ==
  \A r \in Requests :
    /\ request[r].step \in {"idle", "lookup", "match"} => request[r].basis = {}
    /\ request[r].step # "index" => request[r].filling = {}

\* The invariant of both: they are inductive once the types are known.
KnowledgeInv ==
  /\ TypeOK /\ NothingHeldYet /\ TenantIsolation
  /\ StaleOnlyByRace /\ ContextStored /\ ResultStored /\ IndexStored

\* A new directory of stores, an empty cache, idle queries.
LEMMA KnowledgeInit == Init => KnowledgeInv
<1> SUFFICES ASSUME Init PROVE KnowledgeInv
  OBVIOUS
<1>1. \A r \in Requests :
        request[r].basis = {} /\ request[r].filling = {} /\ request[r].step = "idle"
  BY DEF Init, Idle
<1>2. /\ DOMAIN cache = {}
      /\ \A s \in Scopes : store[s] = {} /\ keyword[s] = {} /\ reranked[s] = {}
  BY DEF Init
<1> QED
  BY <1>1, <1>2, TypeInit
  DEF Scopes, KnowledgeInv, NothingHeldYet, TenantIsolation, StaleOnlyByRace, ContextStored,
      ResultStored, IndexStored, Findable

\* Removing entries while nothing else changes keeps the invariant.
LEMMA RemovalKeeps ==
  ASSUME KnowledgeInv, NEW keys, cache' = Without(keys),
         UNCHANGED <<store, keyword, reranked, resetting, late, recalled>>, TypeOK',
         \A q \in Requests : /\ request'[q].basis = request[q].basis
                             /\ request'[q].filling = request[q].filling
                             /\ request'[q].scope = request[q].scope
                             /\ \/ request'[q].step = request[q].step
                                \/ request[q].step = "lookup" /\ request'[q].step = "match"
  PROVE  KnowledgeInv'
<1>1. /\ DOMAIN cache' \subseteq DOMAIN cache
      /\ \A k \in DOMAIN cache' : cache'[k] = cache[k]
  BY DEF Without
<1>2. TenantIsolation'
  BY <1>1 DEF KnowledgeInv, TenantIsolation
<1>3. StaleOnlyByRace'
  BY <1>1 DEF KnowledgeInv, StaleOnlyByRace, Findable
<1>4. ContextStored' /\ NothingHeldYet' /\ IndexStored' /\ ResultStored'
  BY DEF KnowledgeInv, ContextStored, NothingHeldYet, IndexStored, ResultStored, Findable
<1> QED BY <1>2, <1>3, <1>4 DEF KnowledgeInv

\* A query that moves on keeps the invariant if what it holds, and what its retriever
\* learns from it, is of its own scope and can be found.
LEMMA MoveKeeps ==
  ASSUME KnowledgeInv, UNCHANGED <<store, cache, resetting>>, TypeOK', NEW r \in Requests,
         \A q \in Requests :
           q # r => /\ request'[q] = request[q]
                    /\ q \in late' <=> q \in late
                    /\ q \in recalled' <=> q \in recalled,
         request'[r].basis \cup request'[r].filling \subseteq Of(request'[r].scope),
         request'[r].step \in {"idle", "lookup", "match"} => request'[r].basis = {},
         request'[r].step # "index" => request'[r].filling = {},
         request'[r].scope \in Tenants => request'[r].filling \subseteq store[request'[r].scope],
         \/ request'[r].step = "reply"
         \/ r \in late' \cup recalled'
         \/ request'[r].basis \subseteq store[request'[r].scope] \cup keyword'[request'[r].scope],
         \A s \in Scopes : /\ keyword[s] \subseteq keyword'[s]
                           /\ keyword'[s] \subseteq Of(s)
                           /\ s \in Tenants => keyword'[s] \subseteq store[s],
         \A s \in Scopes : \A result \in reranked'[s] :
           \/ result \in reranked[s]
           \/ /\ result.basis \subseteq Of(s)
              /\ result.late \/ result.basis \subseteq Findable(s)
  PROVE  KnowledgeInv'
<1> USE DEF KnowledgeInv
<1>a. \A s \in Scopes : Findable(s) \subseteq Findable(s)'
  BY DEF Findable
<1>1. TenantIsolation'
  BY DEF TenantIsolation
<1>2. StaleOnlyByRace'
  <2> SUFFICES ASSUME resetting = "no", NEW k \in DOMAIN cache, ~cache[k].late
               PROVE  cache[k].basis \subseteq Findable(k[1])'
    BY DEF StaleOnlyByRace
  <2>1. k[1] \in Scopes
    BY DEF TypeOK, Keys
  <2> QED BY <1>a, <2>1 DEF StaleOnlyByRace
<1>3. ContextStored'
  <2> SUFFICES ASSUME NEW q \in Requests, request'[q].step # "reply",
                      q \notin late' \cup recalled'
               PROVE  request'[q].basis \subseteq Findable(request[q].scope)'
    BY DEF ContextStored
  <2>1. request'[q].scope \in Scopes
    BY DEF TypeOK, Request
  <2>2. Findable(request[q].scope)' = store[request'[q].scope] \cup keyword'[request'[q].scope]
    BY DEF Findable
  <2>3. CASE q = r
    BY <2>2, <2>3
  <2>4. CASE q # r
    <3>1. request'[q].basis \subseteq Findable(request'[q].scope)
      BY <2>4 DEF ContextStored
    <3> QED BY <2>1, <2>2, <3>1 DEF Findable
  <2> QED BY <2>3, <2>4
<1>4. NothingHeldYet'
  BY DEF NothingHeldYet
<1>5. IndexStored'
  BY DEF IndexStored, Scopes
<1>6. ResultStored'
  <2> SUFFICES ASSUME NEW s \in Scopes, NEW result \in reranked'[s], ~result.late
               PROVE  result.basis \subseteq Findable(s)'
    BY DEF ResultStored
  <2>1. result.basis \subseteq Findable(s)
    BY DEF ResultStored
  <2> QED BY <1>a, <2>1
<1> QED BY <1>1, <1>2, <1>3, <1>4, <1>5, <1>6

\* Only the query moves, and fills no index.
LEMMA MoveAloneKeeps ==
  ASSUME KnowledgeInv, UNCHANGED <<store, keyword, reranked, cache, resetting>>, TypeOK',
         NEW r \in Requests,
         \A q \in Requests :
           q # r => /\ request'[q] = request[q]
                    /\ q \in late' <=> q \in late
                    /\ q \in recalled' <=> q \in recalled,
         request'[r].basis \subseteq Of(request'[r].scope), request'[r].filling = {},
         request'[r].step \in {"idle", "lookup", "match"} => request'[r].basis = {},
         \/ request'[r].step = "reply"
         \/ r \in late' \cup recalled'
         \/ request'[r].basis \subseteq Findable(request'[r].scope)
  PROVE  KnowledgeInv'
<1>1. \A s \in Scopes : keyword[s] \subseteq Of(s) /\ (s \in Tenants => keyword[s] \subseteq store[s])
  BY DEF KnowledgeInv, TenantIsolation, IndexStored
<1> QED BY <1>1, MoveKeeps DEF Findable

\* The steps of a query keep the invariant.
LEMMA QueryKeeps ==
  ASSUME KnowledgeInv, TypeOK', NEW r \in Requests, Query(r)
  PROVE  KnowledgeInv'
<1> USE DEF KnowledgeInv, keywordVars, historyVars, sharedVars
<1> DEFINE s == request[r].scope
<1>a. request[r] \in Request /\ s \in Scopes
  BY DEF TypeOK, Request
<1>b. request[r].basis \subseteq Of(s)
  BY DEF TenantIsolation
<1>c. request[r].step # "index" => request[r].filling = {}
  BY DEF NothingHeldYet
<1>d. /\ store[s] \in SUBSET Chunks /\ keyword[s] \in SUBSET Chunks
      /\ store[s] \subseteq Of(s) /\ keyword[s] \subseteq Of(s)
  BY <1>a DEF TypeOK, TenantIsolation
<1>e. \/ request[r].step = "reply" \/ r \in late \cup recalled
      \/ request[r].basis \subseteq Findable(s)
  BY DEF ContextStored
<1> HIDE DEF s
<1>1. ASSUME NEW t \in Scopes, NEW q \in Questions, Ask(r, t, q) PROVE KnowledgeInv'
  <2>1. request[r].basis = {}
    BY <1>1 DEF Ask, NothingHeldYet
  <2>2. /\ request'[r].step = "lookup" /\ request'[r].basis = {}
        /\ request'[r].filling = request[r].filling
        /\ \A p \in Requests : p # r => request'[p] = request[p]
    BY <1>1, <1>a, <2>1 DEF Ask, TypeOK, Request
  <2> QED BY <1>1, <1>c, <2>2, MoveAloneKeeps DEF Ask
<1>2. CASE LookUp(r)
  <2>1. /\ cache' = Without({k \in DOMAIN cache : cache[k].expired})
        /\ UNCHANGED <<store, keyword, reranked, resetting, late, recalled>>
    BY <1>2 DEF LookUp, Unexpired
  <2>2. \A q \in Requests : /\ request'[q].basis = request[q].basis
                            /\ request'[q].filling = request[q].filling
                            /\ request'[q].scope = request[q].scope
                            /\ \/ request'[q].step = request[q].step
                               \/ request[q].step = "lookup" /\ request'[q].step = "match"
    BY <1>2, GotoType DEF LookUp, Steps
  <2> QED BY <2>1, <2>2, RemovalKeeps
<1>3. CASE Hit(r)
  <2>1. PICK k \in Matches(s, request[r].question) : Take(r, "reply", cache[k].basis)
    BY <1>3 DEF Hit, s
  <2>2. k \in DOMAIN cache /\ k[1] = s
    BY <2>1 DEF Matches
  <2>3. cache[k].basis \in SUBSET Chunks /\ cache[k].basis \subseteq Of(s)
    BY <2>2 DEF TypeOK, Entry, TenantIsolation
  <2>4. /\ request'[r].step = "reply" /\ request'[r].basis = cache[k].basis
        /\ request'[r].scope = s /\ request'[r].filling = request[r].filling
        /\ \A q \in Requests : q # r => request'[q] = request[q]
    BY <2>1, <2>3, TakeType DEF Steps, s
  <2> QED BY <1>3, <1>c, <2>3, <2>4, MoveAloneKeeps DEF Hit
<1>4. CASE Miss(r) \/ BeginFill(r) \/ RerankMiss(r) \/ Generate(r) \/ CacheFails(r)
  <2>1. PICK step \in {"retrieve", "fill", "rerank", "cache", "reply"} :
          Goto(r, step) /\ request[r].step \notin {"reply", "index"}
    BY <1>4 DEF Miss, BeginFill, RerankMiss, Reranks, Generate, CacheFails
  <2>2. /\ request'[r].step = step
        /\ request'[r].basis = request[r].basis /\ request'[r].scope = s
        /\ request'[r].filling = request[r].filling
        /\ \A q \in Requests : q # r => request'[q] = request[q]
    BY <2>1, GotoType DEF Steps, s
  <2>3. UNCHANGED sharedVars
    BY <1>4 DEF Miss, BeginFill, RerankMiss, Generate, CacheFails
  <2> QED BY <1>b, <1>c, <1>e, <2>1, <2>2, <2>3, MoveAloneKeeps
<1>5. CASE Retrieve(r)
  <2>1. PICK steps \in SUBSET {"keyword", "retrieve", "rank"} : FindMore(r, steps, store[s])
    BY <1>5 DEF Retrieve, StoreOf, AfterSearch, s
  <2>2. /\ request'[r].step \in steps
        /\ request'[r].basis \subseteq request[r].basis \cup store[s]
        /\ request'[r].scope = s /\ request'[r].filling = request[r].filling
        /\ \A q \in Requests : q # r => request'[q] = request[q]
    BY <1>d, <2>1, FindMoreType DEF Steps, s
  <2>3. request[r].step = "retrieve"
    BY <1>5 DEF Retrieve
  <2>4. UNCHANGED <<store, keyword, reranked, cache, resetting, late, recalled>>
    BY <1>5 DEF Retrieve
  <2> QED BY <1>b, <1>c, <1>d, <1>e, <2>1, <2>2, <2>3, <2>4, MoveAloneKeeps DEF Findable
<1>6. CASE KeywordSearch(r) \/ IndexingFails(r)
  <2>1. FindMore(r, AfterSearch, keyword[s]) /\ request[r].step \in {"keyword", "fill"}
    BY <1>6 DEF KeywordSearch, IndexingFails, s
  <2>2. /\ request'[r].step \in {"retrieve", "rank"}
        /\ request'[r].basis \subseteq request[r].basis \cup keyword[s]
        /\ request'[r].scope = s /\ request'[r].filling = request[r].filling
        /\ \A q \in Requests : q # r => request'[q] = request[q]
    BY <1>d, <2>1, FindMoreType DEF AfterSearch, Steps, s
  <2>3. UNCHANGED <<store, keyword, reranked, cache, resetting, late, recalled>>
    BY <1>6 DEF KeywordSearch, IndexingFails
  <2> QED BY <1>b, <1>c, <1>d, <1>e, <2>1, <2>2, <2>3, MoveAloneKeeps DEF Findable
<1>7. CASE FillSearch(r)
  <2>1. /\ request'[r].step = "index" /\ request'[r].basis = request[r].basis
        /\ request'[r].scope = s /\ request'[r].filling \subseteq store[s]
        /\ \A q \in Requests : q # r => request'[q] = request[q]
    BY <1>7, FillSearchType DEF s
  <2>2. UNCHANGED sharedVars /\ request[r].step = "fill"
    BY <1>7 DEF FillSearch
  <2>3. \A t \in Scopes : /\ keyword[t] \subseteq Of(t)
                          /\ t \in Tenants => keyword[t] \subseteq store[t]
    BY DEF TenantIsolation, IndexStored
  <2> QED BY <1>b, <1>d, <1>e, <2>1, <2>2, <2>3, MoveKeeps DEF Findable
<1>8. CASE AddToIndex(r)
  <2>1. /\ request'[r].step \in {"retrieve", "rank"}
        /\ request'[r].basis \subseteq request[r].basis \cup keyword'[s]
        /\ request'[r].scope = s /\ request'[r].filling = {}
        /\ \A q \in Requests : q # r => request'[q] = request[q]
    BY <1>8, AddToIndexType DEF AfterSearch, s
  <2>2. \A t \in Scopes : keyword'[t] = IF t = s THEN keyword[t] \cup request[r].filling
                                        ELSE keyword[t]
    BY <1>8, AddToIndexType DEF s
  <2>3. UNCHANGED <<store, reranked, cache, resetting, late, recalled>>
    BY <1>8 DEF AddToIndex
  <2>4. request[r].filling \subseteq Of(s)
    BY DEF TenantIsolation, s
  <2>5. s \in Tenants => request[r].filling \subseteq store[s]
    BY DEF IndexStored, s
  <2>6. \A t \in Scopes : /\ keyword[t] \subseteq keyword'[t]
                          /\ keyword'[t] \subseteq Of(t)
                          /\ t \in Tenants => keyword'[t] \subseteq store[t]
    BY <2>2, <2>4, <2>5 DEF TenantIsolation, IndexStored
  <2>7. request'[r].basis \subseteq Of(s)
    BY <1>a, <1>b, <2>1, <2>6
  <2>8. \/ r \in late \cup recalled
        \/ request'[r].basis \subseteq store[s] \cup keyword'[s]
    BY <1>8, <1>a, <1>e, <2>1, <2>6 DEF AddToIndex, Findable
  <2> QED BY <2>1, <2>3, <2>6, <2>7, <2>8, MoveKeeps
<1>9. CASE Rank(r)
  <2>1. PICK context \in SUBSET request[r].basis : Take(r, "generate", context)
    BY <1>9 DEF Rank, Contexts
  <2>2. context \in SUBSET Chunks
    BY <1>a, <2>1 DEF Request
  <2>3. /\ request'[r].step = "generate" /\ request'[r].basis \subseteq request[r].basis
        /\ request'[r].scope = s /\ request'[r].filling = request[r].filling
        /\ \A q \in Requests : q # r => request'[q] = request[q]
    BY <2>1, <2>2, TakeType DEF Steps, s
  <2>4. UNCHANGED sharedVars /\ request[r].step \in {"rank", "rerank"}
    BY <1>9 DEF Rank
  <2> QED BY <1>b, <1>c, <1>e, <2>3, <2>4, MoveAloneKeeps
<1>10. CASE RerankHit(r)
  <2>1. PICK result \in reranked[s] :
          /\ request'[r].basis \subseteq result.basis
          /\ recalled' = IF result.late THEN recalled \cup {r} ELSE recalled
    BY <1>10, RerankHitType DEF s
  <2>2. /\ request'[r].step = "generate"
        /\ request'[r].scope = s /\ request'[r].filling = request[r].filling
        /\ \A q \in Requests : q # r => request'[q] = request[q]
    BY <1>10, RerankHitType DEF s
  <2>3. UNCHANGED <<store, keyword, reranked, cache, resetting, late>> /\ request[r].step = "rank"
    BY <1>10 DEF RerankHit, Reranks
  <2>4. result.basis \subseteq Of(s) /\ (result.late \/ result.basis \subseteq Findable(s))
    BY <1>a DEF TenantIsolation, ResultStored
  <2> QED BY <1>c, <2>1, <2>2, <2>3, <2>4, MoveAloneKeeps
<1>11. CASE RerankStore(r)
  <2>1. /\ request'[r].step = "generate" /\ request'[r].basis \subseteq request[r].basis
        /\ request'[r].scope = s /\ request'[r].filling = request[r].filling
        /\ \A q \in Requests : q # r => request'[q] = request[q]
    BY <1>11, RerankStoreType DEF s
  <2>2. UNCHANGED <<store, keyword, cache, resetting, late, recalled>> /\ request[r].step = "rerank"
    BY <1>11 DEF RerankStore
  <2>3. \A t \in Scopes : \A result \in reranked'[t] :
          \/ result \in reranked[t]
          \/ t = s /\ result.basis \subseteq request[r].basis
                   /\ result.late = (r \in late \cup recalled)
    BY <1>11, RerankStoreType DEF s
  <2>4. \A t \in Scopes : \A result \in reranked'[t] :
          \/ result \in reranked[t]
          \/ /\ result.basis \subseteq Of(t)
             /\ result.late \/ result.basis \subseteq Findable(t)
    BY <1>b, <1>e, <2>2, <2>3
  <2>5. \A t \in Scopes : /\ keyword[t] \subseteq Of(t)
                          /\ t \in Tenants => keyword[t] \subseteq store[t]
    BY DEF TenantIsolation, IndexStored
  <2> QED BY <1>b, <1>c, <1>e, <2>1, <2>2, <2>4, <2>5, MoveKeeps DEF Findable
<1>12. CASE Fail(r)
  <2>1. /\ request'[r].step = "reply" /\ request'[r].basis = {} /\ request'[r].filling = {}
        /\ \A q \in Requests : q # r => request'[q] = request[q]
    BY <1>12, <1>a DEF Fail, TypeOK, Request
  <2> QED BY <1>12, <2>1, MoveAloneKeeps DEF Fail
<1>13. CASE Reply(r)
  <2>1. /\ request'[r].step = "idle" /\ request'[r].basis = {} /\ request'[r].filling = {}
        /\ \A q \in Requests : q # r => request'[q] = request[q]
    BY <1>13 DEF Reply, TypeOK, Idle
  <2> QED BY <1>13, <2>1, MoveAloneKeeps DEF Reply
<1>14. CASE CacheAnswer(r)
  <2> DEFINE key == <<s, request[r].question>>
  <2>1. PICK room \in Rooms :
          /\ DOMAIN cache' = DOMAIN room \cup {key}
          /\ cache'[key].basis = request[r].basis
          /\ cache'[key].late = (r \in late \cup recalled)
          /\ \A k \in DOMAIN room : k # key => cache'[k] = room[k]
    BY <1>14 DEF CacheAnswer, s
  <2>2. DOMAIN room \subseteq DOMAIN cache /\ \A k \in DOMAIN room : room[k] = cache[k]
    <3>1. CASE room = cache
      BY <3>1
    <3>2. ASSUME NEW k \in DOMAIN cache, room = Without({k})
          PROVE  /\ DOMAIN room \subseteq DOMAIN cache
                 /\ \A j \in DOMAIN room : room[j] = cache[j]
      BY <3>2, WithoutType
    <3> QED BY <3>1, <3>2 DEF Rooms
  <2>3. key[1] = s
    OBVIOUS
  <2> HIDE DEF key
  <2>4. /\ request'[r].step = "reply"
        /\ \A q \in Requests : /\ request'[q].basis = request[q].basis
                               /\ request'[q].filling = request[q].filling
                               /\ request'[q].scope = request[q].scope
                               /\ q # r => request'[q] = request[q]
    BY <1>14, GotoType DEF CacheAnswer, Steps
  <2>5. /\ UNCHANGED <<store, keyword, reranked, resetting, late, recalled>>
        /\ request[r].step = "cache"
    BY <1>14 DEF CacheAnswer
  <2>6. \A k \in DOMAIN cache' : cache'[k].basis \subseteq Of(k[1])
    <3> SUFFICES ASSUME NEW k \in DOMAIN cache' PROVE cache'[k].basis \subseteq Of(k[1])
      OBVIOUS
    <3>1. CASE k = key
      BY <1>b, <2>1, <2>3, <3>1
    <3>2. CASE k # key
      BY <2>1, <2>2, <3>2 DEF TenantIsolation
    <3> QED BY <3>1, <3>2
  <2>7. TenantIsolation'
    BY <2>4, <2>5, <2>6 DEF TenantIsolation
  <2>8. StaleOnlyByRace'
    <3> SUFFICES ASSUME resetting = "no", NEW k \in DOMAIN cache', ~cache'[k].late
                 PROVE  cache'[k].basis \subseteq Findable(k[1])
      BY <2>5 DEF StaleOnlyByRace, Findable
    <3>1. CASE k = key
      BY <1>e, <2>1, <2>3, <2>5, <3>1
    <3>2. CASE k # key
      BY <2>1, <2>2, <3>2 DEF StaleOnlyByRace
    <3> QED BY <3>1, <3>2
  <2>9. ContextStored' /\ NothingHeldYet' /\ IndexStored' /\ ResultStored'
    BY <2>4, <2>5 DEF ContextStored, NothingHeldYet, IndexStored, ResultStored, Findable
  <2> QED BY <2>7, <2>8, <2>9
<1> QED
  BY <1>1, <1>2, <1>3, <1>4, <1>5, <1>6, <1>7, <1>8, <1>9, <1>10, <1>11, <1>12, <1>13, <1>14
  DEF Query

\* Emptying the default store, and dropping the retrievers of tenants or none, keeps
\* what does not rest on it, and marks every query and every result that does.
LEMMA EmptyStoreKeeps ==
  ASSUME KnowledgeInv, TypeOK', ResetStore \/ ResetFails
  PROVE  KnowledgeInv'
<1> USE DEF KnowledgeInv, keywordVars
<1>1. /\ store'[Default] = {}
      /\ \A s \in Scopes : s # Default => store'[s] = store[s]
  BY DEF ResetStore, ResetFails, EmptyStore, TypeOK, Scopes
<1>2. /\ late' = late \cup Retrieved /\ UNCHANGED <<cache, request, recalled>>
      /\ resetting' # "no"
      /\ reranked'[Default] = LateResults /\ keyword'[Default] = keyword[Default]
      /\ \/ \A t \in Tenants : keyword'[t] = {} /\ reranked'[t] = {}
         \/ \A t \in Tenants : keyword'[t] = keyword[t] /\ reranked'[t] = reranked[t]
  BY DEF ResetStore, ResetFails, TypeOK, Scopes
<1>3. \A result \in reranked'[Default] :
        result.late /\ \E e \in reranked[Default] : result.basis = e.basis
  BY <1>2, LateResultsType
<1>4. TenantIsolation'
  <2>1. \A s \in Scopes : /\ store'[s] \cup keyword'[s] \subseteq store[s] \cup keyword[s]
                          /\ \A result \in reranked'[s] : \E e \in reranked[s] : result.basis = e.basis
    BY <1>1, <1>2, <1>3 DEF Scopes
  <2> QED BY <1>2, <2>1 DEF TenantIsolation
<1>5. StaleOnlyByRace'
  BY <1>2 DEF StaleOnlyByRace
<1>6. ContextStored'
  <2> SUFFICES ASSUME NEW r \in Requests, request[r].step # "reply", r \notin late' \cup recalled
               PROVE  request[r].basis \subseteq Findable(request[r].scope)'
    BY <1>2 DEF ContextStored
  <2>1. CASE request[r].scope = Default
    BY <1>2, <2>1 DEF Retrieved
  <2>2. CASE request[r].scope \in Tenants
    <3>1. request[r].basis \subseteq Findable(request[r].scope)
      BY <1>2 DEF ContextStored
    <3>2. request[r].basis \subseteq store[request[r].scope]
      BY <2>2, <3>1 DEF Findable, IndexStored
    <3> QED BY <1>1, <1>2, <2>2, <3>2 DEF Findable, Scopes
  <2> QED BY <2>1, <2>2 DEF TypeOK, Request, Scopes
<1>7. IndexStored'
  BY <1>1, <1>2 DEF IndexStored, Scopes
<1>8. ResultStored'
  <2> SUFFICES ASSUME NEW s \in Scopes, NEW result \in reranked'[s], ~result.late
               PROVE  result.basis \subseteq Findable(s)'
    BY DEF ResultStored
  <2>1. s \in Tenants /\ result \in reranked[s] /\ keyword'[s] = keyword[s] /\ store'[s] = store[s]
    BY <1>1, <1>2, <1>3 DEF Scopes
  <2> QED BY <2>1 DEF ResultStored, Findable
<1> QED BY <1>2, <1>4, <1>5, <1>6, <1>7, <1>8 DEF NothingHeldYet

\* Every step keeps the invariant.
LEMMA KnowledgeStep == KnowledgeInv /\ [Next]_vars => KnowledgeInv'
<1> SUFFICES ASSUME KnowledgeInv, [Next]_vars PROVE KnowledgeInv'
  OBVIOUS
<1> USE DEF keywordVars, historyVars
<1>a. TypeOK'
  BY TypeStep DEF KnowledgeInv
<1>b. ASSUME UNCHANGED <<store, keyword, reranked, cache, request, resetting, late, recalled>>
      PROVE  KnowledgeInv'
  BY <1>a, <1>b
  DEF KnowledgeInv, NothingHeldYet, TenantIsolation, StaleOnlyByRace, ContextStored,
      ResultStored, IndexStored, Findable
<1>1. ASSUME NEW r \in Requests, Query(r) PROVE KnowledgeInv'
  BY <1>1, <1>a, QueryKeeps
<1>2. ASSUME NEW s \in Scopes, NEW d \in Documents, Ingest(s, d) PROVE KnowledgeInv'
  <2>1. \A t \in Scopes : /\ store[t] \subseteq store'[t]
                          /\ store'[t] \subseteq store[t] \cup ({<<s, d>>} \cap Of(t))
    <3>1. store' = [store EXCEPT ![s] = store[s] \cup {<<s, d>>}]
      BY <1>2 DEF Ingest, StoreOf
    <3>2. store \in [Scopes -> SUBSET Chunks]
      BY DEF KnowledgeInv, TypeOK
    <3>3. <<s, d>> \in Of(s)
      BY DEF Of
    <3> QED BY <3>1, <3>2, <3>3
  <2>2. UNCHANGED <<keyword, reranked, cache, request, resetting, late, recalled>>
    BY <1>2 DEF Ingest
  <2>3. TenantIsolation'
    BY <2>1, <2>2 DEF KnowledgeInv, TenantIsolation
  <2>4. \A t \in Scopes : Findable(t) \subseteq Findable(t)'
    BY <2>1, <2>2 DEF Findable
  <2>5. StaleOnlyByRace'
    <3> SUFFICES ASSUME resetting = "no", NEW k \in DOMAIN cache, ~cache[k].late
                 PROVE  cache[k].basis \subseteq Findable(k[1])'
      BY <2>2 DEF StaleOnlyByRace
    <3>1. k[1] \in Scopes
      BY DEF KnowledgeInv, TypeOK, Keys
    <3> QED BY <2>4, <3>1 DEF KnowledgeInv, StaleOnlyByRace
  <2>6. ContextStored'
    <3> SUFFICES ASSUME NEW r \in Requests, request[r].step # "reply", r \notin late \cup recalled
                 PROVE  request[r].basis \subseteq Findable(request[r].scope)'
      BY <2>2 DEF ContextStored
    <3>1. request[r].scope \in Scopes
      BY DEF KnowledgeInv, TypeOK, Request
    <3>2. request[r].basis \subseteq Findable(request[r].scope)
      BY DEF KnowledgeInv, ContextStored
    <3>3. Findable(request[r].scope)' = store'[request[r].scope] \cup keyword[request[r].scope]
      BY <2>2 DEF Findable
    <3> QED BY <2>1, <3>1, <3>2, <3>3 DEF Findable
  <2>7. IndexStored'
    BY <2>1, <2>2 DEF KnowledgeInv, IndexStored, Scopes
  <2>8. ResultStored'
    BY <2>2, <2>4 DEF KnowledgeInv, ResultStored
  <2> QED BY <1>a, <2>2, <2>3, <2>5, <2>6, <2>7, <2>8 DEF KnowledgeInv, NothingHeldYet
<1>3. ASSUME Reset PROVE KnowledgeInv'
  <2>1. ASSUME NEW s \in Scopes, ResetUnsupported(s) PROVE KnowledgeInv'
    BY <1>b, <2>1 DEF ResetUnsupported
  <2>2. CASE ResetStore \/ ResetFails
    BY <1>a, <2>2, EmptyStoreKeeps
  <2>3. CASE ResetCaches
    <3>1. /\ UNCHANGED <<store, keyword, reranked, request, late, recalled>>
          /\ DOMAIN cache' = {}
      BY <2>3, WithoutType DEF ResetCaches
    <3> QED
      BY <1>a, <3>1
      DEF KnowledgeInv, NothingHeldYet, TenantIsolation, StaleOnlyByRace, ContextStored,
          ResultStored, IndexStored, Findable
  <2> QED BY <1>3, <2>1, <2>2, <2>3 DEF Reset
<1>4. ASSUME NEW k \in DOMAIN cache, Age(k) PROVE KnowledgeInv'
  <2>1. /\ DOMAIN cache' = DOMAIN cache
        /\ UNCHANGED <<store, keyword, reranked, request, resetting, late, recalled>>
    BY <1>4 DEF Age
  <2>2. \A j \in DOMAIN cache : /\ cache'[j].basis = cache[j].basis
                                /\ cache'[j].late = cache[j].late
    BY <1>4 DEF Age, KnowledgeInv, TypeOK, Entry
  <2> QED
    BY <1>a, <2>1, <2>2
    DEF KnowledgeInv, NothingHeldYet, TenantIsolation, StaleOnlyByRace, ContextStored,
        ResultStored, IndexStored, Findable
<1>5. ASSUME CleanUp PROVE KnowledgeInv'
  BY <1>5, <1>a, RemovalKeeps DEF CleanUp, Unexpired
<1>6. ASSUME UNCHANGED vars PROVE KnowledgeInv'
  BY <1>6, <1>b DEF vars, sharedVars
<1> QED BY <1>1, <1>2, <1>3, <1>4, <1>5, <1>6 DEF Next

\* The invariant holds in every reachable state.
LEMMA KnowledgeInvariant == Spec => []KnowledgeInv
  BY KnowledgeInit, KnowledgeStep, PTL DEF Spec

\* For any number of tenants that share the cache, whatever questions are
\* similar: no store, keyword index, reranker's memory, cached answer or query
\* under way rests on a chunk of another scope, however many queries fill an index
\* at once.
THEOREM ScopesAreIsolated == Spec => []TenantIsolation
<1>1. KnowledgeInv => TenantIsolation
  BY DEF KnowledgeInv
<1> QED BY <1>1, KnowledgeInvariant, PTL

\* A cached answer outlives its chunks only if the query that cached it held
\* them while the store was cleared, or had them from what the default reranker
\* kept from before that; or if the keyword index still has them.
THEOREM StaleAnswersAreLate == Spec => []StaleOnlyByRace
<1>1. KnowledgeInv => StaleOnlyByRace
  BY DEF KnowledgeInv
<1> QED BY <1>1, KnowledgeInvariant, PTL

-----------------------------------------------------------------------------
(* Refinement of PrivateBases *)

\* Entries that are removed, or whose age changes, add no answer.
LEMMA FewerAnswers ==
  ASSUME NEW s, DOMAIN cache' \subseteq DOMAIN cache,
         \A k \in DOMAIN cache' : cache'[k].basis = cache[k].basis
  PROVE  Answers(s)' \subseteq Answers(s)
  BY DEF Answers

\* What the queries of a scope hold is as it was.
SameHeld(s) == \A q \in Requests : HeldBy(s, q)' = HeldBy(s, q)

\* A scope that keeps its store and its retriever, and loses answers or keeps one more,
\* takes a step of its base.
LEMMA AnswersMove ==
  ASSUME NEW s \in Scopes, UNCHANGED <<store[s], keyword[s], Rankings(s)>>, SameHeld(s),
         \/ Answers(s)' \subseteq Answers(s)
         \/ \E r \in Requests : Answers(s)' \subseteq Answers(s) \cup {HeldBy(s, r)}
  PROVE  Bases!PStep(s)
<1>1. UNCHANGED [t \in Scopes |-> [q \in Requests |-> HeldBy(t, q)]][s]
  BY DEF SameHeld
<1>2. CASE Answers(s)' \subseteq Answers(s)
  BY <1>1, <1>2 DEF Bases!PStep, Bases!Forget
<1>3. CASE \E r \in Requests : Answers(s)' \subseteq Answers(s) \cup {HeldBy(s, r)}
  BY <1>1, <1>3 DEF Bases!PStep, Bases!Keep
<1> QED
  BY <1>2, <1>3

\* So does one of whose queries moves on with some of what it could find, or with what
\* an answer of the scope or a choice of its reranker's rests on, or whose retriever
\* learns from that query.
LEMMA QueryMoves ==
  ASSUME NEW s \in Scopes, UNCHANGED store[s], UNCHANGED Answers(s),
         NEW r \in Requests, \A q \in Requests \ {r} : HeldBy(s, q)' = HeldBy(s, q),
         \/ /\ UNCHANGED <<keyword[s], Rankings(s)>>
            /\ \/ HeldBy(s, r)' \subseteq HeldBy(s, r) \cup store[s] \cup keyword[s]
               \/ HeldBy(s, r)' \in Answers(s)
               \/ \E context \in Rankings(s) : HeldBy(s, r)' \subseteq context
         \/ /\ UNCHANGED Rankings(s)
            /\ keyword[s] \subseteq keyword'[s] /\ keyword'[s] \subseteq keyword[s] \cup HeldBy(s, r)
            /\ HeldBy(s, r)' \subseteq HeldBy(s, r) \cup keyword[s]
         \/ /\ UNCHANGED keyword[s]
            /\ Rankings(s)' \subseteq Rankings(s) \cup SUBSET HeldBy(s, r)
            /\ HeldBy(s, r)' \subseteq HeldBy(s, r)
  PROVE  Bases!PStep(s)
<1>1. CASE /\ UNCHANGED <<keyword[s], Rankings(s)>>
           /\ HeldBy(s, r)' \subseteq HeldBy(s, r) \cup store[s] \cup keyword[s]
  BY <1>1 DEF Bases!PStep, Bases!Search, Bases!Finds
<1>2. CASE UNCHANGED <<keyword[s], Rankings(s)>> /\ HeldBy(s, r)' \in Answers(s)
  BY <1>2 DEF Bases!PStep, Bases!Recall
<1>3. CASE /\ UNCHANGED <<keyword[s], Rankings(s)>>
           /\ \E context \in Rankings(s) : HeldBy(s, r)' \subseteq context
  BY <1>3 DEF Bases!PStep, Bases!RankAgain, Bases!Finds
<1>4. CASE /\ UNCHANGED Rankings(s)
           /\ keyword[s] \subseteq keyword'[s] /\ keyword'[s] \subseteq keyword[s] \cup HeldBy(s, r)
           /\ HeldBy(s, r)' \subseteq HeldBy(s, r) \cup keyword[s]
  BY <1>4 DEF Bases!PStep, Bases!Index, Bases!Finds
<1>5. CASE /\ UNCHANGED keyword[s]
           /\ Rankings(s)' \subseteq Rankings(s) \cup SUBSET HeldBy(s, r)
           /\ HeldBy(s, r)' \subseteq HeldBy(s, r)
  BY <1>5 DEF Bases!PStep, Bases!Rank, Bases!Finds
<1> QED
  BY <1>1, <1>2, <1>3, <1>4, <1>5

\* Every step of a query is one of its own scope's base, and none of the others'.
LEMMA QueryInBase ==
  ASSUME KnowledgeInv, NEW r \in Requests, Query(r), NEW s \in Scopes
  PROVE  Bases!PStep(s)
<1> USE DEF keywordVars, historyVars, sharedVars
<1>a. /\ TypeOK /\ request[r] \in Request /\ request[r].scope \in Scopes
      /\ NothingHeldYet
  BY DEF KnowledgeInv, TypeOK, Request
<1>b. store[s] \in SUBSET Chunks /\ keyword[s] \in SUBSET Chunks
  BY <1>a DEF TypeOK
\* The queries that stay as they are hold what they held.
<1>c. ASSUME \A q \in Requests : q # r => request'[q] = request[q]
      PROVE  \A q \in Requests \ {r} : HeldBy(s, q)' = HeldBy(s, q)
  BY <1>c DEF HeldBy
\* Nothing but the query's step changes.
<1>d. ASSUME UNCHANGED sharedVars, SameHeld(s) PROVE Bases!PStep(s)
  BY <1>d, AnswersMove DEF Answers, Rankings
\* The query moves on, and the scope of another does not notice.
<1>e. ASSUME UNCHANGED <<store, keyword, reranked, cache>>,
             \A q \in Requests : q # r => request'[q] = request[q],
             request'[r].scope = request[r].scope,
             request[r].scope = s =>
               \/ request'[r].basis \cup request'[r].filling
                    \subseteq request[r].basis \cup request[r].filling \cup store[s] \cup keyword[s]
               \/ request'[r].basis \cup request'[r].filling \in Answers(s)
               \/ \E context \in Rankings(s) :
                    request'[r].basis \cup request'[r].filling \subseteq context
      PROVE  Bases!PStep(s)
  <2>1. \A q \in Requests \ {r} : HeldBy(s, q)' = HeldBy(s, q)
    BY <1>c, <1>e
  <2>2. UNCHANGED <<store[s], keyword[s], Rankings(s), Answers(s)>>
    BY <1>e DEF Answers, Rankings
  <2>3. CASE request[r].scope = s
    <3>1. /\ HeldBy(s, r) = request[r].basis \cup request[r].filling
          /\ HeldBy(s, r)' = request'[r].basis \cup request'[r].filling
      BY <1>e, <2>3 DEF HeldBy
    <3>2. \/ HeldBy(s, r)' \subseteq HeldBy(s, r) \cup store[s] \cup keyword[s]
          \/ HeldBy(s, r)' \in Answers(s)
          \/ \E context \in Rankings(s) : HeldBy(s, r)' \subseteq context
      BY <1>e, <2>3, <3>1
    <3>3. UNCHANGED store[s] /\ UNCHANGED Answers(s) /\ UNCHANGED <<keyword[s], Rankings(s)>>
      BY <2>2
    <3> QED BY <2>1, <3>2, <3>3, QueryMoves
  <2>4. CASE request[r].scope # s
    <3>1. HeldBy(s, r)' = HeldBy(s, r)
      BY <1>e, <2>4 DEF HeldBy
    <3> QED BY <2>1, <2>2, <3>1, QueryMoves
  <2> QED BY <2>3, <2>4
<1>1. ASSUME NEW t \in Scopes, NEW q \in Questions, Ask(r, t, q) PROVE Bases!PStep(s)
  <2>1. request[r].basis = {} /\ request[r].filling = {}
    BY <1>1, <1>a DEF Ask, NothingHeldYet
  <2>2. /\ request'[r].basis = {} /\ request'[r].filling = {}
        /\ \A p \in Requests : p # r => request'[p] = request[p]
    BY <1>1, <1>a, <2>1 DEF Ask, TypeOK, Request
  <2>3. SameHeld(s)
    BY <1>c, <2>1, <2>2 DEF SameHeld, HeldBy
  <2> QED BY <1>1, <1>d, <2>3 DEF Ask
<1>2. CASE LookUp(r)
  <2>1. SameHeld(s)
    BY <1>2, <1>a, GotoType DEF LookUp, Steps, SameHeld, HeldBy
  <2>2. Answers(s)' \subseteq Answers(s)
    BY <1>2, FewerAnswers, WithoutType DEF LookUp, Unexpired
  <2> QED BY <1>2, <2>1, <2>2, AnswersMove DEF LookUp, Rankings
<1>3. CASE Hit(r)
  <2>1. PICK k \in Matches(request[r].scope, request[r].question) :
          Take(r, "reply", cache[k].basis)
    BY <1>3 DEF Hit
  <2>2. k \in DOMAIN cache /\ k[1] = request[r].scope
    BY <2>1 DEF Matches
  <2>3. cache[k].basis \in SUBSET Chunks
    BY <1>a, <2>2 DEF TypeOK, Entry
  <2>4. request[r].scope = s => cache[k].basis \in Answers(s)
    BY <2>2 DEF Answers
  <2>5. request[r].filling = {}
    BY <1>3, <1>a DEF Hit, NothingHeldYet
  <2>6. /\ request'[r].basis = cache[k].basis /\ request'[r].filling = {}
        /\ request'[r].scope = request[r].scope
        /\ \A q \in Requests : q # r => request'[q] = request[q]
    BY <1>a, <2>1, <2>3, <2>5, TakeType DEF Steps
  <2> QED BY <1>3, <1>e, <2>4, <2>6 DEF Hit
<1>4. CASE Miss(r) \/ BeginFill(r) \/ RerankMiss(r) \/ Generate(r) \/ CacheFails(r)
  <2>1. PICK step \in Steps : Goto(r, step)
    BY <1>4 DEF Miss, BeginFill, RerankMiss, Generate, CacheFails, Steps
  <2>2. SameHeld(s)
    BY <1>a, <2>1, GotoType DEF SameHeld, HeldBy
  <2> QED
    BY <1>4, <1>d, <2>2 DEF Miss, BeginFill, RerankMiss, Generate, CacheFails
<1>5. CASE Retrieve(r) \/ KeywordSearch(r) \/ IndexingFails(r)
  <2>1. PICK steps \in SUBSET Steps, there \in {store[request[r].scope], keyword[request[r].scope]} :
          FindMore(r, steps, there)
    BY <1>5 DEF Retrieve, KeywordSearch, IndexingFails, StoreOf, AfterSearch, Steps
  <2>2. there \in SUBSET Chunks
    BY <1>a, <2>1 DEF TypeOK
  <2>3. /\ request'[r].basis \subseteq request[r].basis \cup there
        /\ request'[r].scope = request[r].scope /\ request'[r].filling = request[r].filling
        /\ \A q \in Requests : q # r => request'[q] = request[q]
    BY <1>a, <2>1, <2>2, FindMoreType
  <2>4. UNCHANGED <<store, keyword, reranked, cache>>
    BY <1>5 DEF Retrieve, KeywordSearch, IndexingFails
  <2> QED BY <1>e, <2>1, <2>3, <2>4
<1>6. CASE FillSearch(r)
  BY <1>6, <1>a, <1>e, FillSearchType DEF FillSearch
<1>7. CASE AddToIndex(r)
  <2> DEFINE own == request[r].scope
  <2>1. /\ request'[r].basis \subseteq request[r].basis \cup keyword'[own]
        /\ request'[r].scope = own /\ request'[r].filling = {}
        /\ \A q \in Requests : q # r => request'[q] = request[q]
    BY <1>7, <1>a, AddToIndexType
  <2>2. \A t \in Scopes : keyword'[t] = IF t = own THEN keyword[t] \cup request[r].filling
                                        ELSE keyword[t]
    BY <1>7, <1>a, AddToIndexType
  <2>3. UNCHANGED <<store[s], Answers(s), Rankings(s)>>
    BY <1>7 DEF AddToIndex, Answers, Rankings
  <2>4. \A q \in Requests \ {r} : HeldBy(s, q)' = HeldBy(s, q)
    BY <1>c, <2>1
  <2>5. CASE own = s
    <3>1. /\ HeldBy(s, r) = request[r].basis \cup request[r].filling
          /\ HeldBy(s, r)' = request'[r].basis
      BY <2>1, <2>5 DEF HeldBy
    <3>2. /\ keyword[s] \subseteq keyword'[s]
          /\ keyword'[s] \subseteq keyword[s] \cup HeldBy(s, r)
          /\ HeldBy(s, r)' \subseteq HeldBy(s, r) \cup keyword[s]
      BY <2>1, <2>2, <2>5, <3>1
    <3>3. UNCHANGED store[s] /\ UNCHANGED Answers(s) /\ UNCHANGED Rankings(s)
      BY <2>3
    <3> QED BY <2>4, <3>2, <3>3, QueryMoves
  <2>6. CASE own # s
    <3>1. HeldBy(s, r)' = HeldBy(s, r)
      BY <2>1, <2>6 DEF HeldBy
    <3>2. keyword'[s] = keyword[s]
      BY <2>2, <2>6
    <3> QED BY <2>3, <2>4, <3>1, <3>2, QueryMoves
  <2> QED BY <2>5, <2>6
<1>8. CASE Rank(r)
  <2>1. PICK context \in SUBSET request[r].basis : Take(r, "generate", context)
    BY <1>8 DEF Rank, Contexts
  <2>2. context \in SUBSET Chunks /\ "generate" \in Steps
    BY <1>a, <2>1 DEF Request, Steps
  <2> QED BY <1>8, <1>a, <1>e, <2>1, <2>2, TakeType DEF Rank
<1>9. CASE RerankHit(r)
  <2>1. request[r].filling = {}
    BY <1>9, <1>a DEF RerankHit, Reranks, NothingHeldYet
  <2>2. /\ request'[r].scope = request[r].scope /\ request'[r].filling = {}
        /\ \A q \in Requests : q # r => request'[q] = request[q]
        /\ \E result \in reranked[request[r].scope] : request'[r].basis \subseteq result.basis
    BY <1>9, <1>a, <2>1, RerankHitType
  <2>3. request[r].scope = s => \E context \in Rankings(s) : request'[r].basis \subseteq context
    BY <2>2 DEF Rankings
  <2> QED BY <1>9, <1>e, <2>2, <2>3 DEF RerankHit
<1>10. CASE RerankStore(r)
  <2> DEFINE own == request[r].scope
  <2>1. /\ request'[r].basis \subseteq request[r].basis
        /\ request'[r].scope = own /\ request'[r].filling = request[r].filling
        /\ \A q \in Requests : q # r => request'[q] = request[q]
    BY <1>10, <1>a, RerankStoreType
  <2>2. /\ \A t \in Scopes : t # own => reranked'[t] = reranked[t]
        /\ \A result \in reranked'[own] :
             result \in reranked[own] \/ result.basis \subseteq request[r].basis
    BY <1>10, <1>a, RerankStoreType
  <2>3. UNCHANGED <<store[s], keyword[s], Answers(s)>>
    BY <1>10 DEF RerankStore, Answers
  <2>4. \A q \in Requests \ {r} : HeldBy(s, q)' = HeldBy(s, q)
    BY <1>c, <2>1
  <2>5. CASE own = s
    <3>1. /\ HeldBy(s, r) = request[r].basis \cup request[r].filling
          /\ HeldBy(s, r)' = request'[r].basis \cup request'[r].filling
      BY <2>1, <2>5 DEF HeldBy
    <3>2. Rankings(s)' \subseteq Rankings(s) \cup SUBSET HeldBy(s, r)
      BY <2>2, <2>5, <3>1 DEF Rankings
    <3> QED BY <2>1, <2>3, <2>4, <3>1, <3>2, QueryMoves
  <2>6. CASE own # s
    <3>1. HeldBy(s, r)' = HeldBy(s, r) /\ Rankings(s)' = Rankings(s)
      BY <2>1, <2>2, <2>6 DEF HeldBy, Rankings
    <3> QED BY <2>3, <2>4, <3>1, QueryMoves
  <2> QED BY <2>5, <2>6
<1>11. CASE Fail(r)
  <2>1. /\ request'[r].basis = {} /\ request'[r].filling = {}
        /\ request'[r].scope = request[r].scope
        /\ \A q \in Requests : q # r => request'[q] = request[q]
    BY <1>11, <1>a DEF Fail, TypeOK, Request
  <2> QED BY <1>11, <1>e, <2>1 DEF Fail
<1>12. CASE Reply(r)
  <2>1. /\ request'[r].basis = {} /\ request'[r].filling = {}
        /\ \A q \in Requests : q # r => request'[q] = request[q]
    BY <1>12, <1>a DEF Reply, TypeOK, Idle
  <2>2. \A q \in Requests \ {r} : HeldBy(s, q)' = HeldBy(s, q)
    BY <1>c, <2>1
  <2>3. HeldBy(s, r)' = {}
    BY <2>1 DEF HeldBy
  <2>4. UNCHANGED <<store[s], keyword[s], Answers(s), Rankings(s)>>
    BY <1>12 DEF Reply, Answers, Rankings
  <2> QED BY <2>2, <2>3, <2>4, QueryMoves
<1>13. CASE CacheAnswer(r)
  <2> DEFINE key == <<request[r].scope, request[r].question>>
  <2>1. PICK room \in Rooms :
          /\ DOMAIN cache' = DOMAIN room \cup {key}
          /\ cache'[key].basis = request[r].basis
          /\ \A k \in DOMAIN room : k # key => cache'[k] = room[k]
    BY <1>13 DEF CacheAnswer
  <2>2. DOMAIN room \subseteq DOMAIN cache /\ \A k \in DOMAIN room : room[k] = cache[k]
    <3>1. CASE room = cache
      BY <3>1
    <3>2. ASSUME NEW k \in DOMAIN cache, room = Without({k})
          PROVE  /\ DOMAIN room \subseteq DOMAIN cache
                 /\ \A j \in DOMAIN room : room[j] = cache[j]
      BY <3>2, WithoutType
    <3> QED BY <3>1, <3>2 DEF Rooms
  <2>3. key[1] = request[r].scope
    OBVIOUS
  <2> HIDE DEF key
  <2>4. request[r].filling = {}
    BY <1>13, <1>a DEF CacheAnswer, NothingHeldYet
  <2>5. Answers(s)' \subseteq Answers(s) \cup {HeldBy(s, r)}
    <3> SUFFICES ASSUME NEW k \in DOMAIN cache', k[1] = s
                 PROVE  cache'[k].basis \in Answers(s) \cup {HeldBy(s, r)}
      BY DEF Answers
    <3>1. CASE k = key
      BY <2>1, <2>3, <2>4, <3>1 DEF HeldBy
    <3>2. CASE k # key
      <4>1. k \in DOMAIN cache /\ cache'[k].basis = cache[k].basis
        BY <2>1, <2>2, <3>2
      <4> QED BY <4>1 DEF Answers
    <3> QED BY <3>1, <3>2
  <2>6. SameHeld(s)
    BY <1>13, <1>a, GotoType DEF CacheAnswer, Steps, SameHeld, HeldBy
  <2> QED BY <1>13, <2>5, <2>6, AnswersMove DEF CacheAnswer, Rankings
<1> QED
  BY <1>1, <1>2, <1>3, <1>4, <1>5, <1>6, <1>7, <1>8, <1>9, <1>10, <1>11, <1>12, <1>13 DEF Query

\* Nobody's base holds anything at first.
LEMMA BasesInit == Init => Bases!PInit
<1> SUFFICES ASSUME Init PROVE Bases!PInit
  OBVIOUS
<1>1. \A s \in Scopes : Answers(s) = {} /\ Rankings(s) = {}
  BY DEF Init, Answers, Rankings
<1>2. \A s \in Scopes, r \in Requests : HeldBy(s, r) = {}
  BY DEF Init, Idle, HeldBy
<1> QED
  BY <1>1, <1>2 DEF Init, Bases!PInit

\* In every step, each scope takes a step of its base.
LEMMA BasesStep == KnowledgeInv /\ [Next]_vars => [Bases!PNext]_(Bases!pbVars)
<1> SUFFICES ASSUME KnowledgeInv, [Next]_vars, NEW s \in Scopes PROVE Bases!PStep(s)
  BY DEF Bases!PNext
<1> USE DEF keywordVars, historyVars
<1>a. ASSUME UNCHANGED <<store[s], keyword[s], reranked[s]>>, UNCHANGED request,
             Answers(s)' \subseteq Answers(s)
      PROVE  Bases!PStep(s)
  <2>1. SameHeld(s) /\ UNCHANGED Rankings(s)
    BY <1>a DEF SameHeld, HeldBy, Rankings
  <2> QED BY <1>a, <2>1, AnswersMove
<1>b. UNCHANGED cache => UNCHANGED Answers(s)
  BY DEF Answers
<1>c. UNCHANGED request => UNCHANGED [t \in Scopes |-> [q \in Requests |-> HeldBy(t, q)]][s]
  BY DEF HeldBy
<1>d. UNCHANGED reranked => UNCHANGED Rankings(s)
  BY DEF Rankings
<1>1. ASSUME NEW r \in Requests, Query(r) PROVE Bases!PStep(s)
  BY <1>1, QueryInBase
<1>2. ASSUME NEW t \in Scopes, NEW d \in Documents, Ingest(t, d) PROVE Bases!PStep(s)
  <2>1. /\ store'[s] = IF s = t THEN store[s] \cup {<<s, d>>} ELSE store[s]
        /\ UNCHANGED <<keyword, reranked, cache, request>>
    BY <1>2 DEF Ingest, StoreOf, KnowledgeInv, TypeOK
  <2>2. CASE s = t
    BY <1>b, <1>c, <1>d, <2>1, <2>2 DEF Bases!PStep, Bases!Add
  <2>3. CASE s # t
    BY <1>a, <1>b, <2>1, <2>3
  <2> QED BY <2>2, <2>3
<1>3. ASSUME Reset PROVE Bases!PStep(s)
  <2>1. ASSUME NEW t \in Scopes, ResetUnsupported(t) PROVE Bases!PStep(s)
    BY <1>a, <1>b, <2>1 DEF ResetUnsupported
  <2>2. CASE ResetStore \/ ResetFails
    <3>1. /\ store'[s] = IF s = Default THEN {} ELSE store[s]
          /\ UNCHANGED <<cache, request>>
      BY <2>2 DEF ResetStore, ResetFails, EmptyStore, KnowledgeInv, TypeOK
    <3>2. Rankings(Default)' = Rankings(Default)
      <4>1. reranked'[Default] = LateResults
        BY <2>2 DEF ResetStore, ResetFails, KnowledgeInv, TypeOK, Scopes
      <4>2. /\ \A result \in LateResults : \E e \in reranked[Default] : result.basis = e.basis
            /\ \A e \in reranked[Default] : \E result \in LateResults : result.basis = e.basis
        BY LateResultsType DEF KnowledgeInv
      <4> QED BY <4>1, <4>2 DEF Rankings
    <3>3. ASSUME keyword'[s] = IF s = Default THEN keyword[s] ELSE {},
                 s # Default => Rankings(s)' = {}
          PROVE  Bases!PStep(s)
      BY <1>b, <1>c, <3>1, <3>2, <3>3 DEF Bases!PStep, Bases!Reset
    <3>4. CASE ResetStore
      BY <3>3, <3>4 DEF ResetStore, Rankings
    <3>5. CASE ResetFails
      <4>1. keyword' = keyword
        BY <3>5 DEF ResetFails
      <4>2. CASE s = Default
        BY <3>3, <4>1, <4>2
      <4>3. CASE s # Default
        <5>1. reranked'[s] = reranked[s]
          BY <3>5, <4>3 DEF ResetFails, KnowledgeInv, TypeOK
        <5> QED BY <1>a, <1>b, <3>1, <4>1, <4>3, <5>1
      <4> QED BY <4>2, <4>3
    <3> QED BY <2>2, <3>4, <3>5
  <2>3. CASE ResetCaches
    <3>1. Answers(s)' \subseteq Answers(s)
      BY <2>3, FewerAnswers, WithoutType DEF ResetCaches
    <3> QED BY <1>a, <2>3, <3>1 DEF ResetCaches
  <2> QED BY <1>3, <2>1, <2>2, <2>3 DEF Reset
<1>4. ASSUME NEW k \in DOMAIN cache, Age(k) PROVE Bases!PStep(s)
  <2>1. /\ DOMAIN cache' = DOMAIN cache
        /\ \A j \in DOMAIN cache : cache'[j].basis = cache[j].basis
    BY <1>4 DEF Age, KnowledgeInv, TypeOK, Entry
  <2>2. Answers(s)' \subseteq Answers(s)
    BY <2>1, FewerAnswers
  <2> QED BY <1>4, <1>a, <2>2 DEF Age
<1>5. ASSUME CleanUp PROVE Bases!PStep(s)
  <2>1. Answers(s)' \subseteq Answers(s)
    BY <1>5, FewerAnswers, WithoutType DEF CleanUp, Unexpired
  <2> QED BY <1>5, <1>a, <2>1 DEF CleanUp
<1>6. ASSUME UNCHANGED vars PROVE Bases!PStep(s)
  BY <1>6, <1>a, <1>b DEF vars, sharedVars
<1> QED
  BY <1>1, <1>2, <1>3, <1>4, <1>5, <1>6 DEF Next

\* For any number of tenants: one service with one cache, one reset and stores opened
\* on demand, whose queries fill indexes and rerankers' memories concurrently,
\* implements a base of its own for each scope.  Others can only make it forget
\* answers, or drop its retriever with its index and its reranker's memory.
THEOREM ServiceImplementsBases == Spec => ScopesArePrivate
<1>1. ScopesArePrivate <=> Bases!PInit /\ [][Bases!PNext]_(Bases!pbVars)
  BY DEF ScopesArePrivate, Bases!PSpec
<1> QED
  BY <1>1, BasesInit, BasesStep, KnowledgeInvariant, PTL DEF Spec
=============================================================================
