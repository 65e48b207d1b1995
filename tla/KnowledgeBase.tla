--------------------------- MODULE KnowledgeBase ---------------------------
(***************************************************************************)
(* RAGService over its vector stores, its retrievers, each with a keyword  *)
(* index and a reranker's cache, and its semantic cache.                   *)
(*                                                                         *)
(* One process on one event loop: a request runs until it awaits, and the  *)
(* actions below are the pieces between two awaits that touch shared state.*)
(* The default store belongs to requests without a tenant; each tenant has *)
(* a store of its own, opened at its first use.  One semantic cache serves *)
(* them all.  Quotas are not here: UsageLedger has them.                   *)
(*                                                                         *)
(* A hybrid retriever that finds its keyword index empty fills it from a   *)
(* search of its store, and later searches both.  A query whose retriever  *)
(* a reset dropped is taken to go on with the next one of its tenant:      *)
(* both are filled from the same store.                                    *)
(*                                                                         *)
(* A chunk is a document together with the scope it was ingested for, and  *)
(* an answer is represented by the chunks it rests on.                     *)
(***************************************************************************)
EXTENDS Naturals, FiniteSets

CONSTANTS
  Tenants, Default,   \* whose store a request uses
  Requests,           \* queries under way at the same time
  Questions,
  Similar,            \* pairs of questions as similar as the threshold asks
  Documents,          \* a chunk is what was ingested at one time, whatever its id
  TopK,               \* settings.rag.top_k
  MaxSize,            \* max_size of the semantic cache
  RerankSize,         \* rerank_cache_size
  Proxied,            \* the default store was built by VectorStoreFactory
  Deployments         \* settings of the retrievers, one of which is in force

Scopes == Tenants \cup {Default}
Chunks == Scopes \X Documents
Keys == Scopes \X Questions

\* hybrid: enable_hybrid and keyword_search_enabled; reranks: enable_reranking, by
\* a reranker whose scoring by metadata is off or may fail; chunks: a bound of
\* the model, those that are ever ingested.
Deployment == [hybrid : BOOLEAN, reranks : BOOLEAN, chunks : SUBSET Chunks]

ASSUME KnowledgeBaseAssumption ==
  /\ Default \notin Tenants
  /\ IsFiniteSet(Documents)
  /\ Questions # {}
  /\ Similar \subseteq Questions \X Questions
  /\ \A q \in Questions : <<q, q>> \in Similar
  /\ TopK \in Nat \ {0} /\ MaxSize \in Nat \ {0}
  /\ RerankSize \in Nat \ {0}
  /\ Proxied \in BOOLEAN /\ Deployments \subseteq Deployment

VARIABLES
  deployment, \* the settings
  store,     \* chunks of each scope's vector store
  opened,    \* _tenant_vector_stores
  keyword,   \* documents of the keyword index of each scope's retriever
  unindexed, \* scopes whose retriever has turned keyword search off
  reranked,  \* _rerank_cache of each scope's retriever
  cache,     \* the semantic cache: its entries by scope and question
  request,   \* where each query stands
  resetting, \* what reset_store of the default store left behind
  (* history, read by no action *)
  late,      \* queries that had searched when a reset emptied the store
  recalled,  \* queries that a reranker gave a result of before a reset
  refused    \* whether a reset of the default store was refused

keywordVars == <<keyword, unindexed>>
historyVars == <<late, recalled, refused>>
\* All but the queries under way.
sharedVars == <<deployment, store, opened, keywordVars, reranked, cache, resetting, historyVars>>
vars == <<request, sharedVars>>

Entry == [basis : SUBSET Chunks, expired : BOOLEAN, late : BOOLEAN]

\* What a reranker returned for a question and a number of chunks.
Numbers == {Cardinality(found) : found \in SUBSET Chunks}
Result == [question : Questions, number : Numbers, basis : SUBSET Chunks, late : BOOLEAN]

\* A query holds the chunks found so far, and those found to fill an index with.
Steps == {"idle", "lookup", "match", "retrieve", "keyword", "fill", "index", "rank",
          "rerank", "generate", "cache", "reply"}
Request == [step : Steps, scope : Scopes, question : Questions,
            basis : SUBSET Chunks, filling : SUBSET Chunks]

TypeOK ==
  /\ deployment \in Deployments
  /\ store \in [Scopes -> SUBSET Chunks]
  /\ opened \in SUBSET Tenants
  /\ keyword \in [Scopes -> SUBSET Chunks] /\ unindexed \in SUBSET Scopes
  /\ reranked \in [Scopes -> SUBSET Result]
  /\ DOMAIN cache \subseteq Keys /\ \A k \in DOMAIN cache : cache[k] \in Entry
  /\ request \in [Requests -> Request]
  /\ resetting \in {"no", "emptied", "aborted"}
  /\ late \in SUBSET Requests /\ recalled \in SUBSET Requests
  /\ refused \in BOOLEAN

Idle == [step |-> "idle", scope |-> Default,
         question |-> CHOOSE q \in Questions : TRUE, basis |-> {}, filling |-> {}]

Init ==
  /\ deployment \in Deployments
  /\ store = [s \in Scopes |-> {}]
  /\ opened = {}
  /\ keyword = [s \in Scopes |-> {}] /\ unindexed = {}
  /\ reranked = [s \in Scopes |-> {}]
  /\ cache = [k \in {} |-> 0]
  /\ request = [r \in Requests |-> Idle]
  /\ resetting = "no"
  /\ late = {} /\ recalled = {} /\ refused = FALSE

-----------------------------------------------------------------------------
(* Stores *)

\* get_vector_store: the scope whose chunks the returned store holds.
StoreOf(s) == s

\* Mutant: the default store is kept among those of tenants.
OpenAny(s) == opened' = opened \cup {s}

\* get_vector_store keeps the store it opened for a tenant.
Open(s) == opened' = opened \cup ({s} \cap Tenants)

\* The model takes a chunk's name again only when nothing refers to it.
Fresh(chunk) ==
  /\ \A t \in Scopes : /\ chunk \notin store[t] \cup keyword[t]
                        /\ \A e \in reranked[t] : chunk \notin e.basis
  /\ \A k \in DOMAIN cache : chunk \notin cache[k].basis
  /\ \A r \in Requests : chunk \notin request[r].basis \cup request[r].filling

\* _store_chunks at the end of ingest_document: what came before it (loading,
\* chunking, embedding) shares nothing, and a failure changes nothing here.
Ingest(s, d) ==
  /\ <<s, d>> \in deployment.chunks /\ Fresh(<<s, d>>)
  /\ store' = [store EXCEPT ![StoreOf(s)] = @ \cup {<<s, d>>}]
  /\ Open(s)
  /\ UNCHANGED <<deployment, keywordVars, reranked, cache, request, resetting, historyVars>>

-----------------------------------------------------------------------------
(* Semantic cache *)

Without(keys) == [k \in DOMAIN cache \ keys |-> cache[k]]

\* The time to live of an entry has passed.
Age(k) ==
  /\ ~cache[k].expired
  /\ cache' = [cache EXCEPT ![k].expired = TRUE]
  /\ UNCHANGED <<deployment, store, opened, keywordVars, reranked, request, resetting, historyVars>>

Unexpired == Without({k \in DOMAIN cache : cache[k].expired})

\* The loop that runs every five minutes.
CleanUp ==
  /\ cache' = Unexpired
  /\ UNCHANGED <<deployment, store, opened, keywordVars, reranked, request, resetting, historyVars>>

\* _find_best_match: the entries it can return.  The question itself is more
\* similar than any other.
Matches(s, q) ==
  IF <<s, q>> \in DOMAIN cache THEN {<<s, q>>}
  ELSE {k \in DOMAIN cache : k[1] = s /\ <<q, k[2]>> \in Similar}

\* Mutant: one entry too many.
RoomsAboveMaxSize ==
  IF Cardinality(DOMAIN cache) <= MaxSize THEN {cache}
  ELSE {Without({k}) : k \in DOMAIN cache}

\* What an entry is put into: a full cache first loses one, chosen by the
\* configured strategy, whether or not the key is there already.
Rooms ==
  IF Cardinality(DOMAIN cache) < MaxSize THEN {cache}
  ELSE {Without({k}) : k \in DOMAIN cache}

-----------------------------------------------------------------------------
(* query_documents *)

Goto(r, step) == request' = [request EXCEPT ![r].step = step]

Take(r, step, basis) ==
  request' = [request EXCEPT ![r] = [@ EXCEPT !.step = step, !.basis = basis]]

Ask(r, s, q) ==
  /\ request[r].step = "idle"
  /\ request' = [request EXCEPT ![r] = [@ EXCEPT !.step = "lookup", !.scope = s,
                                                 !.question = q]]
  /\ UNCHANGED sharedVars

\* get_similar_answer up to its await: expired entries go, the question is
\* embedded.
LookUp(r) ==
  /\ request[r].step = "lookup"
  /\ cache' = Unexpired
  /\ Goto(r, "match")
  /\ UNCHANGED <<deployment, store, opened, keywordVars, reranked, resetting, historyVars>>

Hit(r) ==
  /\ request[r].step = "match"
  /\ \E k \in Matches(request[r].scope, request[r].question) :
       Take(r, "reply", cache[k].basis)
  /\ UNCHANGED sharedVars

\* No similar answer; or embedding the question, or giving the cached answer,
\* failed.
Miss(r) ==
  /\ request[r].step = "match"
  /\ Goto(r, "retrieve")
  /\ UNCHANGED sharedVars

\* Another expanded question is searched for, or there is none left.
AfterSearch == {"retrieve", "rank"}

\* More chunks are found, some of those that are there.
FindMore(r, steps, there) ==
  \E found \in SUBSET there, step \in steps : Take(r, step, request[r].basis \cup found)

\* The retriever's search for the question or, after it, for an expanded one, of
\* which a failed one finds nothing; or _retrieve_context's.
Retrieve(r) ==
  LET s == request[r].scope
  IN  /\ request[r].step = "retrieve"
      /\ FindMore(r, IF deployment.hybrid /\ s \notin unindexed THEN {"keyword"} ELSE AfterSearch,
                  store[StoreOf(s)])
      /\ Open(s)
      /\ UNCHANGED <<deployment, store, keywordVars, reranked, cache, resetting, historyVars>>

\* _keyword_search of an index that is not empty.
KeywordSearch(r) ==
  LET s == request[r].scope
  IN  /\ request[r].step = "keyword" /\ keyword[s] # {}
      /\ FindMore(r, AfterSearch, keyword[s])
      /\ UNCHANGED sharedVars

\* An empty index is to be filled: a fixed text is embedded for it ...
BeginFill(r) ==
  /\ request[r].step = "keyword" /\ keyword[request[r].scope] = {}
  /\ Goto(r, "fill")
  /\ UNCHANGED sharedVars

\* Mutant: the index is filled from the default store.
FillSearchDefault(r) ==
  /\ request[r].step = "fill"
  /\ \E found \in SUBSET store[Default] :
       request' = [request EXCEPT ![r] = [@ EXCEPT !.step = "index", !.filling = found]]
  /\ UNCHANGED sharedVars

\* ... then the store is searched for it: the nearest documents, in practice most.
FillSearch(r) ==
  /\ request[r].step = "fill"
  /\ \E found \in SUBSET store[StoreOf(request[r].scope)] :
       request' = [request EXCEPT ![r] = [@ EXCEPT !.step = "index", !.filling = found]]
  /\ UNCHANGED sharedVars

\* What was found is added to what other queries may have put there meanwhile, and
\* the index is searched.
AddToIndex(r) ==
  LET s == request[r].scope
      index == keyword[s] \cup request[r].filling
  IN  /\ request[r].step = "index"
      /\ keyword' = [keyword EXCEPT ![s] = index]
      /\ \E found \in SUBSET index, step \in AfterSearch :
           request' = [request EXCEPT ![r].step = step, ![r].filling = {},
                                      ![r].basis = @ \cup found]
      /\ UNCHANGED <<deployment, store, opened, unindexed, reranked, cache, resetting, historyVars>>

\* Embedding or searching fails: the retriever fills its index no more and does no
\* keyword search after this one.
IndexingFails(r) ==
  LET s == request[r].scope
  IN  /\ request[r].step = "fill"
      /\ unindexed' = unindexed \cup {s}
      /\ FindMore(r, AfterSearch, keyword[s])
      /\ UNCHANGED <<deployment, store, opened, keyword, reranked, cache, resetting, historyVars>>

\* The best of the chunks found, by whatever order.
Contexts(found) == {context \in SUBSET found : Cardinality(context) <= TopK}

\* Without a reranker, with one that scores by metadata, or when reranking times
\* out or fails.
Rank(r) ==
  /\ request[r].step \in {"rank", "rerank"}
  /\ \E context \in Contexts(request[r].basis) : Take(r, "generate", context)
  /\ UNCHANGED sharedVars

\* rerank looks its results up by the question and how many chunks were found.
IsFor(result, r) ==
  result.question = request[r].question /\ result.number = Cardinality(request[r].basis)

Reranks(r) ==
  request[r].step = "rank" /\ deployment.reranks /\ request[r].basis # {}

RerankHit(r) ==
  /\ Reranks(r)
  /\ \E result \in reranked[request[r].scope] :
       /\ IsFor(result, r)
       /\ \E context \in Contexts(result.basis) : Take(r, "generate", context)
       /\ recalled' = IF result.late THEN recalled \cup {r} ELSE recalled
  /\ UNCHANGED <<deployment, store, opened, keywordVars, reranked, cache, resetting, late, refused>>

RerankMiss(r) ==
  /\ Reranks(r)
  /\ \A result \in reranked[request[r].scope] : ~IsFor(result, r)
  /\ Goto(r, "rerank")
  /\ UNCHANGED sharedVars

\* What a result is put into: a full cache first loses one, the oldest.
RerankRooms(results) ==
  IF Cardinality(results) < RerankSize THEN {results} ELSE {results \ {e} : e \in results}

\* The model has answered: its result, the chunks above a threshold, is kept.
RerankStore(r) ==
  LET s == request[r].scope
      Kept(best) == [question |-> request[r].question, number |-> Cardinality(request[r].basis),
                     basis |-> best, late |-> r \in late \cup recalled]
  IN  /\ request[r].step = "rerank"
      /\ \E best \in SUBSET request[r].basis, room \in RerankRooms(reranked[s]) :
           /\ reranked' = [reranked EXCEPT ![s] = {e \in room : ~IsFor(e, r)} \cup {Kept(best)}]
           /\ \E context \in Contexts(best) : Take(r, "generate", context)
      /\ UNCHANGED <<deployment, store, opened, keywordVars, cache, resetting, historyVars>>

\* The confidence of an answer is the share of top_k that was retrieved.
Confident(context) == 10 * Cardinality(context) > 7 * TopK

Generate(r) ==
  /\ request[r].step = "generate"
  /\ Goto(r, IF Confident(request[r].basis) THEN "cache" ELSE "reply")
  /\ UNCHANGED sharedVars

\* cache_answer after the question is embedded.
CacheAnswer(r) ==
  LET key == <<request[r].scope, request[r].question>>
      entry == [basis |-> request[r].basis, expired |-> FALSE, late |-> r \in late \cup recalled]
  IN  /\ request[r].step = "cache"
      /\ \E room \in Rooms :
           cache' = [k \in DOMAIN room \cup {key} |-> IF k = key THEN entry ELSE room[k]]
      /\ Goto(r, "reply")
      /\ UNCHANGED <<deployment, store, opened, keywordVars, reranked, resetting, historyVars>>

\* Embedding the question fails: the answer is given without being cached.
CacheFails(r) ==
  /\ request[r].step = "cache"
  /\ Goto(r, "reply")
  /\ UNCHANGED sharedVars

\* The fallback answer, or, when a tenant's store cannot be opened, the error.
Fail(r) ==
  /\ request[r].step \in {"retrieve", "keyword", "fill", "index", "rank", "rerank", "generate"}
  /\ request' = [request EXCEPT ![r] = [@ EXCEPT !.step = "reply", !.basis = {},
                                                 !.filling = {}]]
  /\ UNCHANGED sharedVars

Reply(r) ==
  /\ request[r].step = "reply"
  /\ request' = [request EXCEPT ![r] = Idle]
  /\ late' = late \ {r} /\ recalled' = recalled \ {r}
  /\ UNCHANGED <<deployment, store, opened, keywordVars, reranked, cache, resetting, refused>>

-----------------------------------------------------------------------------
(* reset_store *)

\* A store built by the factory is wrapped in AwaitableStoreProxy, which does
\* not override BaseVectorStore.clear: NotImplementedError, False is returned.
\* The stores of tenants are always built by it.
ResetUnsupported(s) ==
  /\ s \in Tenants \/ Proxied
  /\ refused' = (refused \/ s = Default)
  /\ Open(s)
  /\ UNCHANGED <<deployment, store, keywordVars, reranked, cache, request, resetting>>
  /\ UNCHANGED <<late, recalled>>

\* Queries of the default scope that found something and are not answered yet.
Retrieved ==
  {r \in Requests : /\ request[r].scope = Default /\ request[r].basis # {}
                    /\ request[r].step # "reply"}

\* What its reranker returned for them is from before the reset.
LateResults == {[result EXCEPT !.late = TRUE] : result \in reranked[Default]}

\* Mutant: the stores of tenants are cleared with the default one.
EmptyStores ==
  /\ ~Proxied /\ resetting # "emptied"
  /\ store' = [s \in Scopes |-> {}]

EmptyStore ==
  /\ ~Proxied /\ resetting # "emptied"
  /\ store' = [store EXCEPT ![Default] = {}]

\* The default store is cleared, then every tenant's store and retriever is
\* forgotten.  The default retriever stays, with its keyword index and its results.
ResetStore ==
  /\ EmptyStore
  /\ late' = late \cup Retrieved
  /\ reranked' = [s \in Scopes |-> IF s = Default THEN LateResults ELSE {}]
  /\ opened' = {}
  /\ keyword' = [s \in Scopes |-> IF s = Default THEN keyword[s] ELSE {}]
  /\ unindexed' = unindexed \cap {Default}
  /\ resetting' = "emptied"
  /\ UNCHANGED <<deployment, cache, request, recalled, refused>>

\* clear raises after it changed memory: the caches are kept.
ResetFails ==
  /\ EmptyStore
  /\ late' = late \cup Retrieved
  /\ reranked' = [reranked EXCEPT ![Default] = LateResults]
  /\ resetting' = "aborted"
  /\ UNCHANGED <<deployment, opened, keywordVars, cache, request, recalled, refused>>

\* Mutant: the entries without a tenant stay.
ResetCachesOfTenants ==
  /\ resetting = "emptied" /\ resetting' = "no"
  /\ cache' = Without({k \in DOMAIN cache : k[1] \in Tenants})
  /\ UNCHANGED <<deployment, store, opened, keywordVars, reranked, request, historyVars>>

\* The semantic cache is cleared for every scope.
ResetCaches ==
  /\ resetting = "emptied" /\ resetting' = "no"
  /\ cache' = Without(DOMAIN cache)
  /\ UNCHANGED <<deployment, store, opened, keywordVars, reranked, request, historyVars>>

-----------------------------------------------------------------------------
Query(r) ==
  \/ \E s \in Scopes, q \in Questions : Ask(r, s, q)
  \/ LookUp(r) \/ Hit(r) \/ Miss(r)
  \/ Retrieve(r)
  \/ KeywordSearch(r) \/ BeginFill(r) \/ FillSearch(r) \/ AddToIndex(r) \/ IndexingFails(r)
  \/ Rank(r) \/ RerankHit(r) \/ RerankMiss(r) \/ RerankStore(r)
  \/ Generate(r) \/ CacheAnswer(r) \/ CacheFails(r) \/ Fail(r) \/ Reply(r)

Reset ==
  \/ \E s \in Scopes : ResetUnsupported(s)
  \/ ResetStore \/ ResetFails \/ ResetCaches

Next ==
  \/ \E r \in Requests : Query(r)
  \/ \E s \in Scopes, d \in Documents : Ingest(s, d)
  \/ Reset
  \/ \E k \in DOMAIN cache : Age(k)
  \/ CleanUp

Spec == Init /\ [][Next]_vars

-----------------------------------------------------------------------------
(* Properties *)

Of(s) == {s} \X Documents

\* Nobody's store, retriever, cached answer or query under way holds a chunk that
\* was ingested for somebody else, though all share one cache, and stores and
\* retrievers are looked up again after every await.
TenantIsolation ==
  /\ \A s \in Scopes : /\ store[s] \cup keyword[s] \subseteq Of(s)
                        /\ \A result \in reranked[s] : result.basis \subseteq Of(s)
  /\ \A k \in DOMAIN cache : cache[k].basis \subseteq Of(k[1])
  /\ \A r \in Requests : request[r].basis \cup request[r].filling \subseteq Of(request[r].scope)

\* Queries that finish together do not fill the cache beyond its size.
CacheBounded == Cardinality(DOMAIN cache) <= MaxSize

\* What a query of a scope can find.
Findable(s) == store[s] \cup keyword[s]

\* When no reset is under way or was aborted, a cached answer rests on chunks
\* that are still stored or indexed, unless the query that cached it held its
\* context while the store was cleared, or had it from what the default retriever's
\* reranker kept from before that: nothing checks for either.
StaleOnlyByRace ==
  resetting = "no" =>
    \A k \in DOMAIN cache : ~cache[k].late => cache[k].basis \subseteq Findable(k[1])

\* What makes it inductive: what a query holds that neither befell can still be
\* found while it is under way, and what a reranker keeps from after the last reset.
ContextStored ==
  \A r \in Requests :
    request[r].step # "reply" /\ r \notin late \cup recalled =>
      request[r].basis \subseteq Findable(request[r].scope)

ResultStored ==
  \A s \in Scopes : \A result \in reranked[s] : ~result.late => result.basis \subseteq Findable(s)

\* The retrievers of tenants, which a reset drops, indexed nothing but what is
\* still stored, nor is anything else on its way into their indexes.
IndexStored ==
  /\ \A t \in Tenants : keyword[t] \subseteq store[t]
  /\ \A r \in Requests : request[r].scope \in Tenants =>
       request[r].filling \subseteq store[request[r].scope]

\* The contexts of the answers a scope can be given again, and of its reranker's.
Answers(s) == {cache[k].basis : k \in {j \in DOMAIN cache : j[1] = s}}
Rankings(s) == {result.basis : result \in reranked[s]}

\* What a query has found, if it is one of the scope.
HeldBy(s, r) ==
  IF request[r].scope = s THEN request[r].basis \cup request[r].filling ELSE {}

\* Stores opened on demand, retrievers, one cache and one reset for everybody give
\* each scope a base of its own: whatever the others ingest, ask and reset, its
\* store changes by its own documents and its index by its store, and its queries
\* find what is there or was found before by a query of the same scope.  A reset of
\* the default store empties no other.
Bases == INSTANCE PrivateBases
  WITH stored <- store, indexed <- keyword, ranked <- [s \in Scopes |-> Rankings(s)],
       answers <- [s \in Scopes |-> Answers(s)],
       held <- [s \in Scopes |-> [r \in Requests |-> HeldBy(s, r)]]
ScopesArePrivate == Bases!PSpec


\* The API documents that a reset clears the stored vectors (README.md:214,
\* docs/API.md:247), so only a failing store keeps it from doing so.  No store
\* that VectorStoreFactory built can be cleared.
ResetClears == ~refused
=============================================================================
