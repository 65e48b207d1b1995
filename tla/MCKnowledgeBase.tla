-------------------------- MODULE MCKnowledgeBase --------------------------
EXTENDS KnowledgeBase, TLC

AllSimilar == Questions \X Questions
Symmetry == Permutations(Requests)

OneDocument == CHOOSE d \in Documents : TRUE
KeywordSearches ==
  [hybrid |-> TRUE, reranks |-> FALSE, chunks |-> Scopes \X {OneDocument}]
Rerankings == [hybrid |-> FALSE, reranks |-> TRUE, chunks |-> Scopes \X {OneDocument}]

\* A reranker's result can be found again for other chunks than it was made of only
\* where there are others: a second document, for queries one after the other.
LaterRerankings == [Rerankings EXCEPT !.chunks = {Default} \X Documents]

KeywordDeployments == {KeywordSearches}
AllDeployments == {KeywordSearches, Rerankings, LaterRerankings}

UnderWay == {r \in Requests : request[r].step # "idle"}
Expired == {k \in DOMAIN cache : cache[k].expired}

\* Bounds: answers expire where retrievers rerank.
IsolationNext ==
  /\ Next
  /\ deployment = LaterRerankings => Cardinality(UnderWay') <= 1
  /\ deployment = KeywordSearches => Expired' = {}

IsolationSpec == Init /\ [][IsolationNext]_vars
=============================================================================
