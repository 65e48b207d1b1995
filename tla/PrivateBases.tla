---------------------------- MODULE PrivateBases ----------------------------
(***************************************************************************)
(* What a service with one knowledge base per tenant promises each of its  *)
(* scopes: a base of its own.  In one step every scope takes a step of its *)
(* base, or none; what it does then follows from its own documents,        *)
(* answers and queries, whatever the others do.                            *)
(*                                                                         *)
(* All that a scope may notice of the others is that answers it could have *)
(* been given again are forgotten, and that a reset was asked for.  A      *)
(* reset empties the store of the default scope, and the indexes and       *)
(* rerankers of the others.                                                *)
(***************************************************************************)
CONSTANTS Scopes, Default, Requests, Documents

VARIABLES
  stored,   \* of each scope: its chunks,
  indexed,  \* those that its keyword search knows,
  ranked,   \* the contexts that its reranker remembers,
  answers,  \* the contexts of the answers it can be given again,
  held      \* and what its queries under way have found

pbVars == <<stored, indexed, ranked, answers, held>>

PInit ==
  /\ stored = [s \in Scopes |-> {}]
  /\ indexed = [s \in Scopes |-> {}]
  /\ ranked = [s \in Scopes |-> {}]
  /\ answers = [s \in Scopes |-> {}]
  /\ held = [s \in Scopes |-> [r \in Requests |-> {}]]

\* One query of the scope goes on with some of what it found, or with nothing.
Finds(s, r, found) ==
  /\ held'[s][r] \subseteq found
  /\ \A q \in Requests \ {r} : held'[s][q] = held[s][q]

Add(s) ==
  /\ \E d \in Documents : stored'[s] = stored[s] \cup {<<s, d>>}
  /\ UNCHANGED <<indexed[s], ranked[s], answers[s], held[s]>>

Search(s) ==
  /\ \E r \in Requests : Finds(s, r, held[s][r] \cup stored[s] \cup indexed[s])
  /\ UNCHANGED <<stored[s], indexed[s], ranked[s], answers[s]>>

\* Its keyword search learns what a query has found, and the query goes on.
Index(s) ==
  /\ \E r \in Requests :
       /\ indexed[s] \subseteq indexed'[s] /\ indexed'[s] \subseteq indexed[s] \cup held[s][r]
       /\ Finds(s, r, held[s][r] \cup indexed[s])
  /\ UNCHANGED <<stored[s], ranked[s], answers[s]>>

\* Its reranker remembers what it chose of what a query has found.
Rank(s) ==
  /\ \E r \in Requests :
       /\ ranked'[s] \subseteq ranked[s] \cup SUBSET held[s][r]
       /\ Finds(s, r, held[s][r])
  /\ UNCHANGED <<stored[s], indexed[s], answers[s]>>

\* A query goes on with what was found before it: a choice of the reranker's,
RankAgain(s) ==
  /\ \E r \in Requests, context \in ranked[s] : Finds(s, r, context)
  /\ UNCHANGED <<stored[s], indexed[s], ranked[s], answers[s]>>

\* or an answer.
Recall(s) ==
  /\ \E r \in Requests :
       /\ held'[s][r] \in answers[s]
       /\ \A q \in Requests \ {r} : held'[s][q] = held[s][q]
  /\ UNCHANGED <<stored[s], indexed[s], ranked[s], answers[s]>>

\* An answer is kept, for which others may have to go.
Keep(s) ==
  /\ \E r \in Requests : answers'[s] \subseteq answers[s] \cup {held[s][r]}
  /\ UNCHANGED <<stored[s], indexed[s], ranked[s], held[s]>>

Forget(s) ==
  /\ answers'[s] \subseteq answers[s]
  /\ UNCHANGED <<stored[s], indexed[s], ranked[s], held[s]>>

Reset(s) ==
  /\ stored'[s] = IF s = Default THEN {} ELSE stored[s]
  /\ indexed'[s] = IF s = Default THEN indexed[s] ELSE {}
  /\ ranked'[s] = IF s = Default THEN ranked[s] ELSE {}
  /\ UNCHANGED <<answers[s], held[s]>>

\* Nothing, too, is a way to forget.
PStep(s) ==
  \/ Forget(s)
  \/ Add(s) \/ Search(s) \/ Index(s) \/ Rank(s)
  \/ RankAgain(s) \/ Recall(s) \/ Keep(s) \/ Reset(s)

PNext == \A s \in Scopes : PStep(s)

PSpec == PInit /\ [][PNext]_pbVars
=============================================================================
