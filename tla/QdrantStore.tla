---------------------------- MODULE QdrantStore ----------------------------
(***************************************************************************)
(* QdrantVectorStore (ragbot/rag/store/qdrant_store.py): one collection of *)
(* a Qdrant server and the store objects that write to it, one in each     *)
(* process.  A request runs in a thread of its own, so other calls come    *)
(* between two requests of a call; the test of the vectors' size at the    *)
(* head of add_documents, and the recreation that follows it, run on the   *)
(* event loop, where only threads and other processes come between them.   *)
(* Any request may fail and any process may stop between two requests.     *)
(* The server is external: it refuses points of another size, points for a *)
(* collection it does not have, and a collection it has already.           *)
(***************************************************************************)
EXTENDS FiniteSets

CONSTANTS
  Points,         \* identifiers of documents
  Stores,         \* store objects, one in each process
  StoreCalls,     \* calls that may run at the same time
  Gone,           \* no collection, no store object
  Sizes,          \* sizes of embeddings
  ConfiguredSize  \* settings.store.qdrant_vector_size

ASSUME QdrantAssumption ==
  /\ ConfiguredSize \in Sizes
  /\ Gone \notin Sizes \cup Stores \cup [size : Sizes, points : SUBSET Points]

VARIABLES
  collection,  \* on the server: Gone, or its size and its points
  vectorSize,  \* self.vector_size of each store object, Gone while there is none
  storeCall,   \* the calls: what each does, and where it is
  owed,        \* points acknowledged, and neither deleted nor cleared since
  overtaken,   \* points lost to a recreation that had not counted them
  abandoned    \* a collection was dropped and creating it failed

qdrantVars == <<collection, vectorSize, storeCall, owed, overtaken, abandoned>>

\* A call: its store and place; the points it has to upsert or delete, those it
\* has put; the size of its vectors; and the points there were when it counted.
CallOn(s) ==
  [at |-> "idle", op |-> "add", store |-> s, left |-> {}, put |-> {}, size |-> ConfiguredSize,
   counted |-> {}]

NoStoreCall == CallOn(Gone)

CallPlaces ==
  {"idle", "measure", "look", "upsert", "delete", "drop", "recreate", "create", "return"}

QdrantInit ==
  /\ collection = Gone
  /\ vectorSize = [s \in Stores |-> Gone]
  /\ storeCall = [c \in StoreCalls |-> NoStoreCall]
  /\ owed = {} /\ overtaken = {}
  /\ abandoned = FALSE

Goes(c, place) == storeCall' = [storeCall EXCEPT ![c].at = place]

\* A call ends: of a call that raised nothing is left but what its requests did.
Ends(c) == storeCall' = [storeCall EXCEPT ![c] = NoStoreCall]

\* The event loop of a store's process is inside the size test of add_documents.
LoopBusy(s) ==
  \E c \in StoreCalls : storeCall[c].store = s /\ storeCall[c].op = "add"
                          /\ storeCall[c].at \in {"measure", "drop", "recreate"}

StartsCall(c, s, call) ==
  /\ storeCall[c].at = "idle" /\ ~LoopBusy(s)
  /\ storeCall' = [storeCall EXCEPT ![c] = call]
  /\ UNCHANGED <<collection, vectorSize, owed, overtaken, abandoned>>

\* The constructor, on the event loop as well: the collection is looked for first.
OpenStore(c, s) ==
  /\ vectorSize[s] = Gone
  /\ ~\E d \in StoreCalls : storeCall[d].store = s
  /\ StartsCall(c, s, [CallOn(s) EXCEPT !.at = "look", !.op = "open"])

AddDocuments(c, s, documents, size) ==
  /\ vectorSize[s] # Gone
  /\ StartsCall(c, s,
       [CallOn(s) EXCEPT !.at = IF size = vectorSize[s] THEN "upsert" ELSE "measure",
                           !.left = documents, !.size = size])

StartDelete(c, s, documents) ==
  /\ vectorSize[s] # Gone
  /\ StartsCall(c, s, [CallOn(s) EXCEPT !.at = "delete", !.op = "delete", !.left = documents])

StartClear(c, s) ==
  /\ vectorSize[s] # Gone
  /\ StartsCall(c, s, [CallOn(s) EXCEPT !.at = "drop", !.op = "clear"])

\* _ensure_collection_exists: there is nothing to create, or a collection to create.
EnsureCollection(c) ==
  /\ storeCall[c].at = "look"
  /\ IF collection # Gone
       THEN /\ vectorSize' = [vectorSize EXCEPT ![storeCall[c].store] = ConfiguredSize]
            /\ Ends(c)
       ELSE Goes(c, "create") /\ UNCHANGED vectorSize
  /\ UNCHANGED <<collection, owed, overtaken, abandoned>>

SeemsEmptyUncounted(failed) == TRUE

\* The collection seems empty: it is, it is not there, or the count failed (`failed`).
SeemsEmpty(failed) == failed \/ collection = Gone \/ collection.points = {}

\* add_documents with vectors of another size: a collection that seems empty is
\* made anew with their size; the error raised otherwise is swallowed, and the
\* points are sent all the same.
MeasureVectors(c) ==
  /\ storeCall[c].at = "measure"
  /\ \E failed \in BOOLEAN :
       storeCall' = [storeCall EXCEPT
         ![c].at = IF SeemsEmpty(failed) THEN "drop" ELSE "upsert",
         ![c].counted = IF failed \/ collection = Gone THEN {} ELSE collection.points]
  /\ UNCHANGED <<collection, vectorSize, owed, overtaken, abandoned>>

DropForGood(c) ==
  /\ storeCall[c].at = "drop" /\ storeCall[c].op = "clear"
  /\ collection' = Gone
  /\ owed' = {}
  /\ storeCall' = [d \in StoreCalls |->
       [storeCall[d] EXCEPT !.put = {}, !.at = IF d = c THEN "return" ELSE @]]
  /\ UNCHANGED <<vectorSize, overtaken, abandoned>>

\* clear: delete_collection; the server takes a collection it does not have for a success.
DropToClear(c) ==
  /\ storeCall[c].at = "drop" /\ storeCall[c].op = "clear"
  /\ collection' = Gone
  /\ owed' = {}
  /\ storeCall' = [d \in StoreCalls |->
       [storeCall[d] EXCEPT !.put = {}, !.at = IF d = c THEN "create" ELSE @]]
  /\ UNCHANGED <<vectorSize, overtaken, abandoned>>

\* The drop of the size test.
DropToResize(c) ==
  /\ storeCall[c].at = "drop" /\ storeCall[c].op = "add"
  /\ collection' = Gone
  /\ overtaken' =
       overtaken \cup (IF collection = Gone THEN {} ELSE collection.points \ storeCall[c].counted)
  /\ Goes(c, "recreate")
  /\ UNCHANGED <<vectorSize, owed, abandoned>>

\* The drop fails, and the failure is suppressed.
ResizeWithoutDrop(c) ==
  /\ storeCall[c].at = "drop" /\ storeCall[c].op = "add"
  /\ Goes(c, "recreate")
  /\ UNCHANGED <<collection, vectorSize, owed, overtaken, abandoned>>

\* create_collection of clear and of the constructor.
NewSize(c) ==
  IF storeCall[c].op = "clear" THEN vectorSize[storeCall[c].store] ELSE ConfiguredSize

Create(c) ==
  /\ storeCall[c].at = "create" /\ collection = Gone
  /\ collection' = [size |-> NewSize(c), points |-> {}]
  /\ vectorSize' = [vectorSize EXCEPT ![storeCall[c].store] = NewSize(c)]
  /\ abandoned' = FALSE
  /\ IF storeCall[c].op = "open" THEN Ends(c) ELSE Goes(c, "return")
  /\ UNCHANGED <<owed, overtaken>>

\* create_collection of the size test, and the size it sets.
Recreate(c) ==
  /\ storeCall[c].at = "recreate" /\ collection = Gone
  /\ collection' = [size |-> storeCall[c].size, points |-> {}]
  /\ vectorSize' = [vectorSize EXCEPT ![storeCall[c].store] = storeCall[c].size]
  /\ abandoned' = FALSE
  /\ Goes(c, "upsert")
  /\ UNCHANGED <<owed, overtaken>>

\* It fails, or finds a collection: the size test swallows that.
RecreateFails(c) ==
  /\ storeCall[c].at = "recreate"
  /\ abandoned' = (abandoned \/ collection = Gone)
  /\ Goes(c, "upsert")
  /\ UNCHANGED <<collection, vectorSize, owed, overtaken>>

\* One batch of points: qdrant_batch_size is 1.
Upsert(c) ==
  /\ storeCall[c].at = "upsert" /\ collection # Gone
  /\ collection.size = storeCall[c].size
  /\ \E p \in storeCall[c].left :
       /\ collection' = [collection EXCEPT !.points = @ \cup {p}]
       /\ overtaken' = overtaken \ {p}
       /\ storeCall' = [storeCall EXCEPT
            ![c].left = @ \ {p}, ![c].put = @ \cup {p},
            ![c].at = IF storeCall[c].left = {p} THEN "return" ELSE "upsert"]
  /\ UNCHANGED <<vectorSize, owed, abandoned>>

\* One request deletes all the points of a call.
DeletePoints(c) ==
  /\ storeCall[c].at = "delete" /\ collection # Gone
  /\ LET points == storeCall[c].left IN
       /\ collection' = [collection EXCEPT !.points = @ \ points]
       /\ owed' = owed \ points
       /\ storeCall' = [d \in StoreCalls |->
            [storeCall[d] EXCEPT !.put = @ \ points, !.at = IF d = c THEN "return" ELSE @]]
  /\ UNCHANGED <<vectorSize, overtaken, abandoned>>

\* A request fails, by itself or because the server refuses it, and the call with it.
RequestFails(c) ==
  /\ storeCall[c].at \in {"look", "upsert", "delete", "create"}
       \/ (storeCall[c].at = "drop" /\ storeCall[c].op = "clear")
  /\ abandoned' = (abandoned \/ (storeCall[c].at = "create" /\ collection = Gone))
  /\ Ends(c)
  /\ UNCHANGED <<collection, vectorSize, owed, overtaken>>

\* The call returns on the event loop: the points it added are acknowledged.
Return(c) ==
  /\ storeCall[c].at = "return" /\ ~LoopBusy(storeCall[c].store)
  /\ owed' = owed \cup storeCall[c].put
  /\ Ends(c)
  /\ UNCHANGED <<collection, vectorSize, overtaken, abandoned>>

\* The process stops: its calls end where they are.
StoreStops(s) ==
  /\ vectorSize[s] # Gone
  /\ vectorSize' = [vectorSize EXCEPT ![s] = Gone]
  /\ abandoned' = (abandoned \/ \E c \in StoreCalls :
                     storeCall[c].store = s /\ storeCall[c].at \in {"recreate", "create"})
  /\ storeCall' = [c \in StoreCalls |->
       IF storeCall[c].store = s THEN NoStoreCall ELSE storeCall[c]]
  /\ UNCHANGED <<collection, owed, overtaken>>

QdrantNext ==
  \/ \E c \in StoreCalls :
       \/ EnsureCollection(c) \/ MeasureVectors(c) \/ DropToClear(c) \/ DropToResize(c)
       \/ ResizeWithoutDrop(c) \/ Create(c) \/ Recreate(c) \/ RecreateFails(c)
       \/ Upsert(c) \/ DeletePoints(c) \/ RequestFails(c) \/ Return(c)
       \/ \E s \in Stores :
            \/ OpenStore(c, s) \/ StartClear(c, s)
            \/ \E documents \in SUBSET Points \ {{}} :
                 \/ StartDelete(c, s, documents)
                 \/ \E size \in Sizes : AddDocuments(c, s, documents, size)
  \/ \E s \in Stores : StoreStops(s)

QdrantSpec == QdrantInit /\ [][QdrantNext]_qdrantVars

-----------------------------------------------------------------------------
QdrantTypeOK ==
  /\ collection \in {Gone} \cup [size : Sizes, points : SUBSET Points]
  /\ vectorSize \in [Stores -> Sizes \cup {Gone}]
  /\ storeCall \in [StoreCalls -> [at : CallPlaces, op : {"open", "add", "delete", "clear"},
       store : Stores \cup {Gone}, left : SUBSET Points, put : SUBSET Points, size : Sizes,
       counted : SUBSET Points]]
  /\ owed \subseteq Points /\ overtaken \subseteq Points /\ abandoned \in BOOLEAN

Held == IF collection = Gone THEN {} ELSE collection.points

\* A document the store acknowledged is found until it is deleted or cleared,
\* whoever else writes, unless a collection made anew for another size had not
\* counted it: get_document_count answers 0 when it fails, and a document may
\* arrive between the count and the drop.
LostOnlyUncounted == owed \subseteq Held \cup overtaken

\* Between the drop of a collection and its creation calls fail, and no longer:
\* a collection is missing only while a call is about to create it or after that
\* failed, and before any store was opened.
MissingOnlyByFailure ==
  collection = Gone =>
    \/ abandoned
    \/ \E c \in StoreCalls : storeCall[c].at \in {"create", "recreate"}
    \/ \A s \in Stores : vectorSize[s] = Gone
=============================================================================
