----------------------------- MODULE FaissStore -----------------------------
(***************************************************************************)
(* FAISSVectorStore: one vector index in memory, saved as three files.     *)
(*                                                                         *)
(* The asyncio lock of the store serializes its operations, and a save     *)
(* awaits nothing, so within one process nothing runs between its steps.   *)
(* What can happen there is that a file operation fails, which raises and  *)
(* leaves memory as it was changed, or that the process dies and a new one *)
(* loads what is on disk.                                                  *)
(*                                                                         *)
(* A vector is represented by the document it was computed from, those of  *)
(* contents the document no longer has apart from the others.              *)
(***************************************************************************)
EXTENDS Naturals, FiniteSets

CONSTANTS
  Docs,      \* document (chunk) identifiers
  NoDoc,     \* no document has the FAISS id
  MaxId      \* bound of the FAISS ids

ASSUME FaissAssumption ==
  /\ IsFiniteSet(Docs)
  /\ NoDoc \notin Docs
  /\ MaxId \in Nat \ {0}

Ids == 1 .. MaxId
NoId == 0

VARIABLES
  (* memory *)
  index,    \* vectors: pairs of a FAISS id and the document it represents
  old,      \* the same of vectors that the index should not hold: of a document
            \* deleted or updated since, or added twice by one batch
  docs,     \* keys of the documents dictionary
  maps,     \* docid_to_faissid, faissid_to_docid and _next_faiss_id
  (* disk *)
  present,  \* which of the three files exist
  indexFile, oldFile, docsFile, mapsFile,  \* what they hold, if they do
  (* the operation under way *)
  step,     \* the next step of its save, or "idle"
  adding,   \* identifiers it returns to its caller
  (* history, read by no action *)
  acked,    \* documents whose addition was reported to the caller, and whose
            \* deletion was not asked for since
  flaws,    \* what memory has been through: "mixed", it was loaded from files of
            \* different saves; "update", an update was refused half way
  diskFlaws \* what a process that loads the files would have been through

memoryVars == <<index, old, docs, maps>>
disk == <<present, indexFile, oldFile, docsFile, mapsFile>>
vars == <<memoryVars, disk, step, adding, acked, flaws, diskFlaws>>

Vectors == Ids \X Docs
Maps == [fidOf : [Docs -> Ids \cup {NoId}], docOf : [Ids -> Docs \cup {NoDoc}],
         nextId : 1 .. MaxId + 1]
Files == {"faiss.index", "documents.json", "metadata.json"}
SaveSteps ==
  {"moveIndex", "putIndex", "moveDocs", "putDocs", "moveMaps", "putMaps"}

NoMaps == [fidOf |-> [d \in Docs |-> NoId], docOf |-> [f \in Ids |-> NoDoc],
           nextId |-> 1]

TypeOK ==
  /\ index \in SUBSET Vectors /\ old \in SUBSET Vectors
  /\ docs \in SUBSET Docs
  /\ maps \in Maps
  /\ present \in SUBSET Files
  /\ indexFile \in SUBSET Vectors /\ oldFile \in SUBSET Vectors
  /\ docsFile \in SUBSET Docs
  /\ mapsFile \in Maps
  /\ step \in SaveSteps \cup {"idle"}
  /\ adding \in SUBSET Docs
  /\ acked \in SUBSET Docs
  /\ flaws \in SUBSET {"mixed", "update"}
  /\ diskFlaws \in SUBSET {"mixed", "update"}

\* A new directory.
Init ==
  /\ index = {} /\ old = {} /\ docs = {} /\ maps = NoMaps
  /\ present = {} /\ indexFile = {} /\ oldFile = {} /\ docsFile = {} /\ mapsFile = NoMaps
  /\ step = "idle" /\ adding = {}
  /\ acked = {} /\ flaws = {} /\ diskFlaws = {}

-----------------------------------------------------------------------------
(* Operations: what they do to memory before they save *)

BeginSave(returned) ==
  /\ step' = "moveIndex"
  /\ adding' = returned
  /\ UNCHANGED <<disk, diskFlaws>>

\* Ways to give each document of new that has no FAISS id one of the next free
\* ones, in the order of the batch.
Fresh(new) ==
  LET fresh == {d \in new : maps.fidOf[d] = NoId}
      next  == maps.nextId .. maps.nextId + Cardinality(fresh) - 1
  IN  {f \in [fresh -> next \cap Ids] : \A d, e \in fresh : f[d] = f[e] => d = e}

\* The maps with the documents in f's domain added.
Extended(f, nextId) ==
  [fidOf  |-> [d \in Docs |-> IF d \in DOMAIN f THEN f[d] ELSE maps.fidOf[d]],
   docOf  |-> [i \in Ids |-> IF \E d \in DOMAIN f : f[d] = i
                             THEN CHOOSE d \in DOMAIN f : f[d] = i ELSE maps.docOf[i]],
   nextId |-> nextId]

\* Mutant: the counter also advances for a document that has its id already.
AllocationsOfAll(new) ==
  {Extended(f, maps.nextId + Cardinality(new)) : f \in Fresh(new)}

\* The maps once every document of new has a FAISS id.
Allocations(new) ==
  {Extended(f, maps.nextId + Cardinality(DOMAIN f)) : f \in Fresh(new)}

\* remove_ids of the vectors under the ids fids, whose failure is suppressed (an
\* HNSW index cannot remove), then the addition of others: a vector of ds that
\* stays is an old one.
ReplaceVectors(fids, ds, others) ==
  \E removed \in {fids, {}} :
    LET left == {v \in index : v[1] \notin removed}
    IN  /\ index' = {v \in left : v[2] \notin ds} \cup others
        /\ old' = {v \in old : v[1] \notin removed} \cup {v \in left : v[2] \in ds}

\* add_documents of a batch: documents already there are skipped.  One that the
\* batch holds twice gets two vectors under its id, and is kept as it came last.
AddDocuments(batch) ==
  LET new == batch \ docs
  IN  /\ step = "idle"
      /\ new # {}
      /\ \E m \in Allocations(new) :
           /\ maps' = m
           /\ index' = index \cup {<<m.fidOf[d], d>> : d \in new}
           /\ \E twice \in SUBSET new : old' = old \cup {<<m.fidOf[d], d>> : d \in twice}
      /\ docs' = docs \cup new
      /\ BeginSave(new)
      /\ UNCHANGED <<acked, flaws>>

\* add_documents of embeddings of another dimension: the exception is raised
\* after the FAISS ids were allocated.
RejectDocuments(batch) ==
  LET new == batch \ docs
  IN  /\ step = "idle"
      /\ new # {}
      /\ maps' \in Allocations(new)
      /\ UNCHANGED <<index, old, docs, disk, step, adding, acked, flaws, diskFlaws>>

\* Mutant: the old vector is not looked up by its FAISS id.
UpdateDocumentAnew(d) ==
  /\ step = "idle"
  /\ d \in docs
  /\ maps.nextId <= MaxId
  /\ index' = index \cup {<<maps.nextId, d>>}
  /\ BeginSave({d})
  /\ UNCHANGED <<old, docs, maps, acked, flaws>>

\* update_documents: the vectors under the document's FAISS id are replaced.
\* A document that lost its FAISS id gets the next one, which stays free.
UpdateDocument(d) ==
  LET f == IF maps.fidOf[d] = NoId THEN maps.nextId ELSE maps.fidOf[d]
  IN  /\ step = "idle"
      /\ d \in docs
      /\ f <= MaxId
      /\ ReplaceVectors({maps.fidOf[d]}, {d}, {<<f, d>>})
      /\ BeginSave({d})
      /\ UNCHANGED <<docs, maps, acked, flaws>>

\* update_documents with an embedding of another dimension: the old vector is
\* gone when the new one is refused, once under the document's FAISS id and once
\* under a fresh one.  The exception leaves memory like this, unsaved; what a
\* batch updated before it is an UpdateDocument whose save fails.
RefuseUpdate(d) ==
  /\ step = "idle"
  /\ d \in docs
  /\ maps.nextId <= MaxId
  /\ ReplaceVectors({maps.fidOf[d]}, {}, {})
  /\ maps' = Extended([e \in {d} |-> maps.nextId], maps.nextId + 1)
  /\ flaws' = flaws \cup {"update"}
  /\ UNCHANGED <<docs, disk, step, adding, acked, diskFlaws>>

\* Mutant: the reverse map keeps the deleted document.
DeleteDocumentsForward(batch) ==
  LET gone == batch \cap docs
      fids == {maps.fidOf[d] : d \in gone}
  IN  /\ step = "idle"
      /\ gone # {}
      /\ ReplaceVectors(fids, gone, {})
      /\ maps' = [maps EXCEPT !.fidOf = [d \in Docs |-> IF d \in gone THEN NoId ELSE @[d]]]
      /\ docs' = docs \ gone
      /\ acked' = acked \ gone
      /\ BeginSave({})
      /\ UNCHANGED flaws

\* delete_documents.
DeleteDocuments(batch) ==
  LET gone == batch \cap docs
      fids == {maps.fidOf[d] : d \in gone}
  IN  /\ step = "idle"
      /\ gone # {}
      /\ ReplaceVectors(fids, gone, {})
      /\ maps' = [maps EXCEPT
                    !.fidOf = [d \in Docs |-> IF d \in gone THEN NoId ELSE @[d]],
                    !.docOf = [i \in Ids |-> IF i \in fids THEN NoDoc ELSE @[i]]]
      /\ docs' = docs \ gone
      /\ acked' = acked \ gone
      /\ BeginSave({})
      /\ UNCHANGED flaws

\* clear: everything is made anew.
Clear ==
  /\ step = "idle"
  /\ index' = {} /\ old' = {} /\ docs' = {} /\ maps' = NoMaps
  /\ acked' = {} /\ flaws' = {}
  /\ BeginSave({})

-----------------------------------------------------------------------------
(* _save_internal *)

\* A file that is there is renamed to its .bak, which is never read (a failure of
\* this rename is suppressed), then the new one is renamed into its place: index,
\* documents and metadata in this order.
Move(file, next) ==
  /\ step' = next
  /\ \/ UNCHANGED <<disk, diskFlaws>>
     \/ /\ file \in present
        /\ present' = present \ {file}
        /\ indexFile' = IF "faiss.index" \in present' THEN indexFile ELSE {}
        /\ oldFile' = IF "faiss.index" \in present' THEN oldFile ELSE {}
        /\ docsFile' = IF "documents.json" \in present' THEN docsFile ELSE {}
        /\ mapsFile' = IF "metadata.json" \in present' THEN mapsFile ELSE NoMaps
        /\ diskFlaws' = diskFlaws \cup {"mixed"}
  /\ UNCHANGED <<memoryVars, adding, acked, flaws>>

MoveIndex == step = "moveIndex" /\ Move("faiss.index", "putIndex")
MoveDocs == step = "moveDocs" /\ Move("documents.json", "putDocs")
MoveMaps == step = "moveMaps" /\ Move("metadata.json", "putMaps")

PutIndex ==
  /\ step = "putIndex" /\ step' = "moveDocs"
  /\ indexFile' = index /\ oldFile' = old
  /\ present' = present \cup {"faiss.index"}
  /\ diskFlaws' = diskFlaws \cup flaws \cup {"mixed"}
  /\ UNCHANGED <<memoryVars, docsFile, mapsFile, adding, acked, flaws>>

PutDocs ==
  /\ step = "putDocs" /\ step' = "moveMaps"
  /\ docsFile' = docs
  /\ present' = present \cup {"documents.json"}
  /\ UNCHANGED <<memoryVars, indexFile, oldFile, mapsFile, adding, acked, flaws,
                 diskFlaws>>

\* The operation reports success.
Succeed ==
  /\ step' = "idle"
  /\ acked' = acked \cup adding
  /\ adding' = {}
  /\ diskFlaws' = flaws

\* Mutant: the metadata file is written without the FAISS ids it maps.
PutMapsOfNone ==
  /\ step = "putMaps"
  /\ mapsFile' = [NoMaps EXCEPT !.nextId = maps.nextId]
  /\ present' = present \cup {"metadata.json"}
  /\ Succeed
  /\ UNCHANGED <<memoryVars, indexFile, oldFile, docsFile, flaws>>

PutMaps ==
  /\ step = "putMaps"
  /\ mapsFile' = maps
  /\ present' = present \cup {"metadata.json"}
  /\ Succeed
  /\ UNCHANGED <<memoryVars, indexFile, oldFile, docsFile, flaws>>

SaveStep == MoveIndex \/ PutIndex \/ MoveDocs \/ PutDocs \/ MoveMaps \/ PutMaps

\* A write or a rename fails: VectorStoreError, and memory stays changed.
SaveFails ==
  /\ step # "idle"
  /\ step' = "idle"
  /\ adding' = {}
  /\ UNCHANGED <<memoryVars, disk, acked, flaws, diskFlaws>>

-----------------------------------------------------------------------------
\* __init__ reads nothing unless faiss.index exists, then every file that does.
LoadedIndex == IF "faiss.index" \in present THEN indexFile ELSE {}
LoadedOld == IF "faiss.index" \in present THEN oldFile ELSE {}
LoadedDocs ==
  IF {"faiss.index", "documents.json"} \subseteq present THEN docsFile ELSE {}

\* Mutant: the next free id is not read back.
LoadedMapsCountingAnew ==
  IF {"faiss.index", "metadata.json"} \subseteq present THEN [mapsFile EXCEPT !.nextId = 1]
  ELSE NoMaps

LoadedMaps ==
  IF {"faiss.index", "metadata.json"} \subseteq present THEN mapsFile ELSE NoMaps

\* The process ends, between operations or inside a save, and the next one
\* constructs the store on the same directory.
Restart ==
  /\ index' = LoadedIndex /\ old' = LoadedOld
  /\ docs' = LoadedDocs /\ maps' = LoadedMaps
  /\ step' = "idle" /\ adding' = {}
  /\ flaws' = diskFlaws
  /\ UNCHANGED <<disk, acked, diskFlaws>>

Next ==
  \/ \E batch \in SUBSET Docs :
       AddDocuments(batch) \/ RejectDocuments(batch) \/ DeleteDocuments(batch)
  \/ \E d \in Docs : UpdateDocument(d) \/ RefuseUpdate(d)
  \/ Clear
  \/ SaveStep \/ SaveFails
  \/ Restart

Spec == Init /\ [][Next]_vars

-----------------------------------------------------------------------------
(* Properties *)

\* A search for the document's own embedding can return it.
Findable(d) ==
  d \in docs /\ \E f \in Ids : <<f, d>> \in index /\ maps.docOf[f] = d

\* A mapped document's id leads back to it and is below the next free one: in
\* every process, whatever was found on disk, since the metadata file holds all
\* three.  Unless an update was refused, no other id leads to it either.
MapsAgree ==
  /\ \A d \in Docs : maps.fidOf[d] # NoId => maps.docOf[maps.fidOf[d]] = d
  /\ \A f \in Ids : maps.docOf[f] # NoDoc => f < maps.nextId
  /\ "update" \notin flaws =>
       \A d \in Docs, f \in Ids : maps.docOf[f] = d => maps.fidOf[d] = f

\* Unless a process loaded mixed files or refused an update, the index holds
\* one vector of the present contents of each document, under the id that leads
\* back to it.  An old vector, which stays when a removal fails or a batch names
\* a document twice, is under an id that leads to its own document or to none:
\* no search result belongs to another document, and no failed save, failed
\* removal, rejected batch or restart makes two documents share an id.
Coherent ==
  flaws = {} =>
    /\ \A d \in docs : maps.fidOf[d] # NoId
    /\ index = {<<maps.fidOf[d], d>> : d \in docs}
    /\ \A v \in old : maps.docOf[v[1]] \in {v[2], NoDoc}

\* In such a process, what add_documents reported as added is found, after any
\* number of failed saves and restarts.
AckedFindable == flaws = {} => \A d \in acked : Findable(d)

\* Operations of several steps on an index, two maps and three files are those of
\* one durable set of documents: a search finds what was added and not deleted,
\* a restart finds what the last save that ended had found, so that nothing saved
\* is lost, nothing deleted comes back, and nothing else appears.
FoundIn(vectors, documents, docOf) ==
  {d \in documents : \E f \in Ids : <<f, d>> \in vectors /\ docOf[f] = d}
Broken == {NoDoc}
Documents == INSTANCE SavedDocuments
  WITH found <- IF flaws = {} THEN FoundIn(index, docs, maps.docOf) ELSE Broken,
       saved <- IF diskFlaws = {} THEN FoundIn(LoadedIndex, LoadedDocs, LoadedMaps.docOf)
                ELSE Broken
IsDurableSet == Documents!SSpec

\* The class promises "persistence, atomic operations" (faiss_store.py:213):
\* what was reported as added is found by every later process.  A process that
\* dies while it saves something else refutes it.
AckedSurvivesCrash == "update" \notin flaws => \A d \in acked : Findable(d)

\* The same promise: an update that raises changed nothing, so what was
\* reported as added is still found.  An embedding of another dimension
\* refutes it: its document cannot be found any more.
AckedSurvivesUpdate == "mixed" \notin flaws => \A d \in acked : Findable(d)
=============================================================================
