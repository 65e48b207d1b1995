-------------------------- MODULE FaissStore_proofs --------------------------
(***************************************************************************)
(* Theorems about FaissStore, for any finite set of documents, any number  *)
(* of FAISS ids, and any sequence of operations, failed saves and deaths   *)
(* of the process.  At the end, what follows for MCIngestion, which puts   *)
(* the store beside the chunkers.                                          *)
(***************************************************************************)
EXTENDS MCIngestion, Parts_proofs, FiniteSetTheorems, TLAPS

USE FaissAssumption DEF NoId

-----------------------------------------------------------------------------
(* Allocation of FAISS ids *)

\* The documents of a batch that have no FAISS id.
Unmapped(new) == {d \in new : maps.fidOf[d] = NoId}

\* Documents without an id get some of the next free ones, each its own.
LEMMA FreshIds ==
  ASSUME maps \in Maps, NEW new \in SUBSET Docs, NEW f \in Fresh(new)
  PROVE  /\ DOMAIN f = Unmapped(new)
         /\ Cardinality(DOMAIN f) \in Nat
         /\ maps.nextId + Cardinality(DOMAIN f) <= MaxId + 1
         /\ \A d \in DOMAIN f : /\ f[d] \in Ids /\ maps.nextId <= f[d]
                                /\ f[d] < maps.nextId + Cardinality(DOMAIN f)
         /\ \A d, e \in DOMAIN f : f[d] = f[e] => d = e
<1> DEFINE fresh == {d \in new : maps.fidOf[d] = NoId}
           n == Cardinality(fresh)
           next == maps.nextId .. maps.nextId + n - 1
<1>1. f \in [fresh -> next \cap Ids] /\ \A d, e \in fresh : f[d] = f[e] => d = e
  BY DEF Fresh
<1>2. IsFiniteSet(fresh) /\ n \in Nat
  <2>1. fresh \in SUBSET Docs /\ IsFiniteSet(Docs)
    OBVIOUS
  <2>2. IsFiniteSet(fresh)
    BY <2>1, FS_Subset
  <2> QED BY <2>2, FS_CardinalityType
<1>3. maps.nextId \in 1 .. MaxId + 1 /\ MaxId \in Nat
  BY DEF Maps
<1>4. maps.nextId + n <= MaxId + 1
  <2> SUFFICES ASSUME maps.nextId + n > MaxId + 1 PROVE FALSE
    BY <1>2, <1>3
  <2> DEFINE free == maps.nextId .. MaxId
  <2>1. f \in [fresh -> free]
    BY <1>1, <1>2, <1>3 DEF Ids
  <2>2. IsFiniteSet(free) /\ Cardinality(free) = MaxId - maps.nextId + 1
    <3>1. maps.nextId \in Int /\ MaxId \in Int /\ maps.nextId <= MaxId + 1
      BY <1>3
    <3>2. IsFiniteSet(free)
      BY <3>1, FS_Interval
    <3>3. Cardinality(free) = IF maps.nextId > MaxId THEN 0 ELSE MaxId - maps.nextId + 1
      BY <3>1, FS_Interval
    <3> QED BY <3>1, <3>2, <3>3
  <2>3. Cardinality(free) < n
    BY <1>2, <1>3, <2>2
  <2>4. \E d, e \in fresh : d # e /\ f[d] = f[e]
    <3> HIDE DEF fresh, free
    <3> QED BY <1>2, <2>1, <2>2, <2>3, FS_PigeonHole
  <2> QED BY <1>1, <2>4
<1>5. \A d \in fresh : f[d] \in Ids /\ maps.nextId <= f[d] /\ f[d] < maps.nextId + n
  BY <1>1, <1>2, <1>3 DEF Ids
<1> QED
  BY <1>1, <1>2, <1>4, <1>5 DEF Unmapped

\* An injective extension of the maps leads from each new document to its id and back.
LEMMA ExtendedMaps ==
  ASSUME maps \in Maps, NEW f, DOMAIN f \subseteq Docs, NEW next \in 1 .. MaxId + 1,
         \A d \in DOMAIN f : f[d] \in Ids,
         \A d, e \in DOMAIN f : f[d] = f[e] => d = e
  PROVE  /\ Extended(f, next) \in Maps
         /\ Extended(f, next).nextId = next
         /\ \A d \in Docs : Extended(f, next).fidOf[d] =
                              IF d \in DOMAIN f THEN f[d] ELSE maps.fidOf[d]
         /\ \A d \in DOMAIN f : Extended(f, next).docOf[f[d]] = d
         /\ \A i \in Ids : (~\E d \in DOMAIN f : f[d] = i)
                             => Extended(f, next).docOf[i] = maps.docOf[i]
<1> DEFINE new(i) == CHOOSE d \in DOMAIN f : f[d] = i
           fids == [d \in Docs |-> IF d \in DOMAIN f THEN f[d] ELSE maps.fidOf[d]]
           back == [i \in Ids |-> IF \E d \in DOMAIN f : f[d] = i THEN new(i)
                                  ELSE maps.docOf[i]]
<1>1. Extended(f, next) = [fidOf |-> fids, docOf |-> back, nextId |-> next]
  BY DEF Extended
<1>2. fids \in [Docs -> Ids \cup {NoId}]
  BY DEF Maps
<1>3. \A i \in Ids : (\E d \in DOMAIN f : f[d] = i) => new(i) \in DOMAIN f /\ f[new(i)] = i
  OBVIOUS
<1>4. back \in [Ids -> Docs \cup {NoDoc}]
  <2>1. \A i \in Ids : (IF \E d \in DOMAIN f : f[d] = i THEN new(i) ELSE maps.docOf[i])
                         \in Docs \cup {NoDoc}
    BY <1>3 DEF Maps
  <2> QED BY <2>1
<1>5. \A d \in DOMAIN f : back[f[d]] = d
  <2> TAKE d \in DOMAIN f
  <2>1. new(f[d]) \in DOMAIN f /\ f[new(f[d])] = f[d]
    BY <1>3
  <2>2. new(f[d]) = d
    BY <2>1
  <2>3. back[f[d]] = new(f[d])
    OBVIOUS
  <2> QED BY <2>2, <2>3
<1> HIDE DEF new
<1>6. \A i \in Ids : (~\E d \in DOMAIN f : f[d] = i) => back[i] = maps.docOf[i]
  OBVIOUS
<1>7. \A d \in Docs : fids[d] = IF d \in DOMAIN f THEN f[d] ELSE maps.fidOf[d]
  OBVIOUS
<1> HIDE DEF fids, back
<1> QED
  BY <1>1, <1>2, <1>4, <1>5, <1>6, <1>7 DEF Maps

\* The maps that add_documents can make: the documents without an id get free ones.
LEMMA AllocatedMaps ==
  ASSUME maps \in Maps, NEW new \in SUBSET Docs, NEW m \in Allocations(new)
  PROVE  \E f \in Fresh(new), next \in 1 .. MaxId + 1 :
           /\ m = Extended(f, next)
           /\ maps.nextId <= next
           /\ DOMAIN f = Unmapped(new)
           /\ \A d \in DOMAIN f : f[d] \in Ids /\ maps.nextId <= f[d] /\ f[d] < next
           /\ \A d, e \in DOMAIN f : f[d] = f[e] => d = e
<1>1. PICK f \in Fresh(new) : m = Extended(f, maps.nextId + Cardinality(DOMAIN f))
  BY DEF Allocations
<1>2. maps.nextId \in 1 .. MaxId + 1
  BY DEF Maps
<1>3. /\ DOMAIN f = Unmapped(new)
      /\ Cardinality(DOMAIN f) \in Nat
      /\ maps.nextId + Cardinality(DOMAIN f) <= MaxId + 1
      /\ \A d \in DOMAIN f : /\ f[d] \in Ids /\ maps.nextId <= f[d]
                             /\ f[d] < maps.nextId + Cardinality(DOMAIN f)
      /\ \A d, e \in DOMAIN f : f[d] = f[e] => d = e
  BY FreshIds
<1>4. PICK next : next = maps.nextId + Cardinality(DOMAIN f)
  OBVIOUS
<1>5. next \in 1 .. MaxId + 1 /\ maps.nextId <= next
  BY <1>2, <1>3, <1>4
<1>6. /\ m = Extended(f, next)
      /\ \A d \in DOMAIN f : f[d] \in Ids /\ maps.nextId <= f[d] /\ f[d] < next
  BY <1>1, <1>3, <1>4
<1> QED
  BY <1>3, <1>5, <1>6

-----------------------------------------------------------------------------
(* Types *)

LEMMA NoMapsType == NoMaps \in Maps
<1>1. 1 \in 1 .. MaxId + 1
  OBVIOUS
<1> QED
  BY <1>1 DEF NoMaps, Maps

LEMMA LoadedType ==
  ASSUME TypeOK
  PROVE  /\ LoadedIndex \in SUBSET Vectors /\ LoadedOld \in SUBSET Vectors
         /\ LoadedDocs \in SUBSET Docs /\ LoadedMaps \in Maps
  BY NoMapsType DEF TypeOK, LoadedIndex, LoadedOld, LoadedDocs, LoadedMaps

\* Vectors are removed and added, or none is removed.
LEMMA ReplacedType ==
  ASSUME TypeOK, NEW fids, NEW ds, NEW others \in SUBSET Vectors,
         ReplaceVectors(fids, ds, others)
  PROVE  index' \in SUBSET Vectors /\ old' \in SUBSET Vectors
  BY DEF ReplaceVectors, TypeOK

\* The maps of a document updated with an embedding of another dimension.
LEMMA RefusedMaps ==
  ASSUME maps \in Maps, NEW d \in Docs, maps.nextId <= MaxId
  PROVE  LET f == [e \in {d} |-> maps.nextId]
         IN  /\ DOMAIN f = {d} /\ f[d] = maps.nextId /\ maps.nextId \in Ids
             /\ maps.nextId + 1 \in 1 .. MaxId + 1
             /\ Extended(f, maps.nextId + 1) \in Maps
<1> DEFINE f == [e \in {d} |-> maps.nextId]
<1>1. maps.nextId \in Ids /\ maps.nextId + 1 \in 1 .. MaxId + 1
  BY DEF Maps, Ids
<1>2. DOMAIN f = {d} /\ f[d] = maps.nextId
  OBVIOUS
<1> HIDE DEF f
<1>3. Extended(f, maps.nextId + 1) \in Maps
  BY <1>1, <1>2, ExtendedMaps
<1> QED
  BY <1>1, <1>2, <1>3 DEF f

LEMMA TypeInit == Init => TypeOK
  BY NoMapsType DEF Init, TypeOK

LEMMA TypeStep == TypeOK /\ [Next]_vars => TypeOK'
<1> SUFFICES ASSUME TypeOK, [Next]_vars PROVE TypeOK'
  OBVIOUS
<1> USE DEF memoryVars, disk, SaveSteps
<1>0. maps \in Maps /\ mapsFile \in Maps
  BY DEF TypeOK
\* Additions: the documents of a batch get their ids.
<1>1. ASSUME NEW new \in SUBSET Docs, NEW m \in Allocations(new)
      PROVE  /\ m \in Maps
             /\ \A d \in new : m.fidOf[d] \in Ids
  <2>1. PICK f \in Fresh(new), next \in 1 .. MaxId + 1 :
          /\ m = Extended(f, next)
          /\ DOMAIN f = Unmapped(new)
          /\ \A d \in DOMAIN f : f[d] \in Ids
          /\ \A d, e \in DOMAIN f : f[d] = f[e] => d = e
    BY <1>0, AllocatedMaps
  <2>2. DOMAIN f \subseteq Docs
    BY <2>1 DEF Unmapped
  <2>3. /\ m \in Maps
        /\ \A d \in Docs : m.fidOf[d] = IF d \in DOMAIN f THEN f[d] ELSE maps.fidOf[d]
    <3> HIDE DEF FaissAssumption
    <3>1. /\ Extended(f, next) \in Maps
          /\ \A d \in Docs : Extended(f, next).fidOf[d] = IF d \in DOMAIN f THEN f[d] ELSE maps.fidOf[d]
      BY <1>0, <2>1, <2>2, ExtendedMaps
    <3> QED BY <2>1, <3>1
  <2>4. \A d \in new : maps.fidOf[d] # NoId => maps.fidOf[d] \in Ids
    BY <1>0 DEF Maps
  <2> QED BY <2>1, <2>3, <2>4 DEF Unmapped
<1>2. ASSUME NEW batch \in SUBSET Docs, AddDocuments(batch) PROVE TypeOK'
  <2> DEFINE new == batch \ docs
  <2>1. PICK m \in Allocations(new), twice \in SUBSET new :
          /\ maps' = m
          /\ index' = index \cup {<<m.fidOf[d], d>> : d \in new}
          /\ old' = old \cup {<<m.fidOf[d], d>> : d \in twice}
    BY <1>2 DEF AddDocuments
  <2>2. new \in SUBSET Docs
    OBVIOUS
  <2> HIDE DEF new
  <2>3. m \in Maps /\ \A d \in new : m.fidOf[d] \in Ids
    BY <1>1, <2>2
  <2>4. index' \in SUBSET Vectors /\ old' \in SUBSET Vectors
    BY <2>1, <2>2, <2>3 DEF TypeOK, Vectors
  <2>5. docs' = docs \cup new /\ BeginSave(new) /\ UNCHANGED <<acked, flaws>>
    BY <1>2 DEF AddDocuments, new
  <2> QED BY <2>1, <2>2, <2>3, <2>4, <2>5 DEF TypeOK, BeginSave
<1>3. ASSUME NEW batch \in SUBSET Docs, RejectDocuments(batch) PROVE TypeOK'
  <2>1. maps' \in Maps
    BY <1>1, <1>3 DEF RejectDocuments
  <2> QED BY <1>3, <2>1 DEF RejectDocuments, TypeOK
<1>4. ASSUME NEW batch \in SUBSET Docs, DeleteDocuments(batch) PROVE TypeOK'
  <2>1. index' \in SUBSET Vectors /\ old' \in SUBSET Vectors
    BY <1>4, ReplacedType DEF DeleteDocuments
  <2>2. maps' \in Maps
    BY <1>0, <1>4 DEF DeleteDocuments, Maps
  <2> QED BY <1>4, <2>1, <2>2 DEF DeleteDocuments, BeginSave, TypeOK
<1>5. ASSUME NEW d \in Docs, UpdateDocument(d) PROVE TypeOK'
  <2> DEFINE f == IF maps.fidOf[d] = NoId THEN maps.nextId ELSE maps.fidOf[d]
  <2>1. f <= MaxId
    BY <1>5 DEF UpdateDocument
  <2>2. f \in Ids
    BY <1>0, <2>1 DEF Maps, Ids
  <2> HIDE DEF f
  <2>3. ReplaceVectors({maps.fidOf[d]}, {d}, {<<f, d>>})
    BY <1>5 DEF UpdateDocument, f
  <2>4. index' \in SUBSET Vectors /\ old' \in SUBSET Vectors
    BY <2>2, <2>3, ReplacedType DEF Vectors
  <2> QED BY <1>5, <2>4 DEF UpdateDocument, BeginSave, TypeOK
<1>6. ASSUME NEW d \in Docs, RefuseUpdate(d) PROVE TypeOK'
  <2>1. maps' \in Maps
    BY <1>0, <1>6, RefusedMaps DEF RefuseUpdate
  <2>2. index' \in SUBSET Vectors /\ old' \in SUBSET Vectors
    BY <1>6, ReplacedType DEF RefuseUpdate
  <2> QED BY <1>6, <2>1, <2>2 DEF RefuseUpdate, TypeOK
<1>7. CASE Clear
  BY <1>7, NoMapsType DEF Clear, BeginSave, TypeOK
<1>8. CASE SaveStep
  <2>1. ASSUME NEW file \in Files, NEW next \in SaveSteps, Move(file, next) PROVE TypeOK'
    BY <2>1, NoMapsType DEF Move, TypeOK
  <2>2. CASE MoveIndex \/ MoveDocs \/ MoveMaps
    BY <2>1, <2>2 DEF MoveIndex, MoveDocs, MoveMaps, Files
  <2>3. CASE PutIndex
    BY <2>3 DEF PutIndex, TypeOK, Files
  <2>4. CASE PutDocs
    BY <2>4 DEF PutDocs, TypeOK, Files
  <2>5. CASE PutMaps
    BY <2>5 DEF PutMaps, Succeed, TypeOK, Files
  <2> QED BY <1>8, <2>2, <2>3, <2>4, <2>5 DEF SaveStep
<1>9. CASE SaveFails
  BY <1>9 DEF SaveFails, TypeOK
<1>10. CASE Restart
  BY <1>10, LoadedType DEF Restart, TypeOK
<1>11. CASE UNCHANGED vars
  BY <1>11 DEF vars, TypeOK
<1> QED
  BY <1>2, <1>3, <1>4, <1>5, <1>6, <1>7, <1>8, <1>9, <1>10, <1>11 DEF Next

\* Through any operations, failed saves and restarts, memory and files keep their
\* types: in particular no id beyond the last one is ever allocated.
THEOREM TypeCorrect == Spec => []TypeOK
  BY TypeInit, TypeStep, PTL DEF Spec

-----------------------------------------------------------------------------
(* The maps *)

\* A mapped document's id leads back to it, and is below the next free one.
Agree(m) ==
  /\ \A d \in Docs : m.fidOf[d] # NoId => m.docOf[m.fidOf[d]] = d
  /\ \A f \in Ids : m.docOf[f] # NoDoc => f < m.nextId

\* No other id leads to the document.
OneId(m) == \A d \in Docs, f \in Ids : m.docOf[f] = d => m.fidOf[d] = f

\* What holds in memory holds on disk, with what a process that loads it has been through.
MapsInv ==
  /\ TypeOK
  /\ Agree(maps) /\ ("update" \notin flaws => OneId(maps))
  /\ Agree(mapsFile) /\ ("update" \notin diskFlaws => OneId(mapsFile))

LEMMA NoMapsAgree == Agree(NoMaps) /\ OneId(NoMaps)
  BY DEF Agree, OneId, NoMaps

\* Ids that are free extend the maps.
LEMMA ExtendedAgree ==
  ASSUME maps \in Maps, Agree(maps),
         NEW f, DOMAIN f \subseteq Docs, NEW next \in 1 .. MaxId + 1,
         \A d \in DOMAIN f : f[d] \in Ids /\ maps.nextId <= f[d] /\ f[d] < next,
         maps.nextId <= next,
         \A d, e \in DOMAIN f : f[d] = f[e] => d = e
  PROVE  /\ Agree(Extended(f, next))
         /\ OneId(maps) /\ (\A d \in DOMAIN f : maps.fidOf[d] = NoId)
              => OneId(Extended(f, next))
<1> DEFINE m == Extended(f, next)
<1>1. /\ m \in Maps /\ m.nextId = next
      /\ \A d \in Docs : m.fidOf[d] = IF d \in DOMAIN f THEN f[d] ELSE maps.fidOf[d]
      /\ \A d \in DOMAIN f : m.docOf[f[d]] = d
      /\ \A i \in Ids : (~\E d \in DOMAIN f : f[d] = i) => m.docOf[i] = maps.docOf[i]
  BY ExtendedMaps
<1> HIDE DEF m
<1>2. /\ maps.nextId \in Nat
      /\ \A d \in Docs : maps.fidOf[d] # NoId => maps.fidOf[d] \in Ids
  BY DEF Maps
<1>3. ASSUME NEW d \in Docs, m.fidOf[d] # NoId PROVE m.docOf[m.fidOf[d]] = d
  <2>1. CASE d \in DOMAIN f
    BY <1>1, <2>1
  <2>2. CASE d \notin DOMAIN f
    <3> DEFINE i == maps.fidOf[d]
    <3>1. i \in Ids /\ m.fidOf[d] = i /\ maps.docOf[i] = d
      BY <1>1, <1>2, <1>3, <2>2 DEF Agree
    <3>2. i < maps.nextId
      BY <3>1 DEF Agree
    <3>3. ~\E e \in DOMAIN f : f[e] = i
      BY <1>2, <3>1, <3>2 DEF Ids
    <3> QED BY <1>1, <3>1, <3>3
  <2> QED BY <2>1, <2>2
<1>4. ASSUME NEW i \in Ids, m.docOf[i] # NoDoc PROVE i < m.nextId
  <2>1. CASE \E d \in DOMAIN f : f[d] = i
    BY <1>1, <2>1
  <2>2. CASE ~\E d \in DOMAIN f : f[d] = i
    <3>1. i < maps.nextId
      BY <1>1, <1>4, <2>2 DEF Agree
    <3> QED BY <1>1, <1>2, <3>1 DEF Ids
  <2> QED BY <2>1, <2>2
<1>5. ASSUME OneId(maps), \A d \in DOMAIN f : maps.fidOf[d] = NoId,
             NEW d \in Docs, NEW i \in Ids, m.docOf[i] = d
      PROVE  m.fidOf[d] = i
  <2>1. CASE \E e \in DOMAIN f : f[e] = i
    BY <1>1, <1>5, <2>1
  <2>2. CASE ~\E e \in DOMAIN f : f[e] = i
    <3>1. maps.fidOf[d] = i
      BY <1>1, <1>5, <2>2 DEF OneId
    <3>2. d \notin DOMAIN f
      BY <1>5, <3>1 DEF Ids
    <3> QED BY <1>1, <3>1, <3>2
  <2> QED BY <2>1, <2>2
<1> QED
  BY <1>3, <1>4, <1>5 DEF Agree, OneId, m

\* The maps after an addition.
LEMMA AllocatedAgree ==
  ASSUME maps \in Maps, Agree(maps), NEW new \in SUBSET Docs, NEW m \in Allocations(new)
  PROVE  /\ m \in Maps /\ Agree(m) /\ (OneId(maps) => OneId(m))
         /\ \A d \in new : m.fidOf[d] # NoId
         /\ \A d \in Docs : maps.fidOf[d] # NoId => m.fidOf[d] = maps.fidOf[d]
<1>1. PICK f \in Fresh(new), next \in 1 .. MaxId + 1 :
        /\ m = Extended(f, next)
        /\ maps.nextId <= next
        /\ DOMAIN f = Unmapped(new)
        /\ \A d \in DOMAIN f : f[d] \in Ids /\ maps.nextId <= f[d] /\ f[d] < next
        /\ \A d, e \in DOMAIN f : f[d] = f[e] => d = e
  BY AllocatedMaps
<1>2. DOMAIN f \subseteq Docs
  BY <1>1 DEF Unmapped
<1>3. /\ Extended(f, next) \in Maps
      /\ \A d \in Docs : Extended(f, next).fidOf[d] = IF d \in DOMAIN f THEN f[d] ELSE maps.fidOf[d]
  BY <1>1, <1>2, ExtendedMaps
<1>4. /\ Agree(Extended(f, next))
      /\ OneId(maps) /\ (\A d \in DOMAIN f : maps.fidOf[d] = NoId) => OneId(Extended(f, next))
  BY <1>1, <1>2, ExtendedAgree
<1>5. \A d \in DOMAIN f : f[d] # NoId /\ maps.fidOf[d] = NoId
  BY <1>1 DEF Ids, Unmapped
<1>6. m \in Maps /\ Agree(m) /\ (OneId(maps) => OneId(m))
  BY <1>1, <1>3, <1>4, <1>5
<1>7. /\ \A d \in new : m.fidOf[d] # NoId
      /\ \A d \in Docs : maps.fidOf[d] # NoId => m.fidOf[d] = maps.fidOf[d]
  BY <1>1, <1>3, <1>5 DEF Unmapped
<1> QED
  BY <1>6, <1>7

\* The maps after a deletion.
LEMMA DeletedAgree ==
  ASSUME maps \in Maps, Agree(maps), NEW gone \in SUBSET Docs,
         NEW m,
         \A d \in Docs : m.fidOf[d] = IF d \in gone THEN NoId ELSE maps.fidOf[d],
         \A i \in Ids : m.docOf[i] = IF \E d \in gone : maps.fidOf[d] = i THEN NoDoc ELSE maps.docOf[i],
         m.nextId = maps.nextId
  PROVE  Agree(m) /\ (OneId(maps) => OneId(m))
<1>1. /\ \A d \in Docs : m.fidOf[d] = IF d \in gone THEN NoId ELSE maps.fidOf[d]
      /\ \A i \in Ids : m.docOf[i] = IF \E d \in gone : maps.fidOf[d] = i THEN NoDoc ELSE maps.docOf[i]
      /\ m.nextId = maps.nextId
  OBVIOUS
<1>2. \A d \in Docs : maps.fidOf[d] # NoId => maps.fidOf[d] \in Ids
  BY DEF Maps
<1>3. ASSUME NEW d \in Docs, m.fidOf[d] # NoId PROVE m.docOf[m.fidOf[d]] = d
  <2> DEFINE i == maps.fidOf[d]
  <2>1. d \notin gone /\ m.fidOf[d] = i /\ i \in Ids /\ maps.docOf[i] = d
    BY <1>1, <1>2, <1>3 DEF Agree
  <2>2. ~\E e \in gone : maps.fidOf[e] = i
    <3> SUFFICES ASSUME NEW e \in gone, i = maps.fidOf[e] PROVE FALSE
      OBVIOUS
    <3>1. maps.fidOf[e] # NoId
      BY <2>1 DEF Ids
    <3>2. maps.docOf[i] = e
      BY <3>1 DEF Agree
    <3> QED BY <2>1, <3>2
  <2> QED BY <1>1, <2>1, <2>2
<1>4. \A i \in Ids : m.docOf[i] # NoDoc => i < m.nextId
  BY <1>1 DEF Agree
<1>5. ASSUME OneId(maps), NEW d \in Docs, NEW i \in Ids, m.docOf[i] = d
      PROVE  m.fidOf[d] = i
  <2>1. (~\E e \in gone : maps.fidOf[e] = i) /\ maps.docOf[i] = d
    BY <1>1, <1>5
  <2>2. maps.fidOf[d] = i
    BY <1>5, <2>1 DEF OneId
  <2> QED BY <1>1, <2>1, <2>2
<1> QED
  BY <1>3, <1>4, <1>5 DEF Agree, OneId

\* What a process loads agrees as much as what it was saved from.
LEMMA LoadedAgree ==
  ASSUME MapsInv
  PROVE  Agree(LoadedMaps) /\ ("update" \notin diskFlaws => OneId(LoadedMaps))
  BY NoMapsAgree DEF MapsInv, LoadedMaps

LEMMA MapsInit == Init => MapsInv
  BY TypeInit, NoMapsAgree DEF Init, MapsInv

LEMMA MapsStep == MapsInv /\ [Next]_vars => MapsInv'
<1> SUFFICES ASSUME MapsInv, [Next]_vars PROVE MapsInv'
  OBVIOUS
<1> DEFINE InMemory == Agree(maps) /\ ("update" \notin flaws => OneId(maps))
           OnDisk == Agree(mapsFile) /\ ("update" \notin diskFlaws => OneId(mapsFile))
<1>0. TypeOK /\ maps \in Maps /\ Agree(maps) /\ InMemory /\ OnDisk
  BY DEF MapsInv, TypeOK
<1> SUFFICES InMemory' /\ OnDisk'
  BY <1>0, TypeStep DEF MapsInv
<1> HIDE DEF InMemory, OnDisk
<1>a. ASSUME UNCHANGED <<maps, flaws>> PROVE InMemory'
  BY <1>0, <1>a DEF InMemory
<1>b. ASSUME UNCHANGED <<mapsFile, diskFlaws>> PROVE OnDisk'
  BY <1>0, <1>b DEF OnDisk
<1>c. ASSUME NEW new \in SUBSET Docs, maps' \in Allocations(new), UNCHANGED flaws
      PROVE  InMemory'
  <2>1. Agree(maps') /\ (OneId(maps) => OneId(maps'))
    BY <1>0, <1>c, AllocatedAgree
  <2> QED BY <1>0, <1>c, <2>1 DEF InMemory
<1>1. ASSUME NEW batch \in SUBSET Docs, AddDocuments(batch) PROVE InMemory' /\ OnDisk'
  <2>1. /\ batch \ docs \in SUBSET Docs
        /\ maps' \in Allocations(batch \ docs)
        /\ UNCHANGED <<flaws, mapsFile, diskFlaws>>
    BY <1>1 DEF AddDocuments, BeginSave, disk
  <2> QED BY <1>b, <1>c, <2>1
<1>2. ASSUME NEW batch \in SUBSET Docs, RejectDocuments(batch) PROVE InMemory' /\ OnDisk'
  <2>1. /\ batch \ docs \in SUBSET Docs
        /\ maps' \in Allocations(batch \ docs)
        /\ UNCHANGED <<flaws, mapsFile, diskFlaws>>
    BY <1>2 DEF RejectDocuments, disk
  <2> QED BY <1>b, <1>c, <2>1
<1>3. ASSUME NEW batch \in SUBSET Docs, DeleteDocuments(batch) PROVE InMemory' /\ OnDisk'
  <2> DEFINE gone == batch \cap docs
             fids == {maps.fidOf[d] : d \in gone}
  <2>1. /\ gone \in SUBSET Docs
        /\ maps' = [maps EXCEPT
                      !.fidOf = [d \in Docs |-> IF d \in gone THEN NoId ELSE @[d]],
                      !.docOf = [i \in Ids |-> IF i \in fids THEN NoDoc ELSE @[i]]]
        /\ UNCHANGED <<flaws, mapsFile, diskFlaws>>
    BY <1>3 DEF DeleteDocuments, BeginSave, disk
  <2>2. \A i : i \in fids <=> \E d \in gone : maps.fidOf[d] = i
    OBVIOUS
  <2> HIDE DEF gone, fids
  <2>3. /\ \A d \in Docs : maps'.fidOf[d] = IF d \in gone THEN NoId ELSE maps.fidOf[d]
        /\ \A i \in Ids : maps'.docOf[i] = IF i \in fids THEN NoDoc ELSE maps.docOf[i]
        /\ maps'.nextId = maps.nextId
    BY <1>0, <2>1 DEF Maps
  <2>4. \A i \in Ids : maps'.docOf[i] =
                         IF \E d \in gone : maps.fidOf[d] = i THEN NoDoc ELSE maps.docOf[i]
    BY <2>2, <2>3
  <2>5. Agree(maps') /\ (OneId(maps) => OneId(maps'))
    BY <1>0, <2>1, <2>3, <2>4, DeletedAgree
  <2> QED BY <1>0, <1>b, <2>1, <2>5 DEF InMemory
<1>4. ASSUME NEW d \in Docs, UpdateDocument(d) PROVE InMemory' /\ OnDisk'
  BY <1>4, <1>a, <1>b DEF UpdateDocument, BeginSave, disk
<1>5. ASSUME NEW d \in Docs, RefuseUpdate(d) PROVE InMemory' /\ OnDisk'
  <2>1. PICK f : f = [e \in {d} |-> maps.nextId]
    OBVIOUS
  <2>2. /\ maps.nextId <= MaxId
        /\ maps' = Extended(f, maps.nextId + 1)
        /\ "update" \in flaws'
        /\ UNCHANGED <<mapsFile, diskFlaws>>
    BY <1>5, <2>1 DEF RefuseUpdate, disk
  <2>3. PICK next : next = maps.nextId + 1
    OBVIOUS
  <2>4. /\ DOMAIN f = {d} /\ f[d] \in Ids /\ f[d] = maps.nextId
        /\ maps.nextId <= f[d]
        /\ next \in 1 .. MaxId + 1 /\ maps.nextId <= next /\ f[d] < next
    BY <1>0, <2>1, <2>2, <2>3 DEF Maps, Ids
  <2>5. Agree(Extended(f, next))
    <3>1. /\ DOMAIN f \subseteq Docs
          /\ \A e \in DOMAIN f : f[e] \in Ids /\ maps.nextId <= f[e] /\ f[e] < next
          /\ \A e, g \in DOMAIN f : f[e] = f[g] => e = g
      <4>1. \A e \in DOMAIN f : e = d
        BY <2>4
      <4>2. DOMAIN f \subseteq Docs
        BY <4>1
      <4>3. \A e \in DOMAIN f : f[e] \in Ids /\ maps.nextId <= f[e] /\ f[e] < next
        BY <2>4, <4>1
      <4> QED BY <4>1, <4>2, <4>3
    <3> QED BY <1>0, <2>4, <3>1, ExtendedAgree
  <2> QED BY <1>b, <2>2, <2>3, <2>5 DEF InMemory
<1>6. CASE Clear
  BY <1>6, <1>b, NoMapsAgree DEF Clear, BeginSave, disk, InMemory
<1>7. CASE SaveStep
  <2>1. ASSUME NEW file, NEW next, Move(file, next) PROVE InMemory' /\ OnDisk'
    <3>1. /\ UNCHANGED <<maps, flaws>>
          /\ mapsFile' = mapsFile \/ mapsFile' = NoMaps
          /\ "update" \in diskFlaws => "update" \in diskFlaws'
      BY <2>1 DEF Move, memoryVars, disk
    <3> QED BY <1>0, <1>a, <3>1, NoMapsAgree DEF OnDisk
  <2>2. CASE MoveIndex \/ MoveDocs \/ MoveMaps
    BY <2>1, <2>2 DEF MoveIndex, MoveDocs, MoveMaps
  <2>3. CASE PutIndex
    <3>1. UNCHANGED <<maps, flaws, mapsFile>> /\ ("update" \in diskFlaws => "update" \in diskFlaws')
      BY <2>3 DEF PutIndex, memoryVars
    <3> QED BY <1>0, <1>a, <3>1 DEF OnDisk
  <2>4. CASE PutDocs
    BY <2>4, <1>a, <1>b DEF PutDocs, memoryVars
  <2>5. CASE PutMaps
    BY <2>5, <1>0, <1>a DEF PutMaps, Succeed, memoryVars, InMemory, OnDisk
  <2> QED BY <1>7, <2>2, <2>3, <2>4, <2>5 DEF SaveStep
<1>8. CASE SaveFails
  BY <1>8, <1>a, <1>b DEF SaveFails, memoryVars, disk
<1>9. CASE Restart
  <2>1. maps' = LoadedMaps /\ flaws' = diskFlaws /\ UNCHANGED <<mapsFile, diskFlaws>>
    BY <1>9 DEF Restart, disk
  <2> QED BY <1>b, <2>1, LoadedAgree DEF InMemory
<1>10. CASE UNCHANGED vars
  BY <1>10, <1>a, <1>b DEF vars, memoryVars, disk
<1> QED
  BY <1>1, <1>2, <1>3, <1>4, <1>5, <1>6, <1>7, <1>8, <1>9, <1>10 DEF Next

\* In every process, whatever a crash left on disk, a mapped document's id leads
\* back to it and is below the next free one; unless an update was refused, no other
\* id leads to it.
THEOREM MapsLeadBack == Spec => []MapsAgree
<1>1. MapsInv => MapsAgree
  BY DEF MapsInv, MapsAgree, Agree, OneId
<1> QED
  BY <1>1, MapsInit, MapsStep, PTL DEF Spec

-----------------------------------------------------------------------------
(* Coherence, and finding what was acknowledged *)

\* The index holds one vector for each document, under its FAISS id.
Covers(vectors, ds, m) ==
  /\ \A d \in ds : m.fidOf[d] # NoId
  /\ vectors = {<<m.fidOf[d], d>> : d \in ds}

\* An old vector is under an id that was allocated and leads to its document or,
\* since that was deleted, to none.
OldOnes(vectors, m) ==
  \A v \in vectors : v[1] < m.nextId /\ m.docOf[v[1]] \in {v[2], NoDoc}

MemoryCoherent ==
  /\ Covers(index, docs, maps)
  /\ OldOnes(old, maps)
  /\ acked \subseteq docs

\* What a restart would make of memory.
DiskCoherent ==
  /\ Covers(LoadedIndex, LoadedDocs, LoadedMaps)
  /\ OldOnes(LoadedOld, LoadedMaps)
  /\ acked \subseteq LoadedDocs

\* What a save has put on disk so far.  Once its index is there the files are mixed.
SaveProgress ==
  /\ step # "idle" => adding \subseteq docs
  /\ step \in {"moveDocs", "putDocs", "moveMaps", "putMaps"} =>
       /\ "mixed" \in diskFlaws
       /\ indexFile = index /\ oldFile = old /\ "faiss.index" \in present
  /\ step \in {"moveMaps", "putMaps"} => docsFile = docs /\ "documents.json" \in present

StoreInv ==
  /\ MapsInv
  /\ flaws = {} => MemoryCoherent
  /\ diskFlaws = {} => DiskCoherent
  /\ SaveProgress

LEMMA StoreInit == Init => StoreInv
<1> SUFFICES ASSUME Init PROVE StoreInv
  OBVIOUS
<1>1. MapsInv
  BY MapsInit
<1>2. MemoryCoherent
  BY DEF Init, MemoryCoherent, Covers, OldOnes
<1>3. LoadedIndex = {} /\ LoadedOld = {} /\ LoadedDocs = {} /\ acked = {}
  BY DEF Init, LoadedIndex, LoadedOld, LoadedDocs
<1>4. DiskCoherent
  BY <1>3 DEF DiskCoherent, Covers, OldOnes
<1>5. SaveProgress
  BY DEF Init, SaveProgress
<1> QED
  BY <1>1, <1>2, <1>4, <1>5 DEF StoreInv

\* The maps of memory lead two documents to two ids.
LEMMA OwnIds ==
  ASSUME Agree(maps)
  PROVE  \A d, e \in Docs : maps.fidOf[d] # NoId /\ maps.fidOf[d] = maps.fidOf[e] => d = e
  BY DEF Agree

\* Ids that are allocated anew are not those of old vectors.
LEMMA AllocatedOld ==
  ASSUME maps \in Maps, NEW new \in SUBSET Docs, NEW m \in Allocations(new),
         NEW vectors \in SUBSET Vectors, OldOnes(vectors, maps)
  PROVE  OldOnes(vectors, m)
<1>1. PICK f \in Fresh(new), next \in 1 .. MaxId + 1 :
        /\ m = Extended(f, next)
        /\ maps.nextId <= next
        /\ DOMAIN f = Unmapped(new)
        /\ \A d \in DOMAIN f : f[d] \in Ids /\ maps.nextId <= f[d] /\ f[d] < next
        /\ \A d, e \in DOMAIN f : f[d] = f[e] => d = e
  BY AllocatedMaps
<1>2. DOMAIN f \subseteq Docs
  BY <1>1 DEF Unmapped
<1>3. /\ m.nextId = next
      /\ \A i \in Ids : (~\E d \in DOMAIN f : f[d] = i) => m.docOf[i] = maps.docOf[i]
  BY <1>1, <1>2, ExtendedMaps
<1> SUFFICES ASSUME NEW v \in vectors PROVE v[1] < m.nextId /\ m.docOf[v[1]] \in {v[2], NoDoc}
  BY DEF OldOnes
<1>4. /\ v[1] \in Ids /\ v[1] \in Nat /\ maps.nextId \in Nat /\ next \in Nat
      /\ v[1] < maps.nextId /\ maps.docOf[v[1]] \in {v[2], NoDoc}
  BY DEF OldOnes, Vectors, Ids, Maps
<1>5. ~\E d \in DOMAIN f : f[d] = v[1]
  BY <1>1, <1>4 DEF Ids
<1> QED
  BY <1>1, <1>3, <1>4, <1>5

\* What is left of coherent vectors when documents are deleted or updated, whether
\* the vectors under their ids could be removed or not.
LEMMA ReplacedVectors ==
  ASSUME TypeOK, Agree(maps), MemoryCoherent, NEW ds \in SUBSET docs, NEW others,
         ReplaceVectors({maps.fidOf[d] : d \in ds}, ds, others)
  PROVE  /\ index' = {<<maps.fidOf[d], d>> : d \in docs \ ds} \cup others
         /\ \A v \in old' : v \in old \/ (v[2] \in ds /\ v[1] = maps.fidOf[v[2]])
<1> DEFINE fids == {maps.fidOf[d] : d \in ds}
<1>1. PICK removed \in {fids, {}} :
        /\ index' = {v \in index : v[1] \notin removed /\ v[2] \notin ds} \cup others
        /\ old' = {v \in old : v[1] \notin removed}
                    \cup {v \in index : v[1] \notin removed /\ v[2] \in ds}
  BY DEF ReplaceVectors
<1>2. /\ docs \in SUBSET Docs
      /\ \A d \in docs : maps.fidOf[d] # NoId
      /\ index = {<<maps.fidOf[d], d>> : d \in docs}
  BY DEF TypeOK, MemoryCoherent, Covers
<1>3. \A d \in docs : maps.fidOf[d] \in fids <=> d \in ds
  BY <1>2, OwnIds
<1> HIDE DEF fids
<1>4. \A d \in docs \ ds : maps.fidOf[d] \notin removed
  BY <1>1, <1>3
<1>5. index' = {<<maps.fidOf[d], d>> : d \in docs \ ds} \cup others
  BY <1>1, <1>2, <1>4
<1>6. \A v \in index : v[1] = maps.fidOf[v[2]]
  BY <1>2
<1> QED
  BY <1>1, <1>5, <1>6

LEMMA StoreStep == StoreInv /\ [Next]_vars => StoreInv'
<1> SUFFICES ASSUME StoreInv, [Next]_vars PROVE StoreInv'
  OBVIOUS
<1> DEFINE InMemory == flaws = {} => MemoryCoherent
           OnDisk == diskFlaws = {} => DiskCoherent
<1>0. /\ InMemory /\ OnDisk /\ SaveProgress
      /\ TypeOK /\ maps \in Maps /\ Agree(maps) /\ docs \in SUBSET Docs
  BY DEF StoreInv, MapsInv, TypeOK
<1> SUFFICES InMemory' /\ OnDisk' /\ SaveProgress'
  BY MapsStep DEF StoreInv
\* Memory is as it was, or the disk.
<1>a. ASSUME UNCHANGED <<index, old, docs, maps, acked, flaws>> PROVE InMemory'
  BY <1>0, <1>a DEF MemoryCoherent
<1>b. ASSUME UNCHANGED <<disk, diskFlaws>>, acked' \subseteq acked PROVE OnDisk'
  BY <1>0, <1>b DEF DiskCoherent, disk, LoadedIndex, LoadedOld, LoadedDocs, LoadedMaps
<1>c. ASSUME step' = "idle" \/ (step' = "moveIndex" /\ adding' \subseteq docs')
      PROVE  SaveProgress'
  BY <1>c DEF SaveProgress
<1> HIDE DEF InMemory, OnDisk
\* Documents get ids: those that had one keep it.
<1>d. ASSUME NEW new \in SUBSET Docs, maps' \in Allocations(new)
      PROVE  /\ \A d \in new : maps'.fidOf[d] # NoId
             /\ \A d \in Docs : maps.fidOf[d] # NoId => maps'.fidOf[d] = maps.fidOf[d]
  BY <1>0, <1>d, AllocatedAgree
\* Old vectors stay so when the maps are those of an addition or of a deletion, and
\* those that are added to them are under an id of their document.
<1>e. ASSUME OldOnes(old, maps), NEW new \in SUBSET Docs, maps' \in Allocations(new)
      PROVE  OldOnes(old, maps')
  BY <1>0, <1>e, AllocatedOld DEF TypeOK
<1>f. ASSUME Agree(maps'), NEW d \in Docs, maps'.fidOf[d] # NoId, maps' \in Maps
      PROVE  maps'.fidOf[d] < maps'.nextId /\ maps'.docOf[maps'.fidOf[d]] = d
  BY <1>f DEF Agree, Maps
<1>1. ASSUME NEW batch \in SUBSET Docs, AddDocuments(batch)
      PROVE  InMemory' /\ OnDisk' /\ SaveProgress'
  <2> DEFINE new == batch \ docs
  <2>1. /\ new \in SUBSET Docs
        /\ maps' \in Allocations(new)
        /\ index' = index \cup {<<maps'.fidOf[d], d>> : d \in new}
        /\ \A v \in old' : v \in old \/ (v[2] \in new /\ v[1] = maps'.fidOf[v[2]])
        /\ docs' = docs \cup new
        /\ step' = "moveIndex" /\ adding' = new
        /\ UNCHANGED <<disk, diskFlaws, acked, flaws>>
    BY <1>1 DEF AddDocuments, BeginSave
  <2> HIDE DEF new
  <2>2. /\ \A d \in new : maps'.fidOf[d] # NoId
        /\ \A d \in Docs : maps.fidOf[d] # NoId => maps'.fidOf[d] = maps.fidOf[d]
    BY <1>d, <2>1
  <2>3. ASSUME flaws = {} PROVE MemoryCoherent'
    <3>1. /\ \A d \in docs : maps.fidOf[d] # NoId /\ maps'.fidOf[d] = maps.fidOf[d]
          /\ index = {<<maps.fidOf[d], d>> : d \in docs}
          /\ acked \subseteq docs
      BY <1>0, <2>2, <2>3 DEF InMemory, MemoryCoherent, Covers
    <3>2. \A d \in docs' : maps'.fidOf[d] # NoId
      BY <2>1, <2>2, <3>1
    <3>3. index = {<<maps'.fidOf[d], d>> : d \in docs}
      BY <3>1
    <3>4. index' = {<<maps'.fidOf[d], d>> : d \in docs'}
      BY <2>1, <3>3
    <3>5. OldOnes(old, maps')
      BY <1>0, <1>e, <2>1, <2>3 DEF InMemory, MemoryCoherent
    <3>6. maps' \in Maps /\ Agree(maps')
      BY <1>0, <2>1, AllocatedAgree
    <3>7. OldOnes(old', maps')
      BY <1>f, <2>1, <2>2, <3>5, <3>6 DEF OldOnes
    <3> QED BY <2>1, <3>1, <3>2, <3>4, <3>7 DEF MemoryCoherent, Covers
  <2> QED BY <1>b, <1>c, <2>1, <2>3 DEF InMemory
<1>2. ASSUME NEW batch \in SUBSET Docs, RejectDocuments(batch)
      PROVE  InMemory' /\ OnDisk' /\ SaveProgress'
  <2>1. /\ batch \ docs \in SUBSET Docs
        /\ maps' \in Allocations(batch \ docs)
        /\ UNCHANGED <<index, old, docs, disk, step, adding, acked, flaws, diskFlaws>>
    BY <1>2 DEF RejectDocuments
  <2>2. \A d \in Docs : maps.fidOf[d] # NoId => maps'.fidOf[d] = maps.fidOf[d]
    BY <1>d, <2>1
  <2>3. ASSUME flaws = {} PROVE MemoryCoherent'
    <3>1. /\ \A d \in docs : maps.fidOf[d] # NoId /\ maps'.fidOf[d] = maps.fidOf[d]
          /\ index = {<<maps.fidOf[d], d>> : d \in docs}
          /\ acked \subseteq docs
      BY <1>0, <2>2, <2>3 DEF InMemory, MemoryCoherent, Covers
    <3>2. index = {<<maps'.fidOf[d], d>> : d \in docs}
      BY <3>1
    <3>3. OldOnes(old, maps')
      BY <1>0, <1>e, <2>1, <2>3 DEF InMemory, MemoryCoherent
    <3> QED BY <2>1, <3>1, <3>2, <3>3 DEF MemoryCoherent, Covers
  <2>4. SaveProgress'
    BY <1>0, <2>1 DEF SaveProgress, disk
  <2> QED BY <1>b, <2>1, <2>3, <2>4 DEF InMemory
<1>3. ASSUME NEW batch \in SUBSET Docs, DeleteDocuments(batch)
      PROVE  InMemory' /\ OnDisk' /\ SaveProgress'
  <2> DEFINE gone == batch \cap docs
             fids == {maps.fidOf[d] : d \in gone}
  <2>1. /\ gone \in SUBSET docs
        /\ ReplaceVectors(fids, gone, {})
        /\ docs' = docs \ gone /\ acked' = acked \ gone
        /\ step' = "moveIndex" /\ adding' = {}
        /\ UNCHANGED <<disk, diskFlaws, flaws>>
    BY <1>3 DEF DeleteDocuments, BeginSave
  <2>2. /\ \A d \in Docs \ gone : maps'.fidOf[d] = maps.fidOf[d]
        /\ \A i \in Ids : maps'.docOf[i] = IF i \in fids THEN NoDoc ELSE maps.docOf[i]
        /\ maps'.nextId = maps.nextId
    <3>1. maps' = [maps EXCEPT
                    !.fidOf = [d \in Docs |-> IF d \in gone THEN NoId ELSE @[d]],
                    !.docOf = [i \in Ids |-> IF i \in fids THEN NoDoc ELSE @[i]]]
      BY <1>3 DEF DeleteDocuments
    <3> HIDE DEF gone, fids
    <3> QED BY <1>0, <3>1 DEF Maps
  <2>3. ASSUME flaws = {} PROVE MemoryCoherent'
    <3>1. MemoryCoherent /\ \A d \in docs : maps.fidOf[d] # NoId
      BY <1>0, <2>3 DEF InMemory, MemoryCoherent, Covers
    <3>2. /\ index' = {<<maps.fidOf[d], d>> : d \in docs \ gone}
          /\ \A v \in old' : v \in old \/ (v[2] \in gone /\ v[1] = maps.fidOf[v[2]])
      <4>1. fids = {maps.fidOf[d] : d \in gone}
        OBVIOUS
      <4> HIDE DEF gone, fids
      <4>2. ReplaceVectors({maps.fidOf[d] : d \in gone}, gone, {})
        BY <2>1, <4>1
      <4>3. /\ index' = {<<maps.fidOf[d], d>> : d \in docs \ gone} \cup {}
            /\ \A v \in old' : v \in old \/ (v[2] \in gone /\ v[1] = maps.fidOf[v[2]])
        BY <1>0, <2>1, <3>1, <4>2, ReplacedVectors
      <4> QED BY <4>3
    <3>3. \A d \in docs' : d \in Docs /\ maps'.fidOf[d] = maps.fidOf[d] /\ maps.fidOf[d] # NoId
      BY <1>0, <2>1, <2>2, <3>1
    <3>4. index' = {<<maps'.fidOf[d], d>> : d \in docs'}
      BY <2>1, <3>2, <3>3
    <3>5. \A d \in gone : maps.fidOf[d] \in fids /\ maps.fidOf[d] \in Ids /\ maps.fidOf[d] < maps.nextId
      BY <1>0, <2>1, <3>1 DEF Maps, Agree
    <3>6. \A v \in old : v[1] \in Ids /\ v[1] < maps.nextId /\ maps.docOf[v[1]] \in {v[2], NoDoc}
      BY <1>0, <3>1 DEF MemoryCoherent, OldOnes, TypeOK, Vectors
    <3> HIDE DEF gone, fids
    <3>7. OldOnes(old', maps')
      BY <2>2, <3>2, <3>5, <3>6 DEF OldOnes
    <3> QED BY <2>1, <3>1, <3>3, <3>4, <3>7 DEF MemoryCoherent, Covers
  <2> QED BY <1>b, <1>c, <2>1, <2>3 DEF InMemory
<1>4. ASSUME NEW d \in Docs, UpdateDocument(d)
      PROVE  InMemory' /\ OnDisk' /\ SaveProgress'
  <2>1. /\ d \in docs
        /\ maps.fidOf[d] # NoId =>
             ReplaceVectors({maps.fidOf[d]}, {d}, {<<maps.fidOf[d], d>>})
        /\ step' = "moveIndex" /\ adding' = {d}
        /\ UNCHANGED <<docs, maps, disk, diskFlaws, acked, flaws>>
    BY <1>4 DEF UpdateDocument, BeginSave
  <2>2. ASSUME flaws = {} PROVE MemoryCoherent'
    <3>1. /\ \A e \in docs : maps.fidOf[e] # NoId
          /\ MemoryCoherent /\ acked \subseteq docs
      BY <1>0, <2>2 DEF InMemory, MemoryCoherent, Covers
    <3>2. {maps.fidOf[e] : e \in {d}} = {maps.fidOf[d]}
      OBVIOUS
    <3>3. ReplaceVectors({maps.fidOf[e] : e \in {d}}, {d}, {<<maps.fidOf[d], d>>})
      BY <2>1, <3>1, <3>2
    <3>4. /\ index' = {<<maps.fidOf[e], e>> : e \in docs \ {d}} \cup {<<maps.fidOf[d], d>>}
          /\ \A v \in old' : v \in old \/ (v[2] \in {d} /\ v[1] = maps.fidOf[v[2]])
      BY <1>0, <2>1, <3>1, <3>3, ReplacedVectors
    <3>5. index' = {<<maps.fidOf[e], e>> : e \in docs}
      BY <2>1, <3>4
    <3>6. maps.fidOf[d] < maps.nextId /\ maps.docOf[maps.fidOf[d]] = d
      BY <1>0, <2>1, <3>1 DEF Maps, Agree
    <3>7. OldOnes(old', maps)
      BY <3>1, <3>4, <3>6 DEF MemoryCoherent, OldOnes
    <3> QED BY <2>1, <3>1, <3>5, <3>7 DEF MemoryCoherent, Covers
  <2> QED BY <1>b, <1>c, <2>1, <2>2 DEF InMemory
<1>5. ASSUME NEW d \in Docs, RefuseUpdate(d)
      PROVE  InMemory' /\ OnDisk' /\ SaveProgress'
  <2>1. /\ step = "idle" /\ "update" \in flaws'
        /\ UNCHANGED <<docs, disk, step, adding, acked, diskFlaws>>
    BY <1>5 DEF RefuseUpdate
  <2> QED BY <1>b, <1>c, <2>1 DEF InMemory
<1>6. ASSUME Clear PROVE InMemory' /\ OnDisk' /\ SaveProgress'
  <2>1. /\ index' = {} /\ old' = {} /\ docs' = {} /\ acked' = {}
        /\ step' = "moveIndex" /\ adding' = {}
        /\ UNCHANGED <<disk, diskFlaws>>
    BY <1>6 DEF Clear, BeginSave
  <2>2. MemoryCoherent'
    BY <2>1 DEF MemoryCoherent, Covers, OldOnes
  <2> QED BY <1>b, <1>c, <2>1, <2>2 DEF InMemory
<1>7. ASSUME NEW file \in Files, NEW next, Move(file, next) PROVE InMemory' /\ OnDisk'
  <2>1. /\ UNCHANGED <<index, old, docs, maps, acked, flaws>>
        /\ UNCHANGED <<disk, diskFlaws>> \/ "mixed" \in diskFlaws'
    BY <1>7 DEF Move, memoryVars
  <2>2. CASE UNCHANGED <<disk, diskFlaws>>
    BY <1>a, <1>b, <2>1, <2>2
  <2>3. CASE "mixed" \in diskFlaws'
    BY <1>a, <2>1, <2>3 DEF OnDisk
  <2> QED BY <2>1, <2>2, <2>3
<1>8. ASSUME MoveIndex \/ MoveDocs \/ MoveMaps PROVE SaveProgress'
  BY <1>0, <1>8 DEF MoveIndex, MoveDocs, MoveMaps, Move, memoryVars, disk, SaveProgress
<1>9. ASSUME PutIndex PROVE InMemory' /\ OnDisk' /\ SaveProgress'
  <2>1. "mixed" \in diskFlaws' /\ UNCHANGED <<index, old, docs, maps, acked, flaws>>
    BY <1>9 DEF PutIndex, memoryVars
  <2>2. SaveProgress'
    BY <1>0, <1>9 DEF PutIndex, memoryVars, SaveProgress
  <2> QED BY <1>a, <2>1, <2>2 DEF OnDisk
<1>10. ASSUME PutDocs PROVE InMemory' /\ OnDisk' /\ SaveProgress'
  <2>1. "mixed" \in diskFlaws' /\ UNCHANGED <<index, old, docs, maps, acked, flaws>>
    BY <1>0, <1>10 DEF PutDocs, memoryVars, SaveProgress
  <2>2. SaveProgress'
    BY <1>0, <1>10 DEF PutDocs, memoryVars, SaveProgress
  <2> QED BY <1>a, <2>1, <2>2 DEF OnDisk
<1>11. ASSUME PutMaps PROVE InMemory' /\ OnDisk' /\ SaveProgress'
  <2>1. /\ "faiss.index" \in present /\ indexFile = index /\ oldFile = old
        /\ "documents.json" \in present /\ docsFile = docs
        /\ adding \subseteq docs
        /\ mapsFile' = maps /\ present' = present \cup {"metadata.json"}
        /\ acked' = acked \cup adding /\ diskFlaws' = flaws /\ step' = "idle"
        /\ UNCHANGED <<index, old, docs, maps, indexFile, oldFile, docsFile, flaws>>
    BY <1>0, <1>11 DEF PutMaps, Succeed, SaveProgress, memoryVars
  <2>2. LoadedIndex' = index /\ LoadedOld' = old /\ LoadedDocs' = docs /\ LoadedMaps' = maps
    BY <2>1 DEF LoadedIndex, LoadedOld, LoadedDocs, LoadedMaps
  <2>3. flaws = {} => /\ Covers(index, docs, maps) /\ OldOnes(old, maps)
                      /\ acked' \subseteq docs
    BY <1>0, <2>1 DEF InMemory, MemoryCoherent
  <2>4. InMemory'
    BY <2>1, <2>3 DEF InMemory, MemoryCoherent
  <2>5. OnDisk'
    BY <2>1, <2>2, <2>3 DEF OnDisk, DiskCoherent
  <2> QED BY <1>c, <2>1, <2>4, <2>5
<1>12. ASSUME SaveFails PROVE InMemory' /\ OnDisk' /\ SaveProgress'
  BY <1>12, <1>a, <1>b, <1>c DEF SaveFails, memoryVars
<1>13. ASSUME Restart PROVE InMemory' /\ OnDisk' /\ SaveProgress'
  <2>1. /\ index' = LoadedIndex /\ old' = LoadedOld
        /\ docs' = LoadedDocs /\ maps' = LoadedMaps
        /\ flaws' = diskFlaws /\ step' = "idle"
        /\ UNCHANGED <<disk, acked, diskFlaws>>
    BY <1>13 DEF Restart
  <2>2. InMemory'
    BY <1>0, <2>1 DEF InMemory, OnDisk, MemoryCoherent, DiskCoherent
  <2> QED BY <1>b, <1>c, <2>1, <2>2
<1>14. ASSUME UNCHANGED vars PROVE InMemory' /\ OnDisk' /\ SaveProgress'
  <2>1. SaveProgress'
    BY <1>0, <1>14 DEF vars, memoryVars, disk, SaveProgress
  <2> QED BY <1>14, <1>a, <1>b, <2>1 DEF vars, memoryVars
<1>15. MoveIndex \/ MoveDocs \/ MoveMaps => InMemory' /\ OnDisk'
  BY <1>7 DEF MoveIndex, MoveDocs, MoveMaps, Files
<1> QED
  BY <1>1, <1>2, <1>3, <1>4, <1>5, <1>6, <1>8, <1>9, <1>10, <1>11, <1>12, <1>13,
     <1>14, <1>15 DEF Next, SaveStep

\* Unless a process loaded mixed files or refused an update, its index holds exactly
\* one vector of the present contents of each of its documents, under the id that
\* leads back to it, and whatever else a failed removal or a repeated document left
\* there (faiss_store.py:383, :515, :588) leads to its own document or to none.
THEOREM IndexIsCoherent == Spec => []Coherent
<1>1. StoreInv => Coherent
  BY DEF StoreInv, MemoryCoherent, Covers, OldOnes, Coherent
<1> QED
  BY <1>1, StoreInit, StoreStep, PTL DEF Spec

\* In such a process a search can return every document whose addition was reported
\* and whose deletion was not asked for, after any failed saves and restarts.
THEOREM AcknowledgedIsFound == Spec => []AckedFindable
<1>1. StoreInv => AckedFindable
  <2> SUFFICES ASSUME StoreInv, flaws = {}, NEW d \in acked PROVE Findable(d)
    BY DEF AckedFindable
  <2>1. /\ d \in docs /\ d \in Docs /\ maps.fidOf[d] # NoId
        /\ index = {<<maps.fidOf[e], e>> : e \in docs}
        /\ Agree(maps) /\ maps \in Maps
    BY DEF StoreInv, MapsInv, MemoryCoherent, Covers, TypeOK
  <2>2. maps.fidOf[d] \in Ids /\ maps.docOf[maps.fidOf[d]] = d
    BY <2>1 DEF Agree, Maps
  <2>3. <<maps.fidOf[d], d>> \in index
    BY <2>1
  <2> QED BY <2>1, <2>2, <2>3 DEF Findable
<1> QED
  BY <1>1, StoreInit, StoreStep, PTL DEF Spec

-----------------------------------------------------------------------------
(* Refinement of SavedDocuments *)

\* What a search finds, and what it would find in the next process.
Found == IF flaws = {} THEN FoundIn(index, docs, maps.docOf) ELSE Broken
Saved == IF diskFlaws = {} THEN FoundIn(LoadedIndex, LoadedDocs, LoadedMaps.docOf) ELSE Broken

\* A search over an index that covers the documents finds all of them.
LEMMA CoveredIsFound ==
  ASSUME NEW vectors, NEW ds \in SUBSET Docs, NEW m \in Maps,
         Covers(vectors, ds, m), Agree(m)
  PROVE  FoundIn(vectors, ds, m.docOf) = ds
<1> SUFFICES ASSUME NEW d \in ds
             PROVE  \E f \in Ids : <<f, d>> \in vectors /\ m.docOf[f] = d
  BY DEF FoundIn
<1>1. d \in Docs /\ m.fidOf[d] # NoId /\ vectors = {<<m.fidOf[e], e>> : e \in ds}
  BY DEF Covers
<1>2. m.fidOf[d] \in Ids /\ m.docOf[m.fidOf[d]] = d
  BY <1>1 DEF Agree, Maps
<1>3. <<m.fidOf[d], d>> \in vectors
  BY <1>1
<1> QED
  BY <1>2, <1>3

\* Before and after a step, what is found are the documents there are.
LEMMA DocumentsFound ==
  /\ StoreInv => /\ Found = IF flaws = {} THEN docs ELSE Broken
                 /\ Saved = IF diskFlaws = {} THEN LoadedDocs ELSE Broken
                 /\ docs \in SUBSET Docs /\ LoadedDocs \in SUBSET Docs
  /\ StoreInv' => /\ Found' = IF flaws' = {} THEN docs' ELSE Broken
                  /\ Saved' = IF diskFlaws' = {} THEN LoadedDocs' ELSE Broken
<1>1. ASSUME StoreInv
      PROVE  /\ Found = IF flaws = {} THEN docs ELSE Broken
             /\ Saved = IF diskFlaws = {} THEN LoadedDocs ELSE Broken
             /\ docs \in SUBSET Docs /\ LoadedDocs \in SUBSET Docs
  <2>1. /\ docs \in SUBSET Docs /\ maps \in Maps /\ Agree(maps)
        /\ LoadedDocs \in SUBSET Docs /\ LoadedMaps \in Maps /\ Agree(LoadedMaps)
    BY <1>1, LoadedType, NoMapsAgree DEF StoreInv, MapsInv, TypeOK, LoadedMaps
  <2>2. flaws = {} => Covers(index, docs, maps)
    BY <1>1 DEF StoreInv, MemoryCoherent
  <2>3. diskFlaws = {} => Covers(LoadedIndex, LoadedDocs, LoadedMaps)
    BY <1>1 DEF StoreInv, DiskCoherent
  <2>4. flaws = {} => FoundIn(index, docs, maps.docOf) = docs
    BY <2>1, <2>2, CoveredIsFound
  <2>5. diskFlaws = {} => FoundIn(LoadedIndex, LoadedDocs, LoadedMaps.docOf) = LoadedDocs
    BY <2>1, <2>3, CoveredIsFound
  <2> QED BY <2>1, <2>4, <2>5 DEF Found, Saved
<1>2. (StoreInv => /\ Found = IF flaws = {} THEN docs ELSE Broken
                   /\ Saved = IF diskFlaws = {} THEN LoadedDocs ELSE Broken)'
  BY <1>1, PTL
<1> QED
  BY <1>1, <1>2

LEMMA DocumentsInit == Init => Documents!SInit
<1> SUFFICES ASSUME Init PROVE Documents!SInit
  OBVIOUS
<1>1. StoreInv
  BY StoreInit
<1>2. flaws = {} /\ diskFlaws = {} /\ docs = {} /\ LoadedDocs = {}
  BY DEF Init, LoadedDocs
<1>3. Found = {} /\ Saved = {}
  BY <1>1, <1>2, DocumentsFound
<1> QED
  BY <1>3 DEF Documents!SInit, Found, Saved

\* One kind of step of the set of documents for each step of the store: additions,
\* deletions, clear, a refused update, a step of a save, its last step, a restart.
LEMMA DocumentsStep ==
  StoreInv /\ StoreInv' /\ [Next]_vars => [Documents!SNext]_(Documents!sdVars)
<1> SUFFICES ASSUME StoreInv, StoreInv', [Next]_vars
             PROVE  [Documents!SNext]_(Documents!sdVars)
  OBVIOUS
<1>0. /\ Found = IF flaws = {} THEN docs ELSE Broken
      /\ Found' = IF flaws' = {} THEN docs' ELSE Broken
      /\ Saved = IF diskFlaws = {} THEN LoadedDocs ELSE Broken
      /\ Saved' = IF diskFlaws' = {} THEN LoadedDocs' ELSE Broken
      /\ docs \in SUBSET Docs
  BY DocumentsFound
<1>1. docs # Broken
  BY <1>0 DEF Broken
\* The steps of the abstract specification, in terms of Found and Saved.
<1>a. ASSUME Saved' = Saved, Found # Broken,
             NEW batch \in SUBSET Docs, Found' = Found \cup batch \/ Found' = Found \ batch
      PROVE  Documents!SNext
  BY <1>a DEF Documents!SNext, Documents!Add, Documents!Delete, Found, Saved
<1>b. ASSUME Saved' = Saved, Found' = {} \/ Found' = Broken PROVE Documents!SNext
  BY <1>b DEF Documents!SNext, Documents!DeleteAll, Documents!Break, Found, Saved
<1>c. ASSUME Found' = Found, Saved' = Broken \/ Saved' = Found PROVE Documents!SNext
  BY <1>c DEF Documents!SNext, Documents!Tear, Documents!Save, Found, Saved
<1>d. ASSUME Found' = Saved, Saved' = Saved PROVE Documents!SNext
  BY <1>d DEF Documents!SNext, Documents!Reopen, Found, Saved
<1>e. ASSUME Found' = Found, Saved' = Saved PROVE [Documents!SNext]_(Documents!sdVars)
  BY <1>e DEF Documents!sdVars, Found, Saved
<1>f. ASSUME UNCHANGED <<docs, flaws>> PROVE Found' = Found
  BY <1>0, <1>f
<1>g. ASSUME UNCHANGED <<disk, diskFlaws>> PROVE Saved' = Saved
  BY <1>0, <1>g DEF disk, LoadedDocs
<1>2. ASSUME NEW batch \in SUBSET Docs, AddDocuments(batch)
      PROVE  [Documents!SNext]_(Documents!sdVars)
  <2>1. docs' = docs \cup batch /\ UNCHANGED <<disk, diskFlaws, flaws>>
    BY <1>2 DEF AddDocuments, BeginSave
  <2>2. CASE flaws = {}
    BY <1>0, <1>1, <1>a, <1>g, <2>1, <2>2
  <2>3. CASE flaws # {}
    BY <1>0, <1>e, <1>g, <2>1, <2>3
  <2> QED BY <2>2, <2>3
<1>3. ASSUME NEW batch \in SUBSET Docs, DeleteDocuments(batch)
      PROVE  [Documents!SNext]_(Documents!sdVars)
  <2>1. docs' = docs \ batch /\ UNCHANGED <<disk, diskFlaws, flaws>>
    BY <1>3 DEF DeleteDocuments, BeginSave
  <2>2. CASE flaws = {}
    BY <1>0, <1>1, <1>a, <1>g, <2>1, <2>2
  <2>3. CASE flaws # {}
    BY <1>0, <1>e, <1>g, <2>1, <2>3
  <2> QED BY <2>2, <2>3
<1>4. ASSUME NEW batch \in SUBSET Docs, RejectDocuments(batch)
      PROVE  [Documents!SNext]_(Documents!sdVars)
  BY <1>4, <1>e, <1>f, <1>g DEF RejectDocuments
<1>5. ASSUME NEW d \in Docs, UpdateDocument(d)
      PROVE  [Documents!SNext]_(Documents!sdVars)
  BY <1>5, <1>e, <1>f, <1>g DEF UpdateDocument, BeginSave
<1>6. ASSUME NEW d \in Docs, RefuseUpdate(d)
      PROVE  [Documents!SNext]_(Documents!sdVars)
  <2>1. "update" \in flaws' /\ UNCHANGED <<disk, diskFlaws>>
    BY <1>6 DEF RefuseUpdate
  <2> QED BY <1>0, <1>b, <1>g, <2>1
<1>7. CASE Clear
  <2>1. docs' = {} /\ flaws' = {} /\ UNCHANGED <<disk, diskFlaws>>
    BY <1>7 DEF Clear, BeginSave
  <2> QED BY <1>0, <1>b, <1>g, <2>1
<1>8. ASSUME NEW file, NEW next, Move(file, next)
      PROVE  [Documents!SNext]_(Documents!sdVars)
  <2>1. /\ UNCHANGED <<docs, flaws>>
        /\ UNCHANGED <<disk, diskFlaws>> \/ "mixed" \in diskFlaws'
    BY <1>8 DEF Move, memoryVars
  <2>2. CASE UNCHANGED <<disk, diskFlaws>>
    BY <1>e, <1>f, <1>g, <2>1, <2>2
  <2>3. CASE "mixed" \in diskFlaws'
    BY <1>0, <1>c, <1>f, <2>1, <2>3
  <2> QED BY <2>1, <2>2, <2>3
<1>9. CASE PutIndex \/ PutDocs
  <2>1. "mixed" \in diskFlaws' /\ UNCHANGED <<docs, flaws>>
    BY <1>9 DEF PutIndex, PutDocs, memoryVars, StoreInv, SaveProgress
  <2> QED BY <1>0, <1>c, <1>f, <2>1
<1>10. CASE PutMaps
  <2>1. /\ "faiss.index" \in present' /\ "documents.json" \in present'
        /\ docsFile' = docs /\ diskFlaws' = flaws
        /\ UNCHANGED <<docs, flaws>>
    BY <1>10 DEF PutMaps, Succeed, memoryVars, StoreInv, SaveProgress
  <2>2. LoadedDocs' = docs
    BY <2>1 DEF LoadedDocs
  <2> QED BY <1>0, <1>c, <1>f, <2>1, <2>2
<1>11. CASE SaveFails
  BY <1>11, <1>e, <1>f, <1>g DEF SaveFails, memoryVars
<1>12. CASE Restart
  <2>1. docs' = LoadedDocs /\ flaws' = diskFlaws /\ UNCHANGED <<disk, diskFlaws>>
    BY <1>12 DEF Restart
  <2> QED BY <1>0, <1>d, <1>g, <2>1
<1>13. CASE UNCHANGED vars
  BY <1>13, <1>e, <1>f, <1>g DEF vars, memoryVars
<1>14. MoveIndex \/ MoveDocs \/ MoveMaps => [Documents!SNext]_(Documents!sdVars)
  BY <1>8 DEF MoveIndex, MoveDocs, MoveMaps
<1> QED
  BY <1>2, <1>3, <1>4, <1>5, <1>6, <1>7, <1>9, <1>10, <1>11, <1>12, <1>13, <1>14
  DEF Next, SaveStep

\* Operations that write an index, two maps and three files one after the other
\* implement one durable set of documents: a search finds what was added and not
\* deleted, and a restart what was found when the last save ended, until a save stops
\* half way or an update is refused (faiss_store.py:565, :796, :892).
THEOREM StoreIsDurableSet == Spec => IsDurableSet
<1>1. IsDurableSet <=> Documents!SInit /\ [][Documents!SNext]_(Documents!sdVars)
  BY DEF IsDurableSet, Documents!SSpec
<1> QED
  BY <1>1, DocumentsInit, DocumentsStep, StoreInit, StoreStep, PTL DEF Spec

-----------------------------------------------------------------------------
(* The composition with the chunker *)

\* Side by side, the store and the chunks of a text each behave as they do alone,
\* so what is proved of the one or the other holds of both.
THEOREM PartsOfIngestion ==
  IngestionSpec => Spec /\ (part = "chunks" => OptimizerSpec)
<1>1. IngestionInit => Init /\ (part = "chunks" => OptimizerInit)
  BY DEF IngestionInit
<1>2. [IngestionNext]_ingestionVars => [Next]_vars /\ [OptimizerNext]_optimizerVars
  BY DEF IngestionNext, StorePart, ChunksPart, TextDone, ingestionVars
<1> QED
  BY <1>1, <1>2, PTL DEF IngestionSpec, Spec, OptimizerSpec

\* Whatever ingestion does, texts and chunks, memory and files keep their types.
THEOREM IngestionTypes == IngestionSpec => []IngestionTypeOK
<1>1. [IngestionNext]_ingestionVars /\ ~(part = "chunks") => ~(part = "chunks")'
  BY DEF IngestionNext, StorePart, ChunksPart, TextDone, ingestionVars
<1>2. TypeOK /\ (part = "chunks" => OptimizerTypeOK) => IngestionTypeOK
  BY DEF IngestionTypeOK
<1> QED
  BY <1>1, <1>2, PartsOfIngestion, TypeCorrect, OptimizerTypeCorrect, PTL DEF IngestionSpec
=============================================================================
