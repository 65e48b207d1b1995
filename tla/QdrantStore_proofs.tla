------------------------- MODULE QdrantStore_proofs -------------------------
(***************************************************************************)
(* Theorems about QdrantStore, for any documents, processes, concurrent    *)
(* calls and sizes of embeddings.  At the end, what follows for            *)
(* MCServices, which puts the store beside three other services.           *)
(***************************************************************************)
EXTENDS MCServices, Parts_proofs, TenantUsers_proofs, TLAPS

USE QdrantAssumption

-----------------------------------------------------------------------------
(* Types *)

Collections == [size : Sizes, points : SUBSET Points]

CallRecords ==
  [at : CallPlaces, op : {"open", "add", "delete", "clear"}, store : Stores \cup {Gone},
   left : SUBSET Points, put : SUBSET Points, size : Sizes, counted : SUBSET Points]

\* A call under way belongs to a store, which is open unless the call opens it.
CallsHaveStores ==
  \A c \in StoreCalls : storeCall[c].at # "idle" =>
    /\ storeCall[c].store \in Stores
    /\ storeCall[c].op # "open" => vectorSize[storeCall[c].store] \in Sizes

TypeInv == QdrantTypeOK /\ CallsHaveStores

LEMMA IdleType == \A s \in Stores \cup {Gone} : CallOn(s) \in CallRecords
  BY DEF CallOn, CallRecords, CallPlaces

\* What the steps write in a call.
LEMMA CallEdits ==
  \A r \in CallRecords, place \in CallPlaces, left, set \in SUBSET Points :
    /\ [r EXCEPT !.put = set, !.at = place] \in CallRecords
    /\ [r EXCEPT !.at = place, !.counted = set] \in CallRecords
    /\ [r EXCEPT !.left = left, !.put = set, !.at = place] \in CallRecords
  BY DEF CallRecords

LEMMA TypeInit == QdrantInit => QdrantTypeOK
<1>1. NoStoreCall \in CallRecords
  BY IdleType DEF NoStoreCall
<1> QED
  BY <1>1 DEF QdrantInit, QdrantTypeOK, CallRecords

\* A call that moves on, or ends, is a call.
LEMMA GoesType ==
  ASSUME QdrantTypeOK, NEW c \in StoreCalls,
         Ends(c) \/ \E place \in CallPlaces : Goes(c, place)
  PROVE  storeCall' \in [StoreCalls -> CallRecords]
<1>1. NoStoreCall \in CallRecords
  BY IdleType DEF NoStoreCall
<1> QED
  BY <1>1 DEF QdrantTypeOK, CallRecords, Ends, Goes

LEMMA TypeStep == TypeInv /\ [QdrantNext]_qdrantVars => QdrantTypeOK'
<1> SUFFICES ASSUME QdrantTypeOK, CallsHaveStores, [QdrantNext]_qdrantVars
             PROVE  QdrantTypeOK'
  BY DEF TypeInv
<1> USE DEF CallPlaces
<1>0. /\ collection = Gone \/ collection \in Collections
      /\ storeCall \in [StoreCalls -> CallRecords]
  BY DEF QdrantTypeOK, Collections, CallRecords
<1>a. ASSUME storeCall' \in [StoreCalls -> CallRecords],
             collection' \in {Gone} \cup Collections,
             vectorSize' \in [Stores -> Sizes \cup {Gone}],
             owed' \subseteq Points, overtaken' \subseteq Points, abandoned' \in BOOLEAN
      PROVE  QdrantTypeOK'
  BY <1>a DEF QdrantTypeOK, Collections, CallRecords
<1>1. ASSUME NEW c \in StoreCalls, NEW s \in Stores, NEW call \in CallRecords,
             StartsCall(c, s, call)
      PROVE  QdrantTypeOK'
  BY <1>0, <1>1 DEF StartsCall, QdrantTypeOK, CallRecords
<1>2. ASSUME NEW c \in StoreCalls, NEW s \in Stores, OpenStore(c, s) PROVE QdrantTypeOK'
  <2>1. [CallOn(s) EXCEPT !.at = "look", !.op = "open"] \in CallRecords
    BY DEF CallOn, CallRecords
  <2> QED BY <1>1, <1>2, <2>1 DEF OpenStore
<1>3. ASSUME NEW c \in StoreCalls, NEW s \in Stores, StartClear(c, s) PROVE QdrantTypeOK'
  <2>1. [CallOn(s) EXCEPT !.at = "drop", !.op = "clear"] \in CallRecords
    BY DEF CallOn, CallRecords
  <2> QED BY <1>1, <1>3, <2>1 DEF StartClear
<1>4. ASSUME NEW c \in StoreCalls, NEW s \in Stores, NEW documents \in SUBSET Points,
             StartDelete(c, s, documents)
      PROVE  QdrantTypeOK'
  <2>1. [CallOn(s) EXCEPT !.at = "delete", !.op = "delete", !.left = documents] \in CallRecords
    BY DEF CallOn, CallRecords
  <2> QED BY <1>1, <1>4, <2>1 DEF StartDelete
<1>5. ASSUME NEW c \in StoreCalls, NEW s \in Stores, NEW documents \in SUBSET Points,
             NEW size \in Sizes, AddDocuments(c, s, documents, size)
      PROVE  QdrantTypeOK'
  <2>1. [CallOn(s) EXCEPT !.at = IF size = vectorSize[s] THEN "upsert" ELSE "measure",
                          !.left = documents, !.size = size] \in CallRecords
    BY DEF CallOn, CallRecords
  <2> QED BY <1>1, <1>5, <2>1 DEF AddDocuments
<1>6. ASSUME NEW c \in StoreCalls, EnsureCollection(c) PROVE QdrantTypeOK'
  BY <1>6, GoesType, <1>0, <1>a DEF EnsureCollection, QdrantTypeOK, Collections
<1>7. ASSUME NEW c \in StoreCalls, MeasureVectors(c) PROVE QdrantTypeOK'
  <2>1. PICK failed \in BOOLEAN :
          storeCall' = [storeCall EXCEPT
            ![c].at = IF SeemsEmpty(failed) THEN "drop" ELSE "upsert",
            ![c].counted = IF failed \/ collection = Gone THEN {} ELSE collection.points]
    BY <1>7 DEF MeasureVectors
  <2>2. (IF failed \/ collection = Gone THEN {} ELSE collection.points) \in SUBSET Points
    BY <1>0 DEF Collections
  <2>3. (IF SeemsEmpty(failed) THEN "drop" ELSE "upsert") \in CallPlaces
    OBVIOUS
  <2>4. storeCall' \in [StoreCalls -> CallRecords]
    BY <1>0, <2>1, <2>2, <2>3, CallEdits
  <2> QED BY <1>7, <2>4, <1>0, <1>a DEF MeasureVectors, QdrantTypeOK, Collections
<1>8. ASSUME NEW c \in StoreCalls, DropToClear(c) PROVE QdrantTypeOK'
  <2>1. storeCall' \in [StoreCalls -> CallRecords]
    <3>1. \A d \in StoreCalls :
            [storeCall[d] EXCEPT !.put = {}, !.at = IF d = c THEN "create" ELSE @]
              \in CallRecords
      <4> TAKE d \in StoreCalls
      <4>1. (IF d = c THEN "create" ELSE storeCall[d].at) \in CallPlaces
        BY <1>0 DEF CallRecords
      <4> QED BY <4>1, <1>0, CallEdits
    <3> QED BY <1>8, <3>1 DEF DropToClear
  <2> QED BY <1>8, <2>1, <1>0, <1>a DEF DropToClear, QdrantTypeOK
<1>9. ASSUME NEW c \in StoreCalls, DropToResize(c) PROVE QdrantTypeOK'
  BY <1>9, GoesType, <1>0, <1>a DEF DropToResize, QdrantTypeOK, Collections
<1>10. ASSUME NEW c \in StoreCalls, ResizeWithoutDrop(c) PROVE QdrantTypeOK'
  BY <1>10, GoesType, <1>0, <1>a DEF ResizeWithoutDrop, QdrantTypeOK, Collections
<1>11. ASSUME NEW c \in StoreCalls, Create(c) PROVE QdrantTypeOK'
  <2>1. NewSize(c) \in Sizes
    BY <1>0, <1>11 DEF NewSize, Create, QdrantTypeOK, CallRecords, CallsHaveStores
  <2> QED BY <1>11, <2>1, GoesType, <1>0, <1>a DEF Create, QdrantTypeOK, Collections
<1>12. ASSUME NEW c \in StoreCalls, Recreate(c) PROVE QdrantTypeOK'
  BY <1>12, GoesType, <1>0, <1>a DEF Recreate, QdrantTypeOK, Collections, CallRecords
<1>13. ASSUME NEW c \in StoreCalls, RecreateFails(c) PROVE QdrantTypeOK'
  BY <1>13, GoesType, <1>0, <1>a DEF RecreateFails, QdrantTypeOK, Collections
<1>14. ASSUME NEW c \in StoreCalls, Upsert(c) PROVE QdrantTypeOK'
  <2>1. PICK p \in storeCall[c].left :
          /\ collection' = [collection EXCEPT !.points = @ \cup {p}]
          /\ overtaken' = overtaken \ {p}
          /\ storeCall' = [storeCall EXCEPT
               ![c].left = @ \ {p}, ![c].put = @ \cup {p},
               ![c].at = IF storeCall[c].left = {p} THEN "return" ELSE "upsert"]
    BY <1>14 DEF Upsert
  <2>2. p \in Points
    BY <1>0, <2>1 DEF CallRecords
  <2>3. storeCall' \in [StoreCalls -> CallRecords]
    <3>1. /\ storeCall[c].left \ {p} \in SUBSET Points
          /\ storeCall[c].put \cup {p} \in SUBSET Points
      BY <1>0, <2>2 DEF CallRecords
    <3>2. (IF storeCall[c].left = {p} THEN "return" ELSE "upsert") \in CallPlaces
      OBVIOUS
    <3> QED BY <1>0, <2>1, <3>1, <3>2, CallEdits
  <2>4. collection' \in Collections
    BY <1>0, <1>14, <2>1, <2>2 DEF Upsert, Collections
  <2> QED BY <1>14, <2>1, <2>3, <2>4, <1>a DEF Upsert, QdrantTypeOK
<1>15. ASSUME NEW c \in StoreCalls, DeletePoints(c) PROVE QdrantTypeOK'
  <2>1. storeCall' \in [StoreCalls -> CallRecords]
    <3>1. \A d \in StoreCalls :
            [storeCall[d] EXCEPT !.put = @ \ storeCall[c].left,
                                 !.at = IF d = c THEN "return" ELSE @] \in CallRecords
      <4> TAKE d \in StoreCalls
      <4>1. /\ storeCall[d].put \ storeCall[c].left \in SUBSET Points
            /\ (IF d = c THEN "return" ELSE storeCall[d].at) \in CallPlaces
        BY <1>0 DEF CallRecords
      <4> QED BY <4>1, <1>0, CallEdits
    <3> QED BY <1>15, <3>1 DEF DeletePoints
  <2>2. collection' \in Collections
    BY <1>15, <1>0 DEF DeletePoints, Collections
  <2> QED BY <1>15, <2>1, <2>2, <1>a DEF DeletePoints, QdrantTypeOK
<1>16. ASSUME NEW c \in StoreCalls, RequestFails(c) PROVE QdrantTypeOK'
  BY <1>16, GoesType, <1>0, <1>a DEF RequestFails, QdrantTypeOK, Collections
<1>17. ASSUME NEW c \in StoreCalls, Return(c) PROVE QdrantTypeOK'
  BY <1>17, GoesType, <1>0, <1>a DEF Return, QdrantTypeOK, Collections, CallRecords
<1>18. ASSUME NEW s \in Stores, StoreStops(s) PROVE QdrantTypeOK'
  <2>1. NoStoreCall \in CallRecords
    BY IdleType DEF NoStoreCall
  <2> QED BY <1>18, <2>1, <1>0, <1>a DEF StoreStops, QdrantTypeOK, Collections
<1>19. ASSUME UNCHANGED qdrantVars PROVE QdrantTypeOK'
  BY <1>19 DEF qdrantVars, QdrantTypeOK
<1> QED
  BY <1>2, <1>3, <1>4, <1>5, <1>6, <1>7, <1>8, <1>9, <1>10, <1>11, <1>12, <1>13, <1>14,
     <1>15, <1>16, <1>17, <1>18, <1>19 DEF QdrantNext

-----------------------------------------------------------------------------
(* Calls and their stores *)

LEMMA StoresInit == QdrantInit => CallsHaveStores
  BY DEF QdrantInit, CallsHaveStores, NoStoreCall, CallOn

\* Calls that are under way were under way, of the same store and operation.
OthersAsBefore ==
  \A c \in StoreCalls : storeCall'[c].at # "idle" =>
    /\ storeCall[c].at # "idle"
    /\ storeCall'[c].store = storeCall[c].store /\ storeCall'[c].op = storeCall[c].op

LEMMA StoresKept ==
  ASSUME TypeInv, QdrantTypeOK', OthersAsBefore,
         \A s \in Stores : vectorSize[s] # Gone => vectorSize'[s] # Gone
  PROVE  CallsHaveStores'
<1> SUFFICES ASSUME NEW c \in StoreCalls, storeCall'[c].at # "idle"
             PROVE  /\ storeCall'[c].store \in Stores
                    /\ storeCall'[c].op # "open" => vectorSize'[storeCall'[c].store] \in Sizes
  BY DEF CallsHaveStores
<1>1. /\ storeCall[c].store \in Stores
      /\ storeCall[c].op # "open" => vectorSize[storeCall[c].store] \in Sizes
  BY DEF OthersAsBefore, TypeInv, CallsHaveStores
<1>2. /\ storeCall'[c].store = storeCall[c].store
      /\ storeCall'[c].op = storeCall[c].op
  BY DEF OthersAsBefore
<1>3. \A s \in Stores : vectorSize'[s] \in Sizes \cup {Gone}
  BY DEF QdrantTypeOK
<1> QED
  BY <1>1, <1>2, <1>3

LEMMA StoresStep == TypeInv /\ [QdrantNext]_qdrantVars => TypeInv'
<1> SUFFICES ASSUME TypeInv, [QdrantNext]_qdrantVars PROVE CallsHaveStores'
  BY TypeStep DEF TypeInv
<1>0. QdrantTypeOK /\ QdrantTypeOK' /\ storeCall \in [StoreCalls -> CallRecords]
  BY TypeStep DEF TypeInv, QdrantTypeOK, CallRecords
<1>1. ASSUME NEW c \in StoreCalls, NEW s \in Stores, NEW call \in CallRecords,
             StartsCall(c, s, call), call.store = s,
             call.op # "open" => vectorSize[s] # Gone
      PROVE  CallsHaveStores'
  BY <1>0, <1>1 DEF StartsCall, CallsHaveStores, TypeInv, QdrantTypeOK
<1>2. ASSUME NEW c \in StoreCalls, storeCall[c].at # "idle",
             Ends(c) \/ \E place \in CallPlaces : Goes(c, place),
             \A s \in Stores : vectorSize[s] # Gone => vectorSize'[s] # Gone
      PROVE  CallsHaveStores'
  <2>1. OthersAsBefore
    BY <1>0, <1>2 DEF Ends, Goes, OthersAsBefore, NoStoreCall, CallOn, CallRecords
  <2> QED BY <1>0, <1>2, <2>1, StoresKept
<1>3. ASSUME NEW c \in StoreCalls, NEW s \in Stores, OpenStore(c, s) PROVE CallsHaveStores'
  <2>1. [CallOn(s) EXCEPT !.at = "look", !.op = "open"] \in CallRecords
    BY DEF CallOn, CallRecords, CallPlaces
  <2> QED BY <1>1, <1>3, <2>1 DEF OpenStore, CallOn
<1>4. ASSUME NEW c \in StoreCalls, NEW s \in Stores, StartClear(c, s) PROVE CallsHaveStores'
  <2>1. [CallOn(s) EXCEPT !.at = "drop", !.op = "clear"] \in CallRecords
    BY DEF CallOn, CallRecords, CallPlaces
  <2> QED BY <1>1, <1>4, <2>1 DEF StartClear, CallOn
<1>5. ASSUME NEW c \in StoreCalls, NEW s \in Stores, NEW documents \in SUBSET Points,
             StartDelete(c, s, documents)
      PROVE  CallsHaveStores'
  <2>1. [CallOn(s) EXCEPT !.at = "delete", !.op = "delete", !.left = documents] \in CallRecords
    BY DEF CallOn, CallRecords, CallPlaces
  <2> QED BY <1>1, <1>5, <2>1 DEF StartDelete, CallOn
<1>6. ASSUME NEW c \in StoreCalls, NEW s \in Stores, NEW documents \in SUBSET Points,
             NEW size \in Sizes, AddDocuments(c, s, documents, size)
      PROVE  CallsHaveStores'
  <2>1. [CallOn(s) EXCEPT !.at = IF size = vectorSize[s] THEN "upsert" ELSE "measure",
                          !.left = documents, !.size = size] \in CallRecords
    BY DEF CallOn, CallRecords, CallPlaces
  <2> QED BY <1>1, <1>6, <2>1 DEF AddDocuments, CallOn
<1>7. ASSUME NEW c \in StoreCalls, EnsureCollection(c) PROVE CallsHaveStores'
  BY <1>0, <1>2, <1>7 DEF EnsureCollection, QdrantTypeOK, CallPlaces
<1>8. ASSUME NEW c \in StoreCalls, MeasureVectors(c) PROVE CallsHaveStores'
  <2>1. OthersAsBefore
    BY <1>0, <1>8 DEF MeasureVectors, OthersAsBefore, CallRecords
  <2> QED BY <1>0, <1>8, <2>1, StoresKept DEF MeasureVectors
<1>9. ASSUME NEW c \in StoreCalls, DropToClear(c) PROVE CallsHaveStores'
  <2>1. OthersAsBefore
    BY <1>0, <1>9 DEF DropToClear, OthersAsBefore, CallRecords
  <2> QED BY <1>0, <1>9, <2>1, StoresKept DEF DropToClear
<1>10. ASSUME NEW c \in StoreCalls,
              DropToResize(c) \/ ResizeWithoutDrop(c) \/ RecreateFails(c)
                \/ RequestFails(c) \/ Return(c)
       PROVE  CallsHaveStores'
  BY <1>2, <1>10
  DEF DropToResize, ResizeWithoutDrop, RecreateFails, RequestFails, Return, CallPlaces
<1>11. ASSUME NEW c \in StoreCalls, Create(c) PROVE CallsHaveStores'
  <2>1. NewSize(c) # Gone
    BY <1>0, <1>11 DEF NewSize, Create, QdrantTypeOK, CallRecords, CallsHaveStores, TypeInv
  <2> QED BY <1>0, <1>2, <1>11, <2>1 DEF Create, QdrantTypeOK, CallPlaces
<1>12. ASSUME NEW c \in StoreCalls, Recreate(c) PROVE CallsHaveStores'
  <2>1. storeCall[c].size # Gone
    BY <1>0 DEF CallRecords
  <2> QED BY <1>0, <1>2, <1>12, <2>1 DEF Recreate, QdrantTypeOK, CallPlaces
<1>13. ASSUME NEW c \in StoreCalls, Upsert(c) PROVE CallsHaveStores'
  <2>1. OthersAsBefore
    BY <1>0, <1>13 DEF Upsert, OthersAsBefore, CallRecords
  <2> QED BY <1>0, <1>13, <2>1, StoresKept DEF Upsert
<1>14. ASSUME NEW c \in StoreCalls, DeletePoints(c) PROVE CallsHaveStores'
  <2>1. OthersAsBefore
    BY <1>0, <1>14 DEF DeletePoints, OthersAsBefore, CallRecords
  <2> QED BY <1>0, <1>14, <2>1, StoresKept DEF DeletePoints
<1>15. ASSUME NEW s \in Stores, StoreStops(s) PROVE CallsHaveStores'
  BY <1>0, <1>15
  DEF StoreStops, CallsHaveStores, TypeInv, QdrantTypeOK, NoStoreCall, CallOn
<1>16. ASSUME UNCHANGED qdrantVars PROVE CallsHaveStores'
  BY <1>16 DEF qdrantVars, CallsHaveStores, TypeInv
<1> QED
  BY <1>3, <1>4, <1>5, <1>6, <1>7, <1>8, <1>9, <1>10, <1>11, <1>12, <1>13, <1>14, <1>15,
     <1>16 DEF QdrantNext

\* Whatever processes do to the collection, and however requests fail, points,
\* sizes and calls keep their types, and a call's store stays open.
THEOREM TypeCorrect == QdrantSpec => []QdrantTypeOK
<1>1. QdrantInit => TypeInv
  BY TypeInit, StoresInit DEF TypeInv
<1>2. TypeInv => QdrantTypeOK
  BY DEF TypeInv
<1> QED
  BY <1>1, <1>2, StoresStep, PTL DEF QdrantSpec

-----------------------------------------------------------------------------
(* What is acknowledged is found *)

\* What a call has put is held until it is acknowledged, deleted or cleared.
PutHeld == \A c \in StoreCalls : storeCall[c].put \subseteq Held \cup overtaken

\* A size test drops what it took for an empty collection: it counted nothing.
NothingCounted ==
  \A c \in StoreCalls :
    storeCall[c].at = "drop" /\ storeCall[c].op = "add" => storeCall[c].counted = {}

LossInv == TypeInv /\ LostOnlyUncounted /\ PutHeld /\ NothingCounted

LEMMA LossInit == QdrantInit => LossInv
<1> SUFFICES ASSUME QdrantInit PROVE LossInv
  OBVIOUS
<1>1. TypeInv
  BY TypeInit, StoresInit DEF TypeInv
<1>2. LostOnlyUncounted /\ PutHeld /\ NothingCounted
  BY DEF QdrantInit, LostOnlyUncounted, PutHeld, NothingCounted, NoStoreCall, CallOn
<1> QED
  BY <1>1, <1>2 DEF LossInv

\* A step that loses no point that is held, and after which the calls have put and
\* counted no more than before.
LEMMA LossKept ==
  ASSUME LossInv, TypeInv',
         Held \cup overtaken \subseteq (Held \cup overtaken)', owed' = owed,
         \A c \in StoreCalls :
           /\ storeCall'[c].put \subseteq storeCall[c].put
           /\ storeCall'[c].at = "drop" /\ storeCall'[c].op = "add"
                => \/ storeCall'[c].counted = {}
                   \/ /\ storeCall[c].at = "drop" /\ storeCall[c].op = "add"
                      /\ storeCall'[c].counted = storeCall[c].counted
  PROVE  LossInv'
<1>1. LostOnlyUncounted'
  BY DEF LossInv, LostOnlyUncounted
<1>2. PutHeld'
  BY DEF LossInv, PutHeld
<1>3. NothingCounted'
  BY DEF LossInv, NothingCounted
<1> QED
  BY <1>1, <1>2, <1>3 DEF LossInv

LEMMA LossStep == LossInv /\ [QdrantNext]_qdrantVars => LossInv'
<1> SUFFICES ASSUME LossInv, [QdrantNext]_qdrantVars PROVE LossInv'
  OBVIOUS
<1> USE DEF CallPlaces
<1>0. /\ TypeInv /\ TypeInv' /\ QdrantTypeOK
      /\ storeCall \in [StoreCalls -> CallRecords]
      /\ collection = Gone \/ collection \in Collections
  BY StoresStep DEF LossInv, TypeInv, QdrantTypeOK, CallRecords, Collections
<1>1. ASSUME NEW c \in StoreCalls, NEW s \in Stores, NEW call,
             StartsCall(c, s, call), call.put = {}, call.counted = {}
      PROVE  LossInv'
  <2>1. UNCHANGED <<Held, overtaken, owed>>
    BY <1>1 DEF StartsCall, Held
  <2>2. storeCall' = [storeCall EXCEPT ![c] = call]
    BY <1>1 DEF StartsCall
  <2> QED BY <1>0, <1>1, <2>1, <2>2, LossKept
<1>2. ASSUME NEW c \in StoreCalls, NEW s \in Stores,
             OpenStore(c, s) \/ StartClear(c, s)
               \/ \E documents \in SUBSET Points :
                    \/ StartDelete(c, s, documents)
                    \/ \E size \in Sizes : AddDocuments(c, s, documents, size)
      PROVE  LossInv'
  BY <1>1, <1>2 DEF OpenStore, StartClear, StartDelete, AddDocuments, CallOn
<1>3. ASSUME NEW c \in StoreCalls,
             Ends(c) \/ \E place \in CallPlaces \ {"drop"} : Goes(c, place),
             Held \cup overtaken \subseteq (Held \cup overtaken)', owed' = owed
      PROVE  LossInv'
  <2>1. \A d \in StoreCalls :
          /\ storeCall'[d].put \subseteq storeCall[d].put
          /\ storeCall'[d].at = "drop" => storeCall'[d] = storeCall[d]
    BY <1>0, <1>3 DEF Ends, Goes, NoStoreCall, CallOn, CallRecords
  <2> QED BY <1>0, <1>3, <2>1, LossKept
<1>4. ASSUME NEW c \in StoreCalls,
             EnsureCollection(c) \/ ResizeWithoutDrop(c) \/ RecreateFails(c)
               \/ RequestFails(c)
      PROVE  LossInv'
  <2>1. UNCHANGED <<Held, overtaken, owed>>
    BY <1>4 DEF EnsureCollection, ResizeWithoutDrop, RecreateFails, RequestFails, Held
  <2>2. Ends(c) \/ \E place \in CallPlaces \ {"drop"} : Goes(c, place)
    BY <1>4 DEF EnsureCollection, ResizeWithoutDrop, RecreateFails, RequestFails
  <2> QED BY <1>3, <2>1, <2>2
<1>5. ASSUME NEW c \in StoreCalls, MeasureVectors(c) PROVE LossInv'
  <2>1. PICK failed \in BOOLEAN :
          storeCall' = [storeCall EXCEPT
            ![c].at = IF SeemsEmpty(failed) THEN "drop" ELSE "upsert",
            ![c].counted = IF failed \/ collection = Gone THEN {} ELSE collection.points]
    BY <1>5 DEF MeasureVectors
  <2>2. \A d \in StoreCalls :
          /\ storeCall'[d].put = storeCall[d].put
          /\ d # c => storeCall'[d] = storeCall[d]
    BY <1>0, <2>1 DEF CallRecords
  <2>3. storeCall'[c].at = "drop" => storeCall'[c].counted = {}
    BY <1>0, <2>1 DEF SeemsEmpty, CallRecords
  <2>4. UNCHANGED <<Held, overtaken, owed>>
    BY <1>5 DEF MeasureVectors, Held
  <2> QED BY <1>0, <2>2, <2>3, <2>4, LossKept
<1>6. ASSUME NEW c \in StoreCalls, DropToClear(c) PROVE LossInv'
  <2>1. \A d \in StoreCalls :
          /\ storeCall'[d].put = {}
          /\ storeCall'[d].op = storeCall[d].op /\ storeCall'[d].counted = storeCall[d].counted
          /\ storeCall'[d].at = "drop" => storeCall[d].at = "drop"
    BY <1>0, <1>6 DEF DropToClear, CallRecords
  <2>2. owed' = {}
    BY <1>6 DEF DropToClear
  <2>3. NothingCounted'
    BY <2>1 DEF LossInv, NothingCounted
  <2> QED BY <1>0, <2>1, <2>2, <2>3 DEF LossInv, LostOnlyUncounted, PutHeld
<1>7. ASSUME NEW c \in StoreCalls, DropToResize(c) PROVE LossInv'
  <2>1. storeCall[c].counted = {}
    BY <1>7 DEF DropToResize, LossInv, NothingCounted
  <2>2. Held \cup overtaken \subseteq (Held \cup overtaken)'
    BY <1>7, <2>1 DEF DropToResize, Held
  <2> QED BY <1>3, <1>7, <2>2 DEF DropToResize
<1>8. ASSUME NEW c \in StoreCalls, Create(c) \/ Recreate(c) PROVE LossInv'
  <2>1. Held = {} /\ UNCHANGED <<overtaken, owed>>
    BY <1>8 DEF Create, Recreate, Held
  <2>2. Ends(c) \/ \E place \in CallPlaces \ {"drop"} : Goes(c, place)
    BY <1>8 DEF Create, Recreate
  <2> QED BY <1>3, <2>1, <2>2
<1>9. ASSUME NEW c \in StoreCalls, Upsert(c) PROVE LossInv'
  <2>1. PICK p \in storeCall[c].left :
          /\ collection' = [collection EXCEPT !.points = @ \cup {p}]
          /\ overtaken' = overtaken \ {p}
          /\ storeCall' = [storeCall EXCEPT
               ![c].left = @ \ {p}, ![c].put = @ \cup {p},
               ![c].at = IF storeCall[c].left = {p} THEN "return" ELSE "upsert"]
    BY <1>9 DEF Upsert
  <2>2. collection \in Collections /\ collection # Gone /\ owed' = owed
    BY <1>0, <1>9 DEF Upsert
  <2>3. collection' \in Collections /\ collection'.points = collection.points \cup {p}
    BY <1>0, <2>1, <2>2 DEF CallRecords, Collections
  <2>4. Held' = Held \cup {p}
    BY <2>2, <2>3 DEF Held, Collections
  <2>5. \A d \in StoreCalls :
          /\ storeCall'[d].put \subseteq storeCall[d].put \cup {p}
          /\ storeCall'[d].op = storeCall[d].op /\ storeCall'[d].counted = storeCall[d].counted
          /\ storeCall'[d].at = "drop" => storeCall[d].at = "drop"
    BY <1>0, <2>1 DEF CallRecords
  <2>6. LostOnlyUncounted'
    BY <2>1, <2>2, <2>4 DEF LossInv, LostOnlyUncounted
  <2>7. PutHeld'
    BY <2>1, <2>4, <2>5 DEF LossInv, PutHeld
  <2>8. NothingCounted'
    BY <2>5 DEF LossInv, NothingCounted
  <2> QED BY <1>0, <2>6, <2>7, <2>8 DEF LossInv
<1>10. ASSUME NEW c \in StoreCalls, DeletePoints(c) PROVE LossInv'
  <2> DEFINE points == storeCall[c].left
  <2>1. collection \in Collections /\ collection # Gone
    BY <1>0, <1>10 DEF DeletePoints
  <2>2. /\ collection' = [collection EXCEPT !.points = @ \ points]
        /\ owed' = owed \ points /\ overtaken' = overtaken
    BY <1>10 DEF DeletePoints
  <2>3. collection' \in Collections /\ collection'.points = collection.points \ points
    BY <2>1, <2>2 DEF Collections
  <2>4. Held' = Held \ points
    BY <2>1, <2>3 DEF Held, Collections
  <2>5. \A d \in StoreCalls :
          /\ storeCall'[d].put = storeCall[d].put \ points
          /\ storeCall'[d].op = storeCall[d].op /\ storeCall'[d].counted = storeCall[d].counted
          /\ storeCall'[d].at = "drop" => storeCall[d].at = "drop"
    BY <1>0, <1>10 DEF DeletePoints, CallRecords
  <2> HIDE DEF points
  <2>6. LostOnlyUncounted'
    BY <2>2, <2>4 DEF LossInv, LostOnlyUncounted
  <2>7. PutHeld'
    BY <2>2, <2>4, <2>5 DEF LossInv, PutHeld
  <2>8. NothingCounted'
    BY <2>5 DEF LossInv, NothingCounted
  <2> QED BY <1>0, <2>6, <2>7, <2>8 DEF LossInv
<1>11. ASSUME NEW c \in StoreCalls, Return(c) PROVE LossInv'
  <2>1. /\ owed' = owed \cup storeCall[c].put /\ UNCHANGED <<Held, overtaken>>
        /\ storeCall' = [storeCall EXCEPT ![c] = NoStoreCall]
    BY <1>11 DEF Return, Ends, Held
  <2>2. \A d \in StoreCalls : storeCall'[d] = storeCall[d] \/ storeCall'[d] = NoStoreCall
    BY <1>0, <2>1
  <2>3. LostOnlyUncounted'
    BY <2>1 DEF LossInv, LostOnlyUncounted, PutHeld
  <2>4. PutHeld' /\ NothingCounted'
    BY <2>1, <2>2 DEF LossInv, PutHeld, NothingCounted, NoStoreCall, CallOn
  <2> QED BY <1>0, <2>3, <2>4 DEF LossInv
<1>12. ASSUME NEW s \in Stores, StoreStops(s) PROVE LossInv'
  <2>1. /\ \A d \in StoreCalls : storeCall'[d] = storeCall[d] \/ storeCall'[d] = NoStoreCall
        /\ UNCHANGED <<Held, overtaken, owed>>
    BY <1>12 DEF StoreStops, Held
  <2> QED BY <1>0, <2>1, LossKept DEF NoStoreCall, CallOn
<1>13. ASSUME UNCHANGED qdrantVars PROVE LossInv'
  BY <1>0, <1>13, LossKept DEF qdrantVars, Held
<1> QED
  BY <1>2, <1>4, <1>5, <1>6, <1>7, <1>8, <1>9, <1>10, <1>11, <1>12, <1>13 DEF QdrantNext

\* For any number of processes, calls and documents: what the store acknowledged
\* is in the collection until it is deleted or cleared, or went with a collection
\* that a size test had taken for empty.
THEOREM AcknowledgedIsHeld == QdrantSpec => []LostOnlyUncounted
<1>1. LossInv => LostOnlyUncounted
  BY DEF LossInv
<1> QED
  BY <1>1, LossInit, LossStep, PTL DEF QdrantSpec

-----------------------------------------------------------------------------
(* The collection is there *)

Creating == \E c \in StoreCalls : storeCall[c].at \in {"create", "recreate"}

MissingInv == TypeInv /\ MissingOnlyByFailure

\* Other steps than those that create a collection, or give that up.
LEMMA MissingKept ==
  ASSUME MissingInv, TypeInv',
         collection' = Gone => \/ collection = Gone \/ abandoned' \/ Creating',
         collection = Gone /\ abandoned => abandoned',
         collection = Gone /\ Creating => Creating' \/ abandoned',
         collection = Gone => \A s \in Stores : vectorSize[s] = Gone => vectorSize'[s] = Gone
  PROVE  MissingInv'
<1> SUFFICES MissingOnlyByFailure'
  BY DEF MissingInv
<1>1. CASE abandoned' \/ Creating' \/ collection' # Gone
  BY <1>1 DEF MissingOnlyByFailure, Creating
<1>2. CASE ~abandoned' /\ ~Creating' /\ collection' = Gone
  <2>1. collection = Gone /\ ~abandoned /\ ~Creating
    BY <1>2
  <2>2. \A s \in Stores : vectorSize[s] = Gone
    BY <2>1 DEF MissingInv, MissingOnlyByFailure, Creating
  <2> QED BY <2>1, <2>2 DEF MissingOnlyByFailure
<1> QED
  BY <1>1, <1>2

LEMMA MissingStep == MissingInv /\ [QdrantNext]_qdrantVars => MissingInv'
<1> SUFFICES ASSUME MissingInv, [QdrantNext]_qdrantVars PROVE MissingInv'
  OBVIOUS
<1> USE DEF CallPlaces
<1>0. /\ TypeInv /\ TypeInv' /\ abandoned \in BOOLEAN
      /\ storeCall \in [StoreCalls -> CallRecords]
      /\ vectorSize \in [Stores -> Sizes \cup {Gone}]
      /\ collection = Gone \/ collection \in Collections
  BY StoresStep DEF MissingInv, TypeInv, QdrantTypeOK, CallRecords, Collections
\* A call that was not creating moves on, and the collection stays.
<1>1. ASSUME NEW c \in StoreCalls, NEW call,
             storeCall[c].at \notin {"create", "recreate"},
             storeCall' = [storeCall EXCEPT ![c] = call],
             collection' = Gone => collection = Gone \/ call.at \in {"create", "recreate"},
             abandoned => abandoned',
             collection = Gone => vectorSize' = vectorSize
      PROVE  MissingInv'
  <2>1. /\ Creating => Creating'
        /\ call.at \in {"create", "recreate"} => Creating'
    BY <1>0, <1>1 DEF Creating
  <2> QED BY <1>0, <1>1, <2>1, MissingKept
<1>2. ASSUME NEW c \in StoreCalls, NEW s \in Stores,
             OpenStore(c, s) \/ StartClear(c, s)
               \/ \E documents \in SUBSET Points :
                    \/ StartDelete(c, s, documents)
                    \/ \E size \in Sizes : AddDocuments(c, s, documents, size)
      PROVE  MissingInv'
  <2>1. PICK call : StartsCall(c, s, call)
    BY <1>2 DEF OpenStore, StartClear, StartDelete, AddDocuments
  <2> QED BY <1>1, <2>1 DEF StartsCall
<1>3. ASSUME NEW c \in StoreCalls, EnsureCollection(c) PROVE MissingInv'
  <2>1. CASE Ends(c)
    BY <1>1, <1>3, <2>1 DEF EnsureCollection, Ends
  <2>2. CASE Goes(c, "create")
    BY <1>1, <1>3, <2>2 DEF EnsureCollection, Goes
  <2> QED BY <1>3, <2>1, <2>2 DEF EnsureCollection
<1>4. ASSUME NEW c \in StoreCalls, MeasureVectors(c) PROVE MissingInv'
  <2>1. PICK failed \in BOOLEAN :
          storeCall' = [storeCall EXCEPT ![c] =
            [@ EXCEPT !.at = IF SeemsEmpty(failed) THEN "drop" ELSE "upsert",
                      !.counted = IF failed \/ collection = Gone THEN {}
                                  ELSE collection.points]]
    BY <1>4 DEF MeasureVectors
  <2> QED BY <1>1, <1>4, <2>1 DEF MeasureVectors
<1>5. ASSUME NEW c \in StoreCalls, DropToClear(c) PROVE MissingInv'
  <2>1. storeCall'[c].at = "create"
    BY <1>0, <1>5 DEF DropToClear, CallRecords
  <2> QED BY <1>0, <1>5, <2>1, MissingKept DEF DropToClear, Creating
<1>6. ASSUME NEW c \in StoreCalls, DropToResize(c) \/ ResizeWithoutDrop(c)
      PROVE  MissingInv'
  <2>1. storeCall'[c].at = "recreate"
    BY <1>0, <1>6 DEF DropToResize, ResizeWithoutDrop, Goes, CallRecords
  <2>2. vectorSize' = vectorSize /\ abandoned' = abandoned
    BY <1>6 DEF DropToResize, ResizeWithoutDrop
  <2> QED BY <1>0, <2>1, <2>2, MissingKept DEF Creating
<1>7. ASSUME NEW c \in StoreCalls, Create(c) \/ Recreate(c) PROVE MissingInv'
  <2>1. collection' \in Collections
    <3>1. NewSize(c) \in Sizes \/ ~Create(c)
      BY <1>0 DEF NewSize, Create, CallRecords, CallsHaveStores, TypeInv
    <3> QED BY <1>0, <1>7, <3>1 DEF Create, Recreate, Collections, CallRecords
  <2>2. collection' # Gone
    BY <2>1 DEF Collections
  <2> QED BY <1>0, <2>2 DEF MissingInv, MissingOnlyByFailure
<1>8. ASSUME NEW c \in StoreCalls, RecreateFails(c) \/ RequestFails(c) PROVE MissingInv'
  <2>1. collection' = collection /\ vectorSize' = vectorSize
    BY <1>8 DEF RecreateFails, RequestFails
  <2>2. abandoned => abandoned'
    BY <1>0, <1>8 DEF RecreateFails, RequestFails
  <2>3. PICK call : storeCall' = [storeCall EXCEPT ![c] = call]
    BY <1>8 DEF RecreateFails, RequestFails, Goes, Ends
  <2>4. CASE storeCall[c].at \in {"create", "recreate"}
    <3>1. collection = Gone => abandoned'
      BY <1>0, <1>8, <2>4 DEF RecreateFails, RequestFails
    <3> QED BY <1>0, <2>1, <2>2, <3>1, MissingKept
  <2>5. CASE storeCall[c].at \notin {"create", "recreate"}
    BY <1>1, <2>1, <2>2, <2>3, <2>5
  <2> QED BY <2>4, <2>5
<1>9. ASSUME NEW c \in StoreCalls, Upsert(c) \/ DeletePoints(c) PROVE MissingInv'
  <2>1. \E points \in SUBSET Points : collection' = [collection EXCEPT !.points = points]
    <3>1. ASSUME Upsert(c) PROVE \E points \in SUBSET Points :
                                   collection' = [collection EXCEPT !.points = points]
      <4>1. PICK p \in storeCall[c].left : collection' = [collection EXCEPT !.points = @ \cup {p}]
        BY <3>1 DEF Upsert
      <4>2. collection.points \cup {p} \in SUBSET Points
        BY <1>0, <3>1 DEF Upsert, Collections, CallRecords
      <4> QED BY <4>1, <4>2
    <3>2. ASSUME DeletePoints(c) PROVE \E points \in SUBSET Points :
                                         collection' = [collection EXCEPT !.points = points]
      <4>1. collection.points \ storeCall[c].left \in SUBSET Points
        BY <1>0, <3>2 DEF DeletePoints, Collections
      <4> QED BY <3>2, <4>1 DEF DeletePoints
    <3> QED BY <1>9, <3>1, <3>2
  <2>2. collection \in Collections
    BY <1>0, <1>9 DEF Upsert, DeletePoints
  <2>3. collection' # Gone
    BY <2>1, <2>2 DEF Collections
  <2> QED BY <1>0, <2>3 DEF MissingInv, MissingOnlyByFailure
<1>10. ASSUME NEW c \in StoreCalls, Return(c) PROVE MissingInv'
  BY <1>1, <1>10 DEF Return, Ends
<1>11. ASSUME NEW s \in Stores, StoreStops(s) PROVE MissingInv'
  <2>1. Creating => Creating' \/ abandoned'
    BY <1>11 DEF StoreStops, Creating
  <2>2. \A t \in Stores : vectorSize[t] = Gone => vectorSize'[t] = Gone
    BY <1>0, <1>11 DEF StoreStops
  <2> QED BY <1>0, <1>11, <2>1, <2>2, MissingKept DEF StoreStops
<1>12. ASSUME UNCHANGED qdrantVars PROVE MissingInv'
  BY <1>12 DEF qdrantVars, MissingInv, MissingOnlyByFailure, TypeInv, QdrantTypeOK,
               CallsHaveStores
<1> QED
  BY <1>2, <1>3, <1>4, <1>5, <1>6, <1>7, <1>8, <1>9, <1>10, <1>11, <1>12 DEF QdrantNext

\* However calls of several processes race to make the collection anew: it is
\* missing only while one of them is about to create it, or after that failed.
THEOREM CollectionStays == QdrantSpec => []MissingOnlyByFailure
<1>1. QdrantInit => MissingInv
  BY TypeInit, StoresInit DEF QdrantInit, MissingInv, MissingOnlyByFailure, TypeInv
<1>2. MissingInv => MissingOnlyByFailure
  BY DEF MissingInv
<1> QED
  BY <1>1, <1>2, MissingStep, PTL DEF QdrantSpec

-----------------------------------------------------------------------------
(* The composition with the caches, the users and the plugins *)

\* Side by side, the four components each behave as they do alone: what one does
\* stutters for the others, and what the bounds of a part leave out is no step of it.
\* So what is proved of any of them holds of all.
THEOREM PartsOfServices ==
  ServicesSpec => CacheSpec /\ UsersSpec /\ PluginsSpec /\ QdrantSpec
<1>1. ServicesInit => CacheInit /\ UsersInit /\ PluginsInit /\ QdrantInit
  BY DEF ServicesInit
<1>2. [ServicesNext]_servicesVars =>
        [CacheNext]_cacheVars /\ [UsersNext]_userVars /\ [PluginsNext]_pluginVars
          /\ [QdrantNext]_qdrantVars
  BY DEF ServicesNext, CachePart, KeysPart, SessionsPart, QuotaPart, PluginsPart,
         CollectionPart, servicesVars
<1> QED
  BY <1>1, <1>2, PTL DEF ServicesSpec, CacheSpec, UsersSpec, PluginsSpec, QdrantSpec

\* Whatever the calls of the four do, their variables keep their types.
THEOREM ServicesTypes == ServicesSpec => []ServicesTypeOK
<1>1. CacheTypeOK /\ UsersTypeOK /\ PluginsTypeOK /\ QdrantTypeOK => ServicesTypeOK
  BY DEF ServicesTypeOK
<1> QED
  BY <1>1, PartsOfServices, CacheTypeCorrect, UsersTypeCorrect, PluginsTypeCorrect,
     TypeCorrect, PTL
=============================================================================
