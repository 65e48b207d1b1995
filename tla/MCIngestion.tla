---------------------------- MODULE MCIngestion ----------------------------
(***************************************************************************)
(* What ingestion does to a document and where it puts it, side by side:   *)
(* the chunks of one text, and the vector store.  They share no state, and *)
(* a behaviour is one of a single part.                                    *)
(***************************************************************************)
EXTENDS FaissStore, ChunkOptimizer, TLC

VARIABLE part

ingestionVars == <<vars, optimizerVars, part>>

\* Tokens of one character each, and texts with a long word, first or in the middle.
EvenLayout == [n \in 0..LongestText |-> n]
SomeLayouts ==
  {EvenLayout} \cup {[n \in 0..LongestText |-> IF n <= w THEN n ELSE n + 8] : w \in {0, 3}}

IngestionInit ==
  /\ Init
  /\ \/ part = "chunks" /\ OptimizerInit
     \/ /\ part = "store"
        /\ text = [length |-> 1, at |-> EvenLayout, ends |-> {}, breaks |-> {},
                   spans |-> {}, headed |-> FALSE]
        /\ overlap = 0 /\ chunks = <<>> /\ start = 0
        /\ optimized = <<>> /\ taken = 0

\* Bound: no more than one vector that the index should not hold, in memory and on disk.
FewOldVectors == Cardinality(old \cup oldFile) <= 1

StorePart ==
  /\ part = "store" /\ Next /\ FewOldVectors'
  /\ UNCHANGED <<optimizerVars, part>>

ChunksPart == part = "chunks" /\ OptimizerNext /\ UNCHANGED <<vars, part>>

\* A text that is chunked stays so: the store never stops, and no other part does.
TextDone ==
  /\ part = "chunks" /\ Chunked /\ taken = Len(chunks)
  /\ UNCHANGED ingestionVars

IngestionNext == StorePart \/ ChunksPart \/ TextDone

IngestionSpec == IngestionInit /\ [][IngestionNext]_ingestionVars

IngestionTypeOK ==
  /\ part = "store" => TypeOK
  /\ part = "chunks" => OptimizerTypeOK

Symmetry == Permutations(Docs)
=============================================================================
