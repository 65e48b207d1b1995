--------------------------- MODULE ChunkOptimizer ---------------------------
(***************************************************************************)
(* The chunks of TokenChunking as AdaptiveChunker returns them: one after  *)
(* the other, ChunkOptimizer merges small ones with what it has and splits *)
(* large ones.                                                             *)
(*                                                                         *)
(* The content of a chunk is the sequence of its tokens; a paragraph break *)
(* or the end of a sentence belongs to the token before it.  With headings *)
(* known, the document's spans are headings, otherwise tables.             *)
(***************************************************************************)
EXTENDS TokenChunking, SequencesExt

CONSTANTS
  MinSize, MaxSize   \* min_size, max_size, from chunk_target_size and its tolerance

ASSUME ChunkOptimizerAssumption ==
  MinSize \in Nat \ {0} /\ MaxSize \in Nat /\ MinSize < MaxSize

VARIABLES
  optimized,  \* contents of the optimized chunks
  taken       \* how many chunks were looked at

optimizerVars == <<chunkVars, optimized, taken>>

Content(chunk) == [k \in 1..chunk.to - chunk.from |-> chunk.from + k - 1]

OptimizerTypeOK ==
  /\ ChunksTypeOK
  /\ taken \in 0..Len(chunks)
  /\ \A i \in DOMAIN optimized : optimized[i] # <<>> /\ optimized[i] \in Seq(0..LongestText - 1)

OptimizerInit == ChunksInit /\ optimized = <<>> /\ taken = 0

-----------------------------------------------------------------------------
\* content cut after the tokens that end at one of the offsets: the next token
\* begins a piece, any other goes on with the last one.
Pieces(content, offsets) ==
  LET pieces[k \in 0..Len(content)] ==
        IF k = 0 THEN <<>>
        ELSE LET before == pieces[k - 1]
             IN  IF k = 1 \/ content[k - 1] + 1 \in offsets
                 THEN Append(before, <<content[k]>>)
                 ELSE Append(Front(before), Append(Last(before), content[k]))
  IN  pieces[Len(content)]

\* In two at the sentence in the middle, if there is more than one.
Halved(content) ==
  LET sentences == Pieces(content, text.ends)
      middle == Max({1, Len(sentences) \div 2})
  IN  IF Len(sentences) > 1
      THEN <<FlattenSeq(SubSeq(sentences, 1, middle)),
             FlattenSeq(SubSeq(sentences, middle + 1, Len(sentences)))>>
      ELSE <<content>>

IsTable(paragraph) == ~text.headed /\ \E s \in text.spans : s[1] = paragraph[1]

\* _split_large: into its paragraphs, the large ones in two, or itself in two.
SplitLarge(content) ==
  LET paragraphs == Pieces(content, text.breaks)
  IN  IF Len(paragraphs) = 1 THEN Halved(content)
      ELSE FlattenSeq([i \in DOMAIN paragraphs |->
             IF Len(paragraphs[i]) > MaxSize /\ ~IsTable(paragraphs[i])
             THEN Halved(paragraphs[i]) ELSE <<paragraphs[i]>>])

\* Mutant: the chunk that was merged and split again is not taken off the list.
MergedKeepingLast(list, content) ==
  IF list = <<>> THEN <<content>>
  ELSE LET both == list[Len(list)] \o content
       IN  IF Len(both) > MaxSize THEN list \o SplitLarge(both)
           ELSE Append(Front(list), both)

\* _merge_with_previous
Merged(list, content) ==
  IF list = <<>> THEN <<content>>
  ELSE LET both == list[Len(list)] \o content
       IN  Front(list) \o IF Len(both) > MaxSize THEN SplitLarge(both) ELSE <<both>>

OptimizeChunk ==
  /\ Chunked /\ taken < Len(chunks)
  /\ LET content == Content(chunks[taken + 1])
     IN  optimized' = IF Len(content) < MinSize THEN Merged(optimized, content)
                      ELSE optimized \o IF Len(content) > MaxSize THEN SplitLarge(content)
                                        ELSE <<content>>
  /\ taken' = taken + 1
  /\ UNCHANGED chunkVars

OptimizerNext ==
  \/ ChunksNext /\ UNCHANGED <<optimized, taken>>
  \/ OptimizeChunk

OptimizerSpec == OptimizerInit /\ [][OptimizerNext]_optimizerVars

-----------------------------------------------------------------------------
(* Properties *)

\* What is merged and split again, and again with the next chunk, comes out with
\* every token of the chunks in their order, none twice and none lost.
OptimizerKeepsText ==
  FlattenSeq(optimized) = FlattenSeq([i \in 1..taken |-> Content(chunks[i])])
=============================================================================
