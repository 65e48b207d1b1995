---------------------------- MODULE TokenChunking ----------------------------
(***************************************************************************)
(* TokenChunker.chunk: how a document is cut into the chunks that are      *)
(* embedded and searched.                                                  *)
(*                                                                         *)
(* A document is what the chunker looks at: its number of tokens and the   *)
(* offsets between them where sentences end, paragraphs break and tables,  *)
(* code blocks or headings begin and end.  Windows and their overlap are   *)
(* counted in tokens; how far from its beginning a chunk may be cut, in    *)
(* characters, of which a token has one or more.  The tokenizer is there;  *)
(* how chunks are counted without it is left out.                          *)
(***************************************************************************)
EXTENDS Naturals, Sequences, FiniteSets, FiniteSetsExt

CONSTANTS
  ChunkSize,     \* RAG_CHUNK_SIZE
  Overlaps,      \* values of RAG_CHUNK_OVERLAP
  MinCut,        \* 10: characters that a cut before a table leaves
  MinHeaded,     \* 20: characters of a chunk that is cut at a heading
  MostChunks,    \* 10000
  Layouts,       \* where tokens may begin: numbers of characters before them
  LongestText, MostMarks   \* bounds of the model

ASSUME TokenChunkingAssumption ==
  /\ ChunkSize \in Nat \ {0} /\ LongestText \in Nat /\ MostMarks \in Nat
  /\ Overlaps \subseteq 0..ChunkSize - 1 /\ Overlaps # {}
  /\ MinCut \in Nat /\ MinHeaded \in Nat /\ MostChunks \in Nat
  /\ Layouts \subseteq [0..LongestText -> Nat]
  /\ \A at \in Layouts : \A n, m \in 0..LongestText : n < m => at[n] < at[m]

VARIABLES
  text,     \* the document
  overlap,  \* chunk_overlap
  chunks,   \* chunks made so far
  start     \* start_token_idx

chunkVars == <<text, overlap, chunks, start>>

\* Offset n lies before token n: tokens from..to-1 are between offsets from and to.
Marks(offsets) == {s \in SUBSET offsets : Cardinality(s) <= MostMarks}
Spans(n) == {s \in (0..n) \X (0..n) : s[1] < s[2]}

\* at[n] characters come before offset n.  A span is a table, a code block or a
\* heading; the headings are known or not.
Texts ==
  UNION {[length : {n}, at : Layouts, ends : Marks(1..n), breaks : Marks(1..n),
          spans : {{}} \cup {{s} : s \in Spans(n)}, headed : BOOLEAN] : n \in 1..LongestText}

\* A chunk is tokens from..to-1; its window reached to end before it was cut.
Chunk == [from : 0..LongestText, to : 0..LongestText, end : 0..LongestText]

ChunksTypeOK ==
  /\ text \in Texts /\ overlap \in Overlaps /\ start \in 0..LongestText
  /\ chunks \in Seq(Chunk) /\ Len(chunks) <= MostChunks + 1

ChunksInit ==
  /\ text \in Texts
  /\ overlap \in Overlaps /\ chunks = <<>> /\ start = 0

-----------------------------------------------------------------------------
\* The characters from one offset to the next.
Characters(from, to) == text.at[to] - text.at[from]

\* Mutant: a chunk ends with the last sentence that ends in its window.
SentenceCutAnywhere(from, end) ==
  LET ends == {e \in text.ends : from < e /\ e <= end}
  IN  IF end < text.length /\ ends # {} THEN Max(ends) ELSE end

\* _adjust_chunk_boundary: the last sentence that ends in the window, if it ends
\* in the last three tenths of its characters.
SentenceCut(from, end) ==
  LET ends == {e \in text.ends : from < e /\ e <= end}
  IN  IF end < text.length /\ ends # {}
         /\ 10 * Characters(from, Max(ends)) > 7 * Characters(from, end)
      THEN Max(ends) ELSE end

\* The first table, code block or heading that the chunk reaches.
Reached(from, to) == {s[1] : s \in {s \in text.spans : from < s[2] /\ to > s[1]}}

\* Mutant: a chunk is cut before a table wherever it begins.
SpanCutAnywhere(from, to) ==
  IF Reached(from, to) # {} /\ Min(Reached(from, to)) >= from
  THEN Min(Reached(from, to)) ELSE to

SpanCut(from, to) ==
  IF Reached(from, to) # {} /\ Min(Reached(from, to)) > from
     /\ Characters(from, Min(Reached(from, to))) > MinCut
  THEN Min(Reached(from, to)) ELSE to

\* With headings known, the last paragraph or heading in the last four tenths.
HeadingCut(from, to) ==
  LET cuts == {b \in text.breaks : from <= b /\ b < to}
                \cup {s[1] : s \in {s \in text.spans : from < s[1] /\ s[1] < to}}
  IN  IF text.headed /\ Characters(from, to) > MinHeaded /\ cuts # {}
         /\ 10 * Characters(from, Max(cuts)) > 6 * Characters(from, to)
      THEN Max(cuts) ELSE to

\* The text fits in a single chunk.
SingleChunk ==
  /\ start = 0 /\ chunks = <<>> /\ text.length <= ChunkSize
  /\ chunks' = <<[from |-> 0, to |-> text.length, end |-> text.length]>>
  /\ start' = text.length
  /\ UNCHANGED <<text, overlap>>

\* The next window starts from the end of this one, not from where it was cut.
NextChunk ==
  LET end == Min({start + ChunkSize, text.length})
      to == HeadingCut(start, SpanCut(start, SentenceCut(start, end)))
  IN  /\ text.length > ChunkSize /\ start < text.length /\ Len(chunks) <= MostChunks
      /\ chunks' = Append(chunks, [from |-> start, to |-> to, end |-> end])
      /\ start' = IF end < text.length THEN end - overlap ELSE end
      /\ UNCHANGED <<text, overlap>>

Chunked == start = text.length \/ Len(chunks) > MostChunks

ChunksNext == SingleChunk \/ NextChunk

ChunksSpec == ChunksInit /\ [][ChunksNext]_chunkVars

-----------------------------------------------------------------------------
(* Properties *)

Kept(t) == \E i \in DOMAIN chunks : chunks[i].from <= t /\ t < chunks[i].to

\* The loop ends: every chunk holds something, no more than ChunkSize, and begins
\* after the one before, whatever its boundaries were adjusted to.
ChunksAdvance ==
  \A i \in DOMAIN chunks :
    /\ chunks[i].from < chunks[i].to /\ chunks[i].to - chunks[i].from <= ChunkSize
    /\ i > 1 => chunks[i].from > chunks[i - 1].from
    /\ chunks[i].from < start

\* The overlap makes up for what the end of a sentence can cut off: in every window
\* but the last, its tokens hold three tenths of the characters.
OverlapsCover ==
  \A i \in DOMAIN chunks :
    LET end == chunks[i].end
    IN  end < text.length =>
          10 * Characters(end - overlap, end) >= 3 * Characters(chunks[i].from, end)

\* Prose loses nothing if the overlaps cover what can be cut off.  Three tenths of
\* the tokens are not enough: they may be the short ones.
ProseKept ==
  text.spans = {} /\ ~text.headed /\ OverlapsCover => \A t \in 0..start - 1 : Kept(t)

\* RAG_CHUNK_OVERLAP is the "Overlap size between adjacent chunks"
\* (docs/configuration.md): with one, nothing between two chunks is lost.
NothingBetweenChunks ==
  overlap > 0 => \A i \in DOMAIN chunks : i > 1 => chunks[i].from <= chunks[i - 1].to
=============================================================================
