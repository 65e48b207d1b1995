SPECIFICATION IngestionSpec
CONSTANTS
  d1 = d1
  d2 = d2
  NoDoc = NoDoc
  Docs = {d1, d2}
  MaxId = 2
  ChunkSize = 5
  Overlaps = {0, 2}
  MinCut = 1
  Layouts <- SomeLayouts
  MinHeaded = 2
  MostChunks = 1
  LongestText = 8
  MostMarks = 1
  MinSize = 3
  MaxSize = 4
SYMMETRY Symmetry
INVARIANTS
  NothingBetweenChunks
