SPECIFICATION Spec
CONSTANTS
  w1 = w1
  w2 = w2
  NoWorker = NoWorker
  Workers = {w1, w2}
  Kinds = {"query"}
  LastDay = 2
  Limits = {1}
INVARIANTS
  ServedWithinLimit
