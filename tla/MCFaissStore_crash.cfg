SPECIFICATION Spec
CONSTANTS
  d1 = d1
  d2 = d2
  NoDoc = NoDoc
  Docs = {d1, d2}
  MaxId = 3
SYMMETRY Symmetry
INVARIANTS
  AckedSurvivesCrash
