\* A mutation of the spec dies before spec.md is written; doctor rebuilds.
CONSTANTS
  Procs = {p1, p2}
  Readers = {}
  NoProc = NoProc
  LeafOrder <- MCLeafOrder
  Kinds = {"mutate", "rebuild"}
  MaxBatch = 1
  EmitsSpec = {TRUE}
  CutPoints = {}
  MaxCrashes = 1
SPECIFICATION Spec
SYMMETRY Symmetry
INVARIANTS RebuildRestoresSpec
CHECK_DEADLOCK FALSE
