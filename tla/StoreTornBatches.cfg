\* Two batches torn between two lines, then a tail repair.
CONSTANTS
  Procs = {p1, p2, p3}
  Readers = {}
  NoProc = NoProc
  LeafOrder <- MCLeafOrder
  Kinds = {"mutate", "checkTail"}
  MaxBatch = 2
  EmitsSpec = {FALSE}
  CutPoints = {"boundary"}
  MaxCrashes = 0
SPECIFICATION Spec
SYMMETRY Symmetry
INVARIANTS CheckTailEndsOnCommit
CHECK_DEADLOCK FALSE
