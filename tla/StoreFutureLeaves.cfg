\* A batch torn between two lines, a rebuild that dies, a tail repair.
CONSTANTS
  Procs = {p1, p2, p3}
  Readers = {}
  NoProc = NoProc
  LeafOrder <- MCLeafOrder
  Kinds = {"mutate", "rebuild", "checkTail"}
  MaxBatch = 2
  EmitsSpec = {FALSE}
  CutPoints = {"boundary"}
  MaxCrashes = 1
SPECIFICATION Spec
SYMMETRY Symmetry
INVARIANTS FreshMetaDescribesLeaves
CHECK_DEADLOCK FALSE
