\* Two hooks, one of which waits for the lock over a back edge.
SPECIFICATION Spec
CONSTANTS
  Procs = {p1, p2}
  NoProc = NoProc
  Paths = {a, b}
  LegacyClosures = {}
  MaxIteration = 2
  MaxEntries = 2
  MaxCrashes = 0
SYMMETRY Symmetry
PROPERTY MonotoneUnion
CHECK_DEADLOCK FALSE
