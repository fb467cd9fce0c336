\* Three commands contend; any of them may be interrupted, none dies.
CONSTANTS
  Procs = {p1, p2, p3}
  NoProc = NoProc
  MaxAttempts = 3
  MaxCrashes = 0
  SlowCreate = FALSE
  LeftBehind = {}
SPECIFICATION Spec
SYMMETRY ProcSymmetry
INVARIANTS TypeOK MutualExclusion HolderOwnsFile
PROPERTIES ImplementsExclusiveLease
CHECK_DEADLOCK FALSE
