\* Three commands: one dies while it holds the lease, the others recover it.
CONSTANTS
  Procs = {p1, p2, p3}
  NoProc = NoProc
  MaxAttempts = 2
  MaxCrashes = 1
  SlowCreate = FALSE
  LeftBehind = {}
SPECIFICATION Spec
PROPERTIES LiveLeaseNeverStolen
CHECK_DEADLOCK FALSE
