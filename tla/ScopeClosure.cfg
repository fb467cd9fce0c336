\* Three hooks and closures on one session, over back edges, failures and a kill.
SPECIFICATION Spec
CONSTANTS
  Procs = {p1, p2, p3}
  NoProc = NoProc
  Paths = {a, b}
  LegacyClosures = {1}
  MaxIteration = 3
  MaxEntries = 4
  MaxCrashes = 1
SYMMETRY Symmetry
INVARIANTS TypeOK ClosedOnceWithItsScope SuccessSettlesPending
PROPERTY LostOnlyToOvertakenHook
CHECK_DEADLOCK FALSE
