\* Two commands contend over what dead, slow or older commands left behind.
CONSTANTS
  Procs = {p1, p2}
  NoProc = NoProc
  MaxAttempts = 3
  MaxCrashes = 2
  SlowCreate = TRUE
  LeftBehind = {"empty", "partial"}
SPECIFICATION FairSpec
PROPERTIES LostOnlyToStaleUnlink AcquisitionSettles DeadLeaseReclaimed
CHECK_DEADLOCK FALSE
