\* Three commands write to one feature; a write may stop anywhere.
CONSTANTS
  Procs = {p1, p2, p3}
  Readers = {}
  NoProc = NoProc
  LeafOrder <- MCLeafOrder
  Kinds = {"mutate", "dryRun", "rebuild", "checkTail"}
  MaxBatch = 2
  EmitsSpec = {FALSE}
  CutPoints = {"boundary", "fragment", "unterminated"}
  MaxCrashes = 1
SPECIFICATION Spec
SYMMETRY Symmetry
INVARIANTS TypeOK SeqContiguous CommittedSurvives DoctorRefreshes
PROPERTIES AppendsBehindValidatedBase
CHECK_DEADLOCK FALSE
