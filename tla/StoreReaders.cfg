\* Two writers and a reader that takes no lease; a short write tears a line.
CONSTANTS
  Procs = {p1, p2}
  Readers = {r1}
  NoProc = NoProc
  LeafOrder <- MCLeafOrder
  Kinds = {"mutate", "rebuild", "checkTail"}
  MaxBatch = 2
  EmitsSpec = {TRUE}
  CutPoints = {"fragment"}
  MaxCrashes = 1
SPECIFICATION FairSpec
INVARIANTS FreshMetaDescribesLeaves ReadersServeOnePrefix
PROPERTIES ImplementsAtomicLog LeaseReturned
CHECK_DEADLOCK FALSE
