\* An acceptance outlives the way back: the next iteration is not judged again.
SPECIFICATION Spec
CONSTANTS
  ItemIds = {"r1", "s1"}
  Scenarios <- DeepBugOnly
INVARIANT NothingOpenPastAccept
CHECK_DEADLOCK FALSE
