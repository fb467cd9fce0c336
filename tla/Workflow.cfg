\* Six kinds of session, each under every order of its commands.
SPECIFICATION Spec
CONSTANTS
  ItemIds = {"r1", "s1"}
  Scenarios <- AllScenarios
INVARIANTS TypeOK FinalPastExecute ExecutesLockedSpec LockedPlanCurrent
  IterationCountsBackEdges DeliveredMeetsCeremony AbandonedDepsOnlyUnderReopened
  GraphStaysAcyclic WorkNeverStuck AdviceIsLegal
PROPERTIES AcceptanceStands BlockedByDecision ReopenedBySponsor ProgressKept
  IdsNeverReused GraphFrozenInWork ImplementsLifecycle
CHECK_DEADLOCK FALSE
