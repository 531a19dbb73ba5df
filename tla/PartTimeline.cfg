CONSTANTS
  Timelines <- Documents
  Stages = {"suppressed", "suppression", "parameter", "field", "operation"}
  MaxTroubles = 2
  MaxOperands = 2
SPECIFICATION Spec
INVARIANTS OkRestsOnOk SeedsAreExact OperandOrderIsIrrelevant
PROPERTIES FailurePassesThrough RemovedIsExact ReportIsTheChange PatternListsOrigins
CHECK_DEADLOCK FALSE
