\* A completion and an update at the same time.
SPECIFICATION Spec
\* The run may be deleted, or archived with the model's bounds used up.
CHECK_DEADLOCK FALSE
CONSTANTS
  t1 = t1
  t2 = t2
  c1 = c1
  c2 = c2
  Tx <- TwoRequests
  Cases <- OneCase
  Outcomes <- FewOutcomes
  Scenarios <- OneScenario
  MaxRows = 2
  MaxHistory = 1
INVARIANTS
  ClosedMeansNothingInProgress
