\* Two updates of different rows of one case.
SPECIFICATION Spec
\* The run may be deleted, or archived with the model's bounds used up.
CHECK_DEADLOCK FALSE
CONSTANTS
  t1 = t1
  t2 = t2
  c1 = c1
  c2 = c2
  Tx <- TwoRequests
  Cases <- OneCase
  Outcomes <- FewOutcomes
  Scenarios <- OneOrTwoScenarios
  MaxRows = 2
  MaxHistory = 2
INVARIANTS
  AggregateIsRollUp
