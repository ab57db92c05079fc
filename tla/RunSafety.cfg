\* Two requests at a time on one case.
SPECIFICATION Spec
\* The run may be deleted, or archived with the model's bounds used up.
CHECK_DEADLOCK FALSE
CONSTANTS
  t1 = t1
  t2 = t2
  c1 = c1
  c2 = c2
  Tx <- TwoRequests
  Cases <- OneCase
  Outcomes <- FewOutcomes
  Scenarios <- OneScenario
  MaxRows = 3
  MaxHistory = 1
INVARIANTS
  TypeOK
  RowsAreConsecutive
  PassingMeansSettled
  ClosedRunsAreReported
PROPERTIES
  OutcomesAreKept
  AloneLeavesExactAggregate
  AloneMovesForward
  AloneCompletesSettledRuns
  ClosedEvidenceIsFrozen
\* Requests are interchangeable; no liveness property is checked here.
SYMMETRY RequestSymmetry
