\* One request at a time.
SPECIFICATION Spec
\* The bound on requests stops the model.
CHECK_DEADLOCK FALSE
CONSTANTS
  r1 = r1
  r2 = r2
  s1 = s1
  s2 = s2
  s3 = s3
  s4 = s4
  s5 = s5
  Requests <- OneRequest
  Suites <- FiveSuites
  Root = Root
  Unborn = Unborn
  Gone = Gone
  MAX_SUITE_DEPTH = 4
  MaxRequests = 1
  MaxTodo = 5
INVARIANTS
  NestingIsLimited
