\* Two requests on any tree of at most four suites.
SPECIFICATION Spec
\* The bound on requests stops the model.
CHECK_DEADLOCK FALSE
CONSTANTS
  r1 = r1
  r2 = r2
  s1 = s1
  s2 = s2
  s3 = s3
  s4 = s4
  s5 = s5
  Requests <- TwoRequests
  Suites <- FourSuites
  Root = Root
  Unborn = Unborn
  Gone = Gone
  MAX_SUITE_DEPTH = 3
  MaxRequests = 3
  MaxTodo = 4
INVARIANTS
  TypeOK
PROPERTIES
  CyclesNeedOverlappingMoves
  OnlyMovesExceedLimit
  CommitsAreAtomic
\* No liveness property is checked here.
SYMMETRY Symmetry
