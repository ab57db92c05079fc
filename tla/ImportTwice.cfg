\* Two workers, one import that is recovered while its trigger waits.
SPECIFICATION Spec
\* Every import may have ended, with no trigger left.
CHECK_DEADLOCK FALSE
CONSTANTS
  i1 = i1
  i2 = i2
  w1 = w1
  w2 = w2
  Imports <- OneImport
  Workers <- TwoWorkers
  MaxTriggers = 2
  MaxAttempts = 2
INVARIANTS
  AppliedAtMostOnce
