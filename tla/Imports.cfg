\* The shipped deployment: one worker; anything may fail.
SPECIFICATION FairSpec
\* Every import may have ended, with no trigger left.
CHECK_DEADLOCK FALSE
CONSTANTS
  i1 = i1
  i2 = i2
  w1 = w1
  w2 = w2
  Imports <- OneImport
  Workers <- OneWorker
  MaxTriggers = 2
  MaxAttempts = 3
INVARIANTS
  TypeOK
  AppliedAtMostOnce
  ReadyArtifactsHaveFiles
  CompletedHasSummary
  InvalidLeavesRunAlone
PROPERTIES
  EndedStaysEnded
  KeepsContract
  ForgottenOnlyByFaults
  RestartsRecover
