SPECIFICATION FairSpec
CHECK_DEADLOCK FALSE
CONSTANTS
  MaxWorkers = 3
  MaxCalls = 2
  r1 = r1
  r2 = r2
  Runners <- OneRunner
  Iterations <- RunAndOne
  Patient = TRUE
PROPERTY
  PauseEndsTheRun
