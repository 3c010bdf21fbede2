SPECIFICATION Spec
CHECK_DEADLOCK FALSE
CONSTANTS
  MaxWorkers = 4
  MaxCalls = 3
  r1 = r1
  r2 = r2
  Runners <- OneRunner
  Iterations <- RunAndOne
  Patient = TRUE
INVARIANT
  RoundsDoNotOverlap
