SPECIFICATION Spec
CONSTANTS
  Requests <- MixedRequests
  PriorityUpdates <- OntoTheOther
  MaxId = 3
  Horizon = 3
  Never = 99
  ResetInCallback = TRUE
INVARIANTS
  SameIdNeverQueuedTwice
