SPECIFICATION FairSpec
CONSTANTS
  Requests <- MixedRequests
  PriorityUpdates <- OntoTheOther
  MaxId = 3
  Horizon = 3
  Never = 99
  ResetInCallback = FALSE
INVARIANTS
  TypeOK
  QueueSorted
  QueueMatchesMap
  RunsOnTime
  NoOversleep
PROPERTIES
  ImplementsTimeline
  EventuallyExecuted
