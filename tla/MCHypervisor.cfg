SPECIFICATION FairSpec
CONSTANTS
  MaxHosts = 2
  MaxRuns = 1
  Listeners = {0}
  MaxCalls = 3
  HostCalls = {"Exit"}
CHECK_DEADLOCK FALSE
INVARIANT TypeOK
INVARIANT TasksEndBeforeTheCall
INVARIANT EveryHostAnswers
INVARIANT OneFailureSparesTheOthers
INVARIANT ListenersHearEachChangeOnce
PROPERTY CallsReturn
