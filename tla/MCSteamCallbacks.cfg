SPECIFICATION FairSpec
CONSTANTS
  t1 = t1
  t2 = t2
  l1 = l1
  l2 = l2
  Nobody = Nobody
  Threads <- TwoThreads
  Listeners <- MCListeners
  MaxCalls = 2
  MaxListening = 2
INVARIANTS
  DroppedOnlyWhenNested
  ResultsRunOnce
PROPERTIES
  WaitingHandlersRun
CHECK_DEADLOCK FALSE
