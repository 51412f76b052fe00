SPECIFICATION FairSpec
CONSTANTS
  s1 = s1
  s2 = s2
  v1 = v1
  v2 = v2
  Sockets <- TwoSockets
  Servers <- MCServers
  Order <- MCOrder
  MaxSends = 2
INVARIANTS
  EveryDiscoveryHasOneFate
  LossOnlyByOverlap
  AnswersInOrder
PROPERTIES
  EveryDatagramIsHandled
  UnloadFinishes
CHECK_DEADLOCK FALSE
