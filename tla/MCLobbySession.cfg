SPECIFICATION FairSpec
CONSTANTS
  s1 = s1
  Sockets <- OneSocket
  MaxMessages = 5
INVARIANTS
  ReadyMeansEqualKeys
  FirstConversationIsAccepted
  TasksAnsweredInOrder
PROPERTIES
  HandshakeMakesProgress
CHECK_DEADLOCK FALSE
