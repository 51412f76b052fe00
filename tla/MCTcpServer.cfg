SPECIFICATION FairSpec
CONSTANTS
  s1 = s1
  s2 = s2
  Sockets <- TwoSockets
  MaxRequests = 3
  ReplyLen <- MCReplyLen
  BufferSizes = {1, 4}
INVARIANTS
  NoFalseEnd
  ReadableStaysReadable
PROPERTIES
  KeepsPromise
  EveryRequestIsHandled
CHECK_DEADLOCK FALSE
